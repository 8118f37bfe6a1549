# SparkScope: specifications, model checking and proofs

SparkScope is a fleet monitor: one asyncio process (FastAPI) polls devices over
SSH, stores samples, raises alarms, sends notifications and serves a React
dashboard. There are no worker processes. What is hard about the server comes from
tasks of one event loop that interleave at every `await`, from a database that
commits one transaction at a time, and from restarts; what is hard about the
dashboard comes from answers that arrive late, overtake one another or never come,
while a person goes on clicking.

This directory models that program in TLA+. Each module is written from the
code; the map in `PROJECT.json` gives the lines each definition stands for.

## 1. The system

| Component | Source | State | Operations | Interacts with |
|---|---|---|---|---|
| Notification queue | `sparkscope/notifications.py` | rows `fleet_events.notification_processed`, `notification_deliveries`, `maintenance_windows.summarized`; the tick's locals | `tick` (ingest, select, claim, send, record), `run` | channels, windows, devices, alerts; external webhook/SMTP |
| Channels and windows | `sparkscope/extensions.py`, `frontend/src/SettingsExtensions.tsx` | rows `notification_channels`, `maintenance_windows`; the panel's lists, form and request | save, delete and test a channel; add and end a window | read by the queue |
| Alert engine | `sparkscope/alerts.py` | in-memory counters; rows `alerts`, `fleet_events` | `evaluate`, `reset` | called by the system poll, inside its transaction |
| Collector | `sparkscope/collector.py` | `tasks` per device with the revision they were started for; locks, semaphores, metrics | `supervise`, four loops per device, `start`, `stop` | transport, alert engine, devices edited by the API |
| SSH transport | `sparkscope/ssh.py` | cached connections keyed by device and revision; previous counter readings | `connection`, `close`, `system`, `info`, `smart`, `run` | collector, discovery, operations |
| Rollups, retention, history queries | `sparkscope/history.py` | cursors of two resolutions, `samples`, `rollups` | `summarize`, `maintain`, `history` | the collector's maintenance task; the API |
| Discovery and onboarding | `sparkscope/api.py`, `frontend/src/Onboarding.tsx` | `jobs` of kind discovery with sealed credentials; the dialog | start, probe, trust, save, expire, interrupt | transport, devices |
| Operations | `sparkscope/api.py`, `commands.py`, `frontend/src/Pages.tsx` | `jobs` of kind command, `confirmations`; the form | confirm, run, execute, interrupt | transport, devices, accounts |
| Users and setup | `sparkscope/api.py`, `frontend/src/App.tsx`, `Pages.tsx` | `users`, `sessions`, `setup_lock`; the page's boot and Users tab | setup, sign in and out, add and edit accounts | all API calls |
| Live view | `sparkscope/api.py`, `frontend/src/App.tsx`, `api.ts` | the server's previous snapshot per stream; the page's merged lists | snapshot, patch, reconnect, periodic reload | devices, alerts, sessions |
| Hardware policy | `frontend/src/HardwarePolicy.tsx`, `sparkscope/hardware.py`, `extensions.py` | one preference row; the page's copy, selection, draft and table | read, edit and store the policy; `effective_rules` | alert engine |
| Monitoring rules | `frontend/src/Pages.tsx`, `sparkscope/api.py` | preference rows; the draft | read, edit, save | alert engine, retention |
| Performance history | `frontend/src/PerformanceHistory.tsx`, `HistoryEvents.tsx`, `HistoryChart.tsx` | selection, result, events, inspected point | choose, refresh, inspect | history queries |
| Live monitor | `frontend/src/LiveMonitor.tsx`, `FleetViews.tsx` | readings, filters, page of the wall display, expanded cards | filter, rotate, apply a view | live view |
| Parsers, runtimes, security, configuration, CLI, other pages | the other files | little or none | pure conversions, library calls, presentation | |

What makes each correct, in a sentence:

- **Queue**: no alarm event is lost or announced twice, the cap on attempts
  survives crashes, "sent" is true, every delivery is decided, and an incident
  that maintenance hid is reported when maintenance is over.
- **Alert engine**: three consecutive samples open an incident, three close it;
  missing telemetry does neither; opens and resolves alternate.
- **Collector**: results of a poll are stored only for the device as it is now
  configured; pausing and archiving stop collection (section 5 says where they do
  not); no poll loses another's data.
- **Rollups**: a sample is counted once in each resolution before it is deleted,
  and no query counts it twice.
- **Discovery**: one discovery makes one device at most, with a host key that was
  confirmed for it; credentials are forgotten; the dialog does not hang.
- **Operations**: a command is sent at most once to each device, as it was accepted
  and confirmed, and what is reported of it is true.
- **Users**: one setup, and always an active administrator.
- **Live view**: patches add up, and a page left alone shows the database.
- **The screens**: what is shown, kept and stored belongs to what is selected.

## 2. Modules

| Module | Models | Role |
|---|---|---|
| `Outbox` | the life of one delivery row | abstract specification |
| `Notifications` | `notifications.py`, channels and windows of `extensions.py`, delivery retention of `history.py` | component, implements `Outbox` once per delivery |
| `AlertEngine` | `alerts.py`, with the system poll and the settings endpoints that drive it | component |
| `Rollups` | `history.py`: maintenance and the history query, with pollers and the legacy import | component |
| `Collection` | `collector.py`, the connection cache of `ssh.py`, device edits of `api.py` | component |
| `LiveView` | the live effect of `App.tsx`, `api.ts`, `/live` of `api.py` | composition of page and server |
| `Onboarding` | `Onboarding.tsx`, discovery jobs of `api.py`, their expiry and interruption | composition of dialog and server |
| `Operations` | the Operations page, its endpoints, `execute_job` | composition of page and server |
| `Accounts` | the boot and gate of `App.tsx`, sign-in, the Users tab and its endpoints | composition of pages and server |
| `Policy`, `Channels`, `Preferences`, `History`, `Chart`, `Samples`, `Monitor` | one screen each, with the endpoints it calls | components |
| `MCConsole` | the screens side by side | composition, model checking |
| the other `MC...` modules | instances of a component | model checking |
| the `...Proofs` modules | inductive invariants and theorems | proofs |

### Notifications

`Notifier.tick` is one process with a phase: `BeginTick` (reads the clock once,
then channels and windows), `Ingest` (the first transaction: mark events,
create deliveries, summarise windows), `SelectDue`, then for each due delivery
`CancelDelivery`, `ExhaustDelivery`, `SuppressDelivery` or `ClaimDelivery` (the
claim transaction has four exits), `Send`, `Record`, and `EndTick`. Between two
of them the clock may advance, an administrator may save, delete or test a
channel, add or end a window, regroup a device, the alarm engine may commit an
event, retention may delete decided rows, and `Abort` may end the tick: a stop of
the process or an exception that `run` swallows, which are the same to the
database. `Send` has three outcomes: accepted, refused, and received but
reported as an error.

`posts` (messages the endpoint received) and `archive` (rows retention deleted)
are history variables: the code does not have them. The field `by` of an event
(the tick that read it) is one too.

Abstracted: payloads, secrets and validation of channel forms; the cluster
filter of a window, which works like its group filter; ties between equal
timestamps, which the code breaks by a random id and the model by a choice;
deletion of old events and windows, which are read only while unprocessed and
unsummarised. The clock counts 30-second units up to `Horizon`, where it stays:
later times are stored as `Horizon`, so at the horizon everything is due.

### AlertEngine

One device and its metrics. A system poll is `ReadRules` (the SELECTs of
`poll_system` and `evaluate`), `Evaluate` (everything after the last `await`: the
counters move in memory at once, rows and events are staged) and `Commit`.
`Fail` is every way a poll can end badly: an exception, a cancellation by the
supervisor, a stop of the process. Its transaction is rolled back or had been
committed unheard, and `reset` clears the counters (a restart begins without
any). Settings change in one step (`SaveHardwareRules`) or in two
(`SaveThresholds`, later `ClearCounters`).

A count above three is the same to the code as three; a popped counter is the
same as zeros. `log`, the last three verdicts of each metric, and `told`, what a
reader of the events believes, are history variables. The rule of a metric is an
input (absent, disabled, or two levels); how `effective_rules` chooses it is in
`Policy`.

### Rollups

One device, source and metric. Pollers `Take` a sample (it has its `ts`), and
`Store` it up to `MaxDelay` later: `collector.py:140` takes the time before the
poll waits for the device's lock and for the database. A maintenance pass is
`BeginPass`, `Summarize` for the fine and for the coarse resolution, and `Retain`:
three transactions that read the clock once; `Abort` ends it between any two.
`Import` is the legacy import, which the documentation allows in a new
installation with the service stopped, hence before the first pass. `SetPolicy`
changes the retention while passes run.

A rollup row holds the set of samples it sums up instead of their sum, extremes
and count. `timely` marks a sample that no cursor had passed when it was stored;
`counted` and `expired` are history variables. The query (`Rows`, `RawShown`,
`Counts`) is a set of operators on the stored state, evaluated for every interval
in every state. Resolutions and limits are scaled down and keep their order and
divisibility.

### Collection

One device. `supervise` is a process of three steps, `View` (read the active
devices), `Stop` and `Start`. Each loop goes `Collect` (take the cached connection
if its revision matches, else connect; run the commands), `Check` (take the state
lock, read the row, compare) and `Write` (commit). Discovery goes on to `Find` and
`Add`, its second transaction, which takes no lock; the service poll has `Update`
and compares nothing. `rediscover` is one more loop, started by a request and not
supervised. `Fail` covers failed polls, including a failure path that fails itself
and ends the task; `Restart` keeps only the database.

A request (`BeginEdit`, then `Edit`, `Save` or `Refuse`) reads the row first and
commits later, and writes only the columns that differ from what it read, as the
session does. Two requests that read one revision store the same next one;
`lost` records that. `late` marks a poll that began during a pause; a result is
known by the endpoint it came from.

Left out: pools, intervals and random delays (they only delay); status, error and
events of the row; samples and alerts of a poll, which the two modules above take
up; services added by hand.

### LiveView

The page's effect runs while somebody is signed in (`SignIn`, `SignOut`; each start
is a mount of its own). It asks for all lists (`Tick`), is answered (`Answered`)
and applies the answers in any order (`Refreshed`, `Refused`, `LoadFails`). The
stream of each mount goes `Open`, `Push` (the snapshot, then what changed against
`previous`), `Receive`, `Close`/`Drop`, `Reconnect`. Devices and alerts change, and
a session is revoked, at any moment. Rows are content numbers. `reloaded` is a
history variable: a reload was applied since the stream's snapshot.

### Onboarding

A discovery job is read in one step and written in a later one (`ReadTrust`,
`Trust`; `ReadSave`, `Save`; `ReadExpired`, `Expire`), because no lock or version
protects a job: the steps of two callers, of two probes (`Begin`, `HostKey`,
`Complete`, `Fail`) and of the maintenance pass interleave. A probe writes back the
whole result it read, the host key included. Saves run under
`setup_lock`. `Restart` marks unfinished jobs interrupted and forgets coroutines.
The dialog polls, tests, confirms the host key, saves, goes back or is closed and
resumed. `saved` and `trusted` are history variables.

### Operations

The page selects targets from the devices it knows, asks for a confirmation of a
destructive command and posts; a request may be delivered twice (`Deliveries`). The
server validates targets, checks the confirmation and, in one more transaction,
consumes it and stores the job; `execute_job` looks at the device and the owner
again before each target (`Look`), sends, and stores each result. It catches no
failure of its own database sessions: `Dies` ends it anywhere between two commands
and leaves the job running. Meanwhile devices are held, edited, moved to another
endpoint or released, two edits of one device may overtake each other, the role of
the owner changes, and the server restarts. `sent` and `overtaken` (devices one edit
of which lost the revision of another) are history variables.

### Accounts

Several browsers boot (two requests, either of which may fail), set up
the first administrator, sign in, list, add and edit accounts and sign out. The
edit form sends both fields, role and enabled, from the row it was rendered with,
so an old list sets the other field back. Setup and edits take `setup_lock`: what
they test and what they write are two steps.

### The screens

Each of the seven modules is one screen with the requests it makes, and its action
includes the effects that a change of state runs. `Policy`: the page reads the whole
policy once and stores the whole copy; the table of rules in effect is fetched by an
effect whose older answers are disowned (`live`). `Channels`: the list is polled
every 10 s; a form belongs to the channel being edited; one request at a time; a
maintenance window is cancelled or ended in two steps, by the server's clock.
`Preferences`: a draft stands beside the values read, a save is followed by a
reading. `History`: the selection decides the request; results are kept across some
changes; the listed events follow the charted interval. `Chart`: gaps, the
inspected point, the keyboard. `Samples`: the readings a browser keeps. `Monitor`:
filters, pages, rotation of the wall display, saved views. The browser shows one
screen at a time and they share no state, so `MCConsole` follows one of them from
the moment it opens. `Policy` accepts on the server what `validate_hardware` does.

## 3. Runs

All runs pass but `collection_paused`, which finds what it asks for (section 5).

| Run | Question | Bounds |
|---|---|---|
| `notifications_delivery` | is an event lost, an attempt unpaid, through crashes, late commits and statement-level reads? | 2 events (symmetric), 1 channel, batch and queue limits of 1, 2 attempts, clock 0..2 |
| `notifications_maintenance` | is a hidden incident reported after overlapping windows? | 2 windows (symmetric) with every start and end, a test message, clock 0..2; channels configured at time 0 |
| `notifications_liveness` | does each delivery live the life of an `Outbox` row, is it decided, is every ended window summarised? | 1 event, 1 window, 2 attempts, clock 0..1 |
| `alerts_incidents` | do incidents follow three samples in a row, do events tell of them, does a metric that stays bad get one? | 1 metric, 3 readings, 5 rules |
| `rollups_passes` | is each sample counted once before it goes, kept until it has expired in every form, and rolled up at last? does any query count one twice or miss a timely raw one? | 2 samples, clock 0..6, delay up to 1, 2 policies, every interval |
| `collection_polls` | can a result of an old endpoint pass a check of revisions, or a poll that has such a check and began during a pause store? do polls lose each other's data? does the row settle on its own endpoint, and a paused device on no loop? | system, SMART and service polls and a rediscovery, 2 endpoints (symmetric), 1 request, 3 revisions |
| `collection_paused` | does every poll that begins during a pause store nothing? No: the service poll does | system and service poll, 2 endpoints, 1 request, 3 revisions |
| `live_page` | do patches add up, is the indicator honest, does a page left alone show the database? | 1 device, 1 alert, 2 mounts, 2 reloads in flight, 1 message under way |
| `onboarding_discovery` | one device with a confirmed key? credentials forgotten? does the dialog move on? | 1 job, 2 probes, 2 callers, 2 host keys |
| `operations_commands` | is a command sent once, confirmed once, to the endpoint it was accepted for, and reported truly? | one request: of 2 commands (one destructive), to 1 device, delivered twice, 2 jobs; or to 1 device with 2 endpoints and 3 revisions; or to 2 devices, one of them edited |
| `accounts_gate` | one setup, and always an administrator? | 2 accounts, 2 browsers (symmetric) |
| `console_screens` | does what is shown, kept and stored belong to what is selected? | see below |

Why the bounds are enough. *Notifications*: limits of one (`EventLimit`, `DueLimit`)
make the batch boundary bite with two events; two attempts are enough for a first
attempt, a retry and an exhausted row; the properties relate one event, one
channel and one device at a time, and at most two windows (the one that ends and
the one that still covers). *AlertEngine*: metrics share nothing but the poll, so
one is enough; the rules include one that is critical from zero, one without a
critical level, a disabled and an absent one. *Rollups*: the horizon holds a coarse
bucket and a half and a pass limit, so a pass can lag behind and a cursor can start
late; two samples fall into one bucket or two. *Collection*: three revisions are
two edits, the fewest for a task that is two behind and for a pause that ends. One
request at a time is enough, since of two that read the same revision the second one
loses the first one's, and nothing is claimed from then on; the theorems hold for any
number. A rediscovery runs while the SMART and the service poll rest
(`RediscoverAlone`; liveness is checked of what stays within it), and states that differ only in `info` or in which services are
listed count as one (`Compared`): no guard and no property looks at them.
*LiveView*: two mounts for a stream that outlives its sign-in, two reloads for one
that overtakes the other. *Onboarding*: every race is between two probes or two
callers of one job; two keys tell a confirmed one from another. *Operations*: two
deliveries race for one confirmation, and two jobs are what they could make; three
revisions are two edits, enough for a pause that ends and for one edit that overtakes
another; targets share nothing but the coroutine and the order, so two show it going
on to the next, and only one of them need be edited. `Bounds` follows these three
directions (`Confirming`, `Moving`, `Several`) and one request of the page: what the
page fills in or hears after it is posted belongs to the next one. *Accounts*: two
browsers and two accounts demote each other. *Console*: two of everything that can be confused (devices, GPUs, one of them
without a UUID, channels, values, ranges, sources); two requests of a kind so that
one overtakes the other; charts of up to five points over every subset of times
with gaps of one to four intervals; three devices for pages of one or two on the
wall display. `MaxSaves`, `MaxActions`, `PrSaves`, `MoMoves` count what a person does,
and limit the number of tries, not their order. While there is a maintenance window
the channel form is empty (`WindowsAlone`): windows and channels share one request
only.

Fairness. `Notifications`: the clock advances, the tick loop takes its steps (`run`
is an endless loop with a five-second pause), and interruptions happen finitely
often. `AlertEngine`: the poll goes on; the property itself assumes that from some
time on every sample is bad. `Rollups`: the clock and `maintain_loop` go on and
interruptions are finitely many. `Collection`: `supervise` and the loops go on,
`asyncio.Lock` serves its waiters in order (strong fairness of `Check`), failures
and restarts end. `LiveView`: the 8 s timer fires, requests are answered or fail,
streams and their reconnect timers go on; failures and changes end (`Calm`).
`Onboarding`: probes run (each has a time limit), the dialog's timer polls and not
every poll fails (strong fairness of `Polled`), the clock passes the ten minutes,
and the maintenance pass is not cut by a restart every time (strong fairness of
`ReadExpired` and `Expire`). `Monitor`: the rotation timer fires. Nothing is assumed
of endpoints, administrators or users.

Deadlock is not checked where a finite clock, a finite number of requests or a page
that is closed lets the system stop; `alerts_incidents`, `rollups_passes` and the
runs of `Collection` never stop.

## 4. Proofs

Every theorem holds for all values of the constants, from the assumptions named
next to them in the component modules.

| Module | Theorems | Without them, only for the run's instance |
|---|---|---|
| `NotificationsProofs` | `TypeCorrect`, `AttemptsArePaidFor`, `QueueImplementsOutbox`, `EventsAlwaysQueued`, `IncidentsReported`, `PromptIncidentsReported` | `AttemptsPaidFor`, `ImplementsOutbox`, `EveryEventQueued`, `OpenIncidentReported` |
| `AlertEngineProofs` | `TypeCorrect`, `StreaksAlwaysDecide`, `EventsAlwaysTell`, `ChangesAlwaysWarranted` | `StreaksDecide`, `EventsTellAlerts`, `ChangesOnEvidence` |
| `RollupsProofs` | `TypeCorrect`, `SamplesCountedOnce`, `SamplesKept`, `SummariesNeverConflict`, `QueriesCountOnce` | `CountedOnce`, `KeptUnlessExpired`, `NeverConflicts`, `QueriesFaithful` |
| `CollectionProofs` | `TypeCorrect`, `OldEndpointsCaught`, `SourcesKept`, `PausesObserved` | `ChecksCatchOldEndpoints`, `BothSourcesKept`, `PausedPollsDropped` |
| `OnboardingProofs` | `TypeCorrect`, `SavesAsTrusted` | `SavedAsTrusted` |
| `OperationsProofs` | `TypeCorrect`, `SentAtMostOnce`, `SentAsAccepted`, `ConfirmedAlways`, `ReportsAlwaysTrue` | `AtMostOnce`, `SentAsQueued`, `ConfirmedOnce`, `ReportsTruth` |
| `AccountsProofs` | `TypeCorrect`, `AlwaysAdministered` | `Administered` |
| `ConsoleProofs` | `RulesFit`, `PolicyPageCurrent`, `SecretsAtHome`, `CleanFormsStored`, `HistoryAlwaysSelected`, `ReadingsStayInOrder`, `ChartAlwaysAnswer` | `RulesOnFittedGpus`, `PolicyCurrent`, `SecretsStayHome`, `CleanFormIsStored`, `HistoryIsSelected`, `ReadingsInOrder`, `ChartIsAnswer` |
| `ConsoleProofs`, about `LiveView` | `PatchesAddUp`, `ConnectedIsOpen` | `StreamFaithful`, `IndicatorHonest` |

None of the properties is inductive alone. Each module states an inductive
invariant, has one lemma per action (or group of actions that disturb the same
part), and ends in the theorems.

- **Notifications**. One must know that what a tick is sending is pending with an
  unused attempt (`InFlight`, `DuePending`), and that a row about to be created
  never existed, not even in the past (`EventsFresh`, `WindowsFresh`,
  `FreshUnposted`), which for windows read by an earlier SELECT needs `ViewFresh`
  and `ViewKnown`. That no event is missed needs the order of times (`ClockInv`):
  whatever was raised, saved or summarised lies behind the clock, and what a tick has
  read is still so where it matters, that is for channels enabled before it and
  windows that had begun. Then an event is marked and queued by one commit that has
  seen every channel it owes. `IncidentsReported` is about the same incident in both
  of its states: processed, it is announced, told by a summary or hidden by a window
  that has yet to be summarised; unprocessed, no window over its time was summarised
  without telling it (`ProcessedTold`, `UnprocessedTold`). Its two hypotheses restrict
  the steps, not the states: `ScopesStay` (no device moves into or out of the scope of
  a window) and `OnTime` (no alarm is committed after a window over its time was
  summarised). Section 5 says what happens without them. `PromptIncidentsReported`
  derives `OnTime` from `CommitLag = 0`, a timestamp that is the moment of the commit.
- **AlertEngine**. The counters are what the log says (`CountersMatch`: a counter is
  at least `k` exactly when the newest `k` verdicts are of its kind), and what a
  poll has staged is told by its events. The interesting step is `Commit`: it
  stores what was staged before settings and counters moved on.
- **Rollups**. Cursors lie on bucket boundaries, a timely sample is counted exactly
  when the cursor has passed it, a deleted one lies behind both cursors, counted
  samples are in a row unless that row has expired, and rows hold samples of their
  own, closed bucket. For queries, a bucket has one row (`OneRowPerBucket`), and that
  row has every timely sample of the bucket that is still raw (`RowsComplete`), because
  a timely sample cannot arrive in a bucket that is closed.
- **Collection**. While no edit has lost a revision, a revision that anything in
  memory holds stands for one endpoint and is not newer than the row's
  (`RevisionsIdentify`); results follow the device their loop was started for; the
  lock is held exactly between a check and its commit; a pause leaves every task
  behind that was started before it (`LateLeftBehind`). `PausesObserved` is about the
  loops that compare revisions, with the service poll running beside them.
- **Onboarding**. No version protects a job, so a status may be overwritten by a
  probe that began earlier. What holds it together are the credentials: once a save
  or an expiry has taken them, no overwritten status makes the job savable again;
  while they are there, the key of a completed job is a confirmed one (`JobHeld`);
  a probe that reads a host key for the first time never runs beside a trust or a
  save (`CallHeld`, `ProbeHeld`).
- **Operations**. A job with a coroutine reads queued or running, and
  what the coroutine has yet to do was not sent (`Coroutine`); a report agrees with
  what was sent (`Told`); a checked delivery carries a confirmation issued for its
  command and targets (`ConfirmHeld`), and the test that consumes it is the one that
  stores the job, so the other delivery finds it used.
- **Accounts**. `setup_lock` is held by whoever is between its test and its write
  (`LockHeld`), so what the test found is still so (`SetupHolds`, `EditHolds`): there
  were no users, or another administrator remains.
- **Console**. `PolicyInv`: the selected GPU is in the selected device, whatever was
  selected before; so every copy of the policy, the one in flight included, has its
  rules for GPUs where they belong. `ChannelsInv`: what the form, the request in
  flight and the rows hold as a secret was typed for the channel they are about
  (`FormHome`, `ActHome`). `CurrentInv`: while the page can be used, its copy is the
  stored policy, and a table that is shown, or under way and not disowned, is the one
  in effect for the selected device (`CopyIsStored`, `TableFits`). `PreferencesInv`:
  without a draft, what was read is what the server keeps, and a request still in
  flight has been stored (`CleanHeld`). `HistoryInv`: a request that is not disowned
  was asked for what is now selected (`LoadsHeld`, `EventsHeld`). `SamplesInv`: the
  readings are strictly ordered, which dropping the old ones, appending one and
  keeping the newest preserve. `ChartInv` says only that the points are an answer: the
  theorem is about the fold that draws them, which after every point has laid out
  exactly the points so far (`Laid`).
- **LiveView**. `LiveInv`: on every open socket the messages under way, applied in
  order to what is shown, give what the server believes it has sent, and to *any*
  list when a snapshot is first among them (`AddsUp`): so a list fetched over HTTP
  harms nothing that its snapshot does not make good. Streams that are not open have
  no mail, and the indicator follows the streams themselves.

The properties of `LiveView`, `Samples` and `Chart` are about folds over sequences, for
which the library's induction theorems cannot be used here. What was needed of a fold
is proved by the least element instead: a nonempty set of naturals has one (`LeastNat`,
from the well-foundedness of strict inclusion on finite sets, which the library states
without an operator parameter), so the first prefix for which a claim fails follows
one for which it holds, and one step of the fold refutes it.

These proofs use three assumptions the runs also evaluate: `-1`, which stands for
"nothing", is no version of a settings section (`PreferencesAssumption`); at least one
reading is kept (`SamplesAssumption`); a chart has finitely many times, all integers,
and positive intervals (`ChartAssumption`).

Type correctness is the theorem `TypeCorrect` of each module, or for the screens a part
of their invariants; it is not model-checked, and the runs check what could be wrong.

Only model-checked is liveness with its fairness, which the prover cannot treat:
`DeliveriesDecided`, `WindowsSummarized`, `PersistentBadReported`,
`EverySampleCounted`, `SettlesOnEndpoint`, `StaysLive`, `SecretsForgotten`,
`DialogMovesOn` and `WallShowsAll`, the only property of `Monitor`, of which nothing
is proved. Every invariant and every action property of a passing run is a theorem.

## 5. Limits met while modelling

Only the first is shown by a run of its own, the finding in `PROJECT.json`; for the
others the properties are stated so as not to claim more.

Where the code and a document or test differ:

- A service poll that begins after a pause was committed, before the supervisor has
  stopped its task, stores its result: `poll_services` compares neither revision nor
  flags (`collector.py:237`), although `deployment/OPERATIONS.md:91` says that pausing
  stops subsequent collection. `PauseStopsCollection` states the sentence,
  `collection_paused` refutes it, and `PausedPollsDropped` is what the code keeps of it.
- A sample committed after a pass has closed its bucket is never rolled up, and its
  raw row is deleted all the same (`history.py:81`). `KeptUnlessExpired` and
  `EverySampleCounted` speak of timely samples.
- A discovery commits the whole `info` column it read, over a cluster name saved in
  between (`collector.py:213`; `tests/test_clusters.py:37` expects names to stay).
- A delivery suppressed or cancelled before its first attempt leaves the delivery
  list at the next maintenance pass (`history.py:98`; `deployment/MONITORING.md:31`).

Consequences of the design:

- A device that changes group during a window, or an alarm committed after its
  window was summarised, can leave an incident that nobody reports.
  `OpenIncidentReported` is checked for devices that stay in their group and
  alarms committed at once, and proved for devices that stay in their scopes and
  alarms committed before a window over their time is summarised. The other theorems of
  `NotificationsProofs` hold for devices that change group, too.
- Where each statement reads its own snapshot, a tick can read a window that has yet
  to begin; if that window is removed, and the tick then reads an event raised
  after the removal but within the window, the event is suppressed for a window that
  no longer exists. It takes an event younger than the tick that reads it and a clock that
  reaches the window's start between two SELECTs; `EveryEventQueued` and
  `OpenIncidentReported` except it by name (`HiddenByRemoved`).
- A tick compares windows with the time it began: a window that starts during a
  slow tick does not hold back the rest of its deliveries.
- A query skips a late raw sample when another sample of its bucket made a
  summary, and a narrow query whose interval still has one raw sample does not
  look at the summaries of the rest.
- Two requests that edit one device at once may store the same revision, and a
  loop started between the two is then not restarted. Every claim about revisions
  says "unless `lost`", and `SentAsQueued` "unless `overtaken`".
- The hardware policy and the monitoring rules are stored whole, and the last save
  wins: two administrators who edit them at once lose one edit. `PolicyCurrent` and
  `CleanFormIsStored` are about one page.
- An edit of an account from an old list sets the other field back to what it was
  when the list was loaded, which can enable a disabled account again.
- An interrupted operation does not know whether its last target got the command;
  the report leaves it open.
- A coroutine of an operation whose database session fails is gone, and its job reads
  running, and counts among the ten, until the next restart (`api.py:727`).
- A dialog that polls a test another caller has saved shows the spinner of a discovery
  and polls no more (`Onboarding.tsx:39`, `:337`); the user has to close it.
  `DialogMovesOn` excepts it (`SavedElsewhere`).
- After a second sign-in the page may say "Reconnecting" over a live stream, because the
  end of the earlier one is reported late (`api.ts:90`). `IndicatorHonest` claims the
  contrary only of the first sign-in.

## 6. Not modelled

- **Collector lease** (`database.py`): one collector per database by an advisory lock
  of the database server, an external service that decides it alone.
- **`merge_inventory`, parsers, rates, runtime probes**: data of one row or one
  answer, without state; what they return is an input of the modules.
- **Security primitives**: library calls; the login rate limit decides only whether
  a request is refused, which the modules allow any request to be.
- **Command line, configuration, schemas, load test, scripts**: run while the service
  is stopped, or have no state.
- **Saved views as rows, comparison, device pages, alert list, archive, audit,
  demonstration build**: lists that are displayed as the API returns them; what a
  view does to the monitor is in `Monitor`.
- Of modelled components: the limit of ten running operations (a count and an insert
  in separate statements, so more than ten may run; a hazard in `PROJECT.json`);
  database sessions that fail in the handler of a probe's own failure or in the audit
  after a trust (`api.py:475`, `:527`), which leave the job running until it expires or
  the server restarts: `DialogMovesOn` and `SecretsForgotten` take the database to
  answer there; a save of the hardware policy that is given up as lost and stored later
  (`NotSaved`); a GPU that was selected, is no longer listed and belongs to another
  device by now; the moment between the check and the commit of a window's end in
  `Notifications` (`Channels` has it); deletion of old audits, sessions and confirmations, status and events of a device's
  connection, widgets, texts and colours.

`PROJECT.json` lists the hazards with the property that covers each, and for those
that have none, why.
