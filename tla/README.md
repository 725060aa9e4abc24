# Verification of the Android Timeline app

TLA+ models of the app under `src/android_timeline/` (a Home Assistant app that
receives batches of events from an Android phone, keeps them in SQLite and
derives coverage, features and timelines), the TLC configurations that check
them, and TLAPS proofs about them. Paths below are relative to the repository;
`app/` stands for `src/android_timeline/app/`.

## 1. The system

One process (uvicorn, started and restarted by s6) serves a FastAPI
application over one SQLite connection.

- Every endpoint is a coroutine without a suspension point between its database
  calls, so endpoints exclude each other on the event loop.
- `require_device` is a plain function: the framework runs it in a worker
  thread. Token verification and the rate limiter therefore run in parallel
  with each other and with the loop.
- `_maintenance_loop` is a task of the same event loop; it yields while it
  sleeps and while `publish_entities` awaits HTTP responses.
- `Database.transaction` is BEGIN/COMMIT/ROLLBACK on the shared connection. A
  transaction belongs to the connection, not to a thread.
- The stdio MCP server is a second process on the same database file: it
  migrates at its start, waits for the write lock and writes derived rows.
- The Home Assistant integration is a client of the HTTP API, in another
  process and on its own timer.

| Part | State | Operations | What is hard | What makes it correct | Status |
|---|---|---|---|---|---|
| Batch ingestion (`app/ingestion.py`, `acknowledgements.py`, `main.py` ingest, `database.py` writers) | `raw_events`, `collector_heartbeats`, `received_batches`, `batch_event_acknowledgements`, `devices.last_seen_utc`; on the phone the outbox | validate, store_events, record_heartbeat, record_batch, record_acknowledgements, touch_device, respond; retention deletes rows | lost or repeated requests and responses; an error or crash between any two of the transactions; the same event in several batches, or several times in one, in copies that differ; a copy whose validity depends on the clock | the phone drops only what the server holds; one row per event, owned for life by its first batch; an acceptance without a rejection survives replay | `Ingestion`, `EventStore` |
| Device tokens (`app/auth.py` TokenManager) | `devices`, `device_tokens` | enroll, rotate, revoke, verify | transactions of two threads on one connection; reads of uncommitted rows; a crash inside a rotation | transactions exclude each other; what an admin was told is durable; a rotation never locks a device out | `DeviceAuth` |
| Rate limiter (`app/auth.py` RateLimiter) | a list of moments per device | check | worker threads without a lock | no window admits more than the limit; refusals are justified | `RateLimiter` |
| Coverage and features (`app/coverage.py`, `features.py`, retention, maintenance loop, timeline and recompute requests) | `data_coverage`, `hourly_features`, `daily_features` | compute_coverage, compute_hourly_features, compute_daily_features, find_gaps, apply_retention | late events and events dated ahead, windows that start inside an hour, retention between computations, an error between two of the transactions, a stop of the app | rows say what was received; features agree with coverage; a day counts its hours; late events are counted | `Coverage` |
| A day's timeline (`app/timeline.py`, the formulas of `features.py`, `find_gaps` and `coverage_summary`) | the derived rows, the response so far | recompute, roll up, read blocks, counts, daily values, summary and gaps | reads at different moments, another process that writes between them, days that are not 24 hours or start inside an hour, hours without a row | the parts of one response agree; no block claims more than the counts beside it and what retention deleted meanwhile; gaps are the maximal runs | `DayTimeline` |
| The shared file (`app/database.py` transaction, migrate, pragmas) | the log of commits, how much of it is on the disk, the write lock, each process's place | open, migrate, begin, commit, roll back | two processes that start at once, a wait for the lock that times out, the death of a process, a power failure | each migration once and in order; what the phone was told survives a crash; the app comes to serve | `DatabaseFile` |
| MCP server and tools (`app/mcp_server.py`, `mcp_tools.py`) | none on the server; the client follows `next_offset` | paged reads, tools that recompute a window | pages by offset while rows come and go; a second process | a row that stays is missed only for a deleted one and repeated only for an inserted one | `Paging` (the readers), `DayTimeline` (the tools that write), `DatabaseFile` (the process) |
| Maintenance of all devices and entity publication (`app/main.py`, `app/home_assistant.py`) | `daily_features`, the place of the loop, the states in Home Assistant | recompute each device, build a device's states, one post per entity | an error that ends the cycle for every device, lost and failing posts, requests and a midnight between two posts | one device shows one state; nothing is shown before it is computed; published states converge | `Publication` |
| Integration (`src/custom_components/android_timeline/`) | the config entry, the coordinator's last data, the entities | set up, unload, a refresh of one request after another | a device list and a timeline of different moments, refused and unanswered requests, an app that dies inside an ingestion | what an entity shows is backed by the app's rows and as new as the last refresh; entities come back | `Coordinator` |
| Event models (`app/models.py`) | none | validation, hour arithmetic | hour boundaries | | partly: classes of rejected events, `floor_hour`, `hour_range` |
| Configuration, service scripts, schemas, harnesses | | | | | not modelled: read once, or tests and declarations |

How the parts meet: a request first passes `DeviceAuth` and `RateLimiter` in a
worker thread, then `Ingestion` on the loop. Both write through the connection,
so an ingest transaction can fail because a verification is inside its own
transaction (`TransactionFails` of Ingestion, `BeginFails` of DeviceAuth, where
`Write` stands for every other writer). Ingestion's rows are what Coverage reads
(`Ingest` there is `store_events` here) and what retention deletes (in both).
Coverage follows the derived rows through failures, retention and time;
DayTimeline takes whatever rows that may have left and follows one request over
them. DatabaseFile is below all of them: what is a single committed transaction
elsewhere is there an entry of the log. Publication and Coordinator are the two
ways in which Home Assistant learns of the result.

## 2. The modules

### EventStore and Ingestion

`EventStore` is the promise: each event has at most one row, owned by the batch
that first delivered it; the server promises an event only while it holds it;
the phone confirms only what was promised; only retention removes rows.

`Ingestion` is the code. The handler's `phase` is the place in `ingest_batch`
between two transactions:

| Action | Code |
|---|---|
| `Compose`, `Resend`, `ReceiveAck` | the phone's uploader (external, from the wire schemas and `test-harness`) |
| `Disconnect`, `LoseRequest` | the network: a broken connection, a response or a request nobody sees |
| `Refuse` | the endpoint's errors before `ingest_batch` (401, 403, 413, 422, 429, 500) |
| `TakeUp` | `ingest_batch` starts |
| `Validate` | one turn of the validation loop, about one copy and at its own moment (`Rejects` gives the device check and `_validate_event`): rejected, a repeat of an event to be stored, or to be stored |
| `StoreEvents` | `store_events`, one transaction; the repeats inside the batch are added to the duplicates |
| `RecordHeartbeat` | one transaction per newly stored heartbeat |
| `RecordBatch` | `record_batch`: a known batch id only has its replay counter increased |
| `RecordAcknowledgements` | INSERT OR REPLACE of stored, duplicate, rejected entries in that order |
| `TouchDevice`, `Respond` | `touch_device`; `build_acknowledgement` and the response |
| `TransactionFails`, `Crash` | a transaction raises and is rolled back; the process dies |
| `ApplyRetention` | the maintenance loop's deletion, between two requests |
| `Tick` | a copy's time comes inside the allowed skew, later past the retention age |

A batch lists copies, in any order and number (`EventBatch` asks neither for
unique ids nor for equal copies). A copy has an id and classes of its own
(heartbeat, foreign device, implausible, dated ahead), so one receipt may accept
one copy of an event and reject another, and two receipts may disagree. Payloads
are left out. A request may still be on its way when the phone sends the batch
again. The history variables `sent` and `issued` keep what each batch lists and
what each acknowledgement said and stored.

### DeviceAuth

One thread `Loop` issues, rotates, revokes and writes; `Workers` verify. A
thread's `task` is its place in the operation: reading the device row, reading
the active tokens, before BEGIN, before the statement, before COMMIT, before
returning. `live` is the database as the connection sees it, `saved` as
committed. `First` and `Following` give the transactions of an operation in the
code's order (rotate is enroll, then the revocation of every other token).
`BeginFails` is the error of a BEGIN inside another thread's transaction: BEGIN
stands before the `try`, so nothing is rolled back. Scrypt and the pepper are
abstracted to the identity of the token. `revoke_all` and `set_device_enabled`
are called by tests only and left out.

### RateLimiter

`check` in its three steps (`Request` reads the clock, `ReadHits` builds the new
list, `StoreHits` decides, appends and stores). Requests are numbered as they
arrive and a list of moments is the set of the requests made at them, because the
code never uses the order; `admitted` and `refused` are what became of each. The
names carry the prefix `Limiter`, so that one module can prove about the two
parts of `auth.py`.

### Coverage

Time is counted in slots, a fixed number to the hour. An event may be dated up to
`Skew` slots ahead (24 hours in the code), so an hour may hold events that lie
beyond the window of a computation that ends now. A coverage row is the set
of the hour's sources (empty: `is_missing`); features are the counted sources
and the observed sources of the coverage they carry. A computation is
`StartCycle`, `Timeline` or `RecomputeHours` (the coverage transaction), then
`UpsertFeatures`; a cycle and a timeline go on to `RollUp` (the daily features
of yesterday, or of the day asked for, from the stored hours), a cycle to publish
(other requests run meanwhile) and `ApplyRetention`. When a day has no hourly
features at all `compute_daily_features` computes them first; the invariant
`RollUpFindsHours` says that this never happens (and is proved), so the model has
no action for it. `HourRange` and `Stored` keep the code's two readings of a
window: the first includes an hour the window cuts, the second does not.

### Publication

`_maintenance_loop` over all devices, and `publish_entities`. `loop` is the
place in the cycle: the devices still to go through and, while it posts, the
device, the states built for it and the next entity.

| Action | Code |
|---|---|
| `Wake`, `ComputeDevice` | the end of the sleep and `database.devices()`; one turn of the loop (hourly and daily features of one device) |
| `StartPublishing`, `BuildStates` | `publish_entities` reads the devices anew; `build_entity_states` for one of them |
| `Post`, `PostFails` | one `http.post` and its answer; an HTTP error, a failed or timed-out post, which may have been applied all the same |
| `EndCycle` | the return, then retention (of no effect on what is published) |
| `CycleFails`, `Restart` | an exception in a computation or a query; a stop or death of the app anywhere |
| `Enroll`, `Ingest`, `Timeline`, `Midnight` | other requests, between two posts or during the sleep; the clock, at any time |

What a device's entities show is abstracted to the local day they are about,
whether that day is rolled up (if not, the feature entities are `unknown`), and a
version for all the rest (heartbeat, coverage, counts). The settings have
features and publication switched on. Coverage holds the detail of one device's
computations; `rolled` here is the set of days that have rows in `daily` there.

### Paging

`Query` is one request of `query_phone_events` or `export_phone_window`, the two
of the same shape: `EventsInWindow` the query with LIMIT and OFFSET, `HasMore`
the row beyond the page. `StoreEvents` and `ApplyRetention` come between two
requests. The rows are numbered in the query's order, which is total (event time,
then id); retention deletes the first ones. The client uses one page size and
the offsets it is given.

### DayTimeline

One request about one device's derived rows, statement by statement: `todo` is
the list of statements still to run (`TimelineSteps`, `CoverageSteps`,
`GapSteps`), each of them an action.

| Action | Code |
|---|---|
| `AskTimeline`, `AskCoverage`, `AskGaps` | the timeline endpoints and `get_day_timeline`, the coverage endpoint and `get_data_coverage`, `find_data_gaps` |
| `ReadEvents`, `UpsertCoverage`, `UpsertFeatures` | `events_in_window` and the upserts of `compute_coverage` and `compute_hourly_features`, each of which reads the events anew |
| `RollUp`, `UpsertDaily` | `compute_daily_features`: the hours of 24 hours from midnight, and their aggregates |
| `ReadHourly`, `ReadRows`, `CountEvents`, `ReadDaily` | the four reads of `build_day_timeline` |
| `ComputeFirst`, `Summarise`, `ListGaps` | `coverage_summary` and `find_gaps`, which compute the rows when there are none |
| `Ingest`, `Update`, `ApplyRetention` | the app's `store_events`, the computations of its maintenance and the deletion at the end of it, between any two statements of a tool of the stdio server and never inside a request of the app itself |

The ten features are of five forms (mean, share of the samples in minutes, flag
of presence, count, flag of absence) and `HourFeatures` has one of each; None is
the empty set. Minutes are counted in the hundredths to which the code rounds
them (`SampleMinutes`, halves to even), and the pass of `find_gaps` over the rows
is a recursive function of the hour (`Scan`). Every run starts from any subset of the hours with rows, missing
or observed, as cycles and stops of the app leave them. `retired` is the history of
what retention has deleted. Whether the framework runs the tools of the MCP server
mounted in the app on the loop or in a thread is not visible in the repository; the
behaviours are those of a request of the app in the one case and those of a tool,
between whose statements the app may write, in the other.

### DatabaseFile

`log` is the sequence of the committed transactions of interest (a migration, an
event's row, a verdict), of which the first `synced` are on the disk. A process
is `place`d at its next statement.

| Action | Code |
|---|---|
| `Open`, `ReadVersion`, `Apply`, `ApplyFails`, `Migrated` | `Database.__init__` and `migrate`: the version is read once, outside the transactions; the INSERT of a version that is there already fails and ends the process |
| `Begin`, `BeginTimesOut` | BEGIN IMMEDIATE and `busy_timeout` |
| `Receive`, `Store`, `Record`, `Reply` | an ingestion of one event, with the two transactions whose order matters here |
| `EndWrite` | the feature definitions of the app, the derived rows of a tool |
| `Sync`, `PowerFails` | WAL with `synchronous=NORMAL`: a power failure cuts the log anywhere behind what was synced |
| `Crash` | the death of one process: its transaction is rolled back, its lock released |

### Coordinator

The integration of Home Assistant: its config entry, one refresh as a sequence
of requests (`poll`), its data and entities, against an app that goes on. A value
shown is the version of what it was read from: `stored` for what follows from a
device's rows, `seen` for its `last_seen_utc`.

| Action | Code |
|---|---|
| `Configure`, `Setup`, `Unload` | `config_flow.py` (the form as one step), `async_setup_entry`, `async_unload_entry` |
| `TimerFires` | the interval of five minutes; it runs while entities listen |
| `GetHealth`, `GetDevices`, `GetTimeline` | the requests of `_async_update_data`, one device after the other |
| `TimelineRefused` | an error status for one device: logged, and the device is left out |
| `RefreshFails` | everything else that goes wrong, a timeout of one device's timeline included |
| `Refreshed` | the data is replaced; the first refresh creates the entities |
| `Enroll`, `Batch`, `BatchDies`, `Resend` | the app: the rows of a batch come before `touch_device`, and it may die between them |

`DataUpdateCoordinator` and `ConfigEntry` are Home Assistant's and modelled from
how the integration uses them.

## 3. The runs

| Run | Instance | Properties |
|---|---|---|
| `ingestion` | 2 events, a heartbeat and one with two copies of which one is dated ahead; batches of 1 to 4 copies: each alone, the same copy twice, two that differ, one rejected and one accepted around a repeated heartbeat; 3 batch ids, 1 attempt, 1 fault; 337 388 states | `NothingLost`, `StoredVerdictOwnsRow`, `AcceptanceStands`, `StoredHeartbeatsProjected`, `VerdictsAddUp`, `RowKeepsItsBatch`, `ImplementsStore`, `EventsSettle` |
| `device_auth` | 2 workers, 2 tokens, 1 fault; 137 798 states | `TransactionExclusive`, `RepliesAreDurable`, `MatchesAreCommitted`, `RotationKeepsAccess`, `CallsFinish` |
| `rate_limiter` | 2 threads, limit 2 in 2 clock steps, 6 requests; 246 427 states | `LimiterTypeOK`, `UnracedWithinLimit`, `RefusalsJustified` |
| `coverage` | 2 sources of which one is expected, 2 slots an hour, days of 2 hours whose midnight lies inside a UTC hour, window and retention of 2 days, 1 event that may be dated half an hour ahead, 1 fault; 333 553 states | `RecomputedHoursFaithful`, `NothingInvented`, `RollUpFindsHours`, `FeaturesMatchCoverage`, `DailyFaithful`, `DerivedDataCatchUp` |
| `day` | 3 hours of 2 slots; days of 2 hours, one starting inside an hour, one an hour longer, one an hour shorter; 2 events, 4 transactions of the app beside a tool; 2 204 202 states | `TypeOK`, `GapsAreMaximalRuns`, `DayAddsUp`, `BlocksBorneOut` |
| `database_file` | the app and one tool, 2 migrations, 2 events, 1 write of the tool, 2 faults; 112 199 states | `VerdictsHaveRows`, `SchemaOnceInOrder`, `AcceptedSurvivesCrashes`, `AppSettles` |
| `coordinator` | 2 devices, a batch of each, 3 faults; 74 502 states | `LastSyncBacked`, `ShowsLastRefresh`, `EntitiesRecover` |
| `publication` | 2 devices, 3 entities, a midnight, one change of data per device, 2 faults; 400 788 states | `NoTornPass`, `ComputedBeforePublished`, `PublishedConverges` |
| `paging` | 6 rows, pages of 1 to 3, 2 changes of any size; 99 531 states | `TypeOK`, `MissedByDeletionsOnly`, `RepeatedByInsertionsOnly`, `ReadingEnds` |
| `ingestion_heartbeat_loss`, `coverage_boundary`, `coverage_absent` | the smallest instance that shows it | one property each, violated (section 6) |

The type invariants of Ingestion, DeviceAuth, Coverage, Publication, DatabaseFile
and Coordinator are proved (section 4) and not run beside the properties; each
was an invariant of its run before it was proved.

Why the bounds suffice. *Ingestion*: three batch ids let both events be sent
apart and once more after the fault; one fault can fall between any two
transactions, before or after the commit a retry depends on; two events are
needed for a batch of which one part is rejected, and two copies of one of them
for an id that is accepted and rejected by one acknowledgement. The clock may
come between any two turns of the validation loop, so even the same copy listed
twice may be rejected first and accepted second. A copy that is always
rejected behaves as the one dated ahead does before its time, so the classes
`Foreign` and `Implausible` are empty in this instance (the proofs cover them).
*DeviceAuth*: two tokens are an old and a new one, two workers and the loop are
three claimants for the connection. *Coverage*: the rows of different events do
not influence each other (a row is the union over its events), so one event
shows each row's history; the clock starts with one window behind it, passes a
local midnight and goes far enough for an hour to leave the window, lose its
event to retention and be asked for again; half an hour ahead is the later half of
the current hour as well as the next hour. *DayTimeline*: the arithmetic of an hour is in slots, so an hour
cut in two has all there is to a boundary; three hours hold two runs with an
observed hour between them, or one run with an absent hour inside it; two events are a pair of readings to
average, or one before and one after a tool's read; four transactions are one
whole cycle of the app's maintenance, its retention included. *DatabaseFile*: two migrations, so that a version is
neither the first nor the last; two events, so that one can be undone and the
other not; two faults, so that a failure follows a restart. *Coordinator*: two
devices, so that one of the list can be left out or change while the other is
asked for; a batch each, which may come before, between or after the reads;
three faults, so that a death between rows and `touch_device`, a refused
timeline and a failed refresh may meet.
*Publication*: two
devices, so that an error for the first leaves the second behind; three
entities, so that a post has a part before and after it; two faults, so that a
lost post may be followed by an error in the cycle that would repair it.
*Paging*: six
rows are up to six pages, with a last page that is full, partial or empty; two
changes insert or delete up to six rows at once. `MaxReturned` is more than two
changes let a row be returned.
*RateLimiter*: six requests over five moments fill the window twice and leave
two to be refused.

Counters bounded by the model, not the code: `MaxBatches`, `MaxFaults`,
`MaxTime`, `MaxEvents`, `MaxRequests`,
`MaxDay`, `MaxVersion`, `MaxChanges`, `MaxUpdates`, `MaxToolWrites`, `NRows`, and the
slots an event may lie in (`Times`). `MaxAttempts` is the collector's own
limit. `Done` in Ingestion, Paging, DayTimeline and DatabaseFile, `LimiterDone` in
RateLimiter and `Resting` in Coordinator mark the end of the bounded run so that deadlock stays
checked in every run.

Fairness. Ingestion: the uploader keeps trying, the endpoint takes up what
reaches it and a started handler runs on, since nothing in it waits; faults,
time and retention are never forced. DeviceAuth: each thread keeps running and
no statement waits for another thread (a BEGIN that finds the connection busy
raises), so weak fairness per thread. Coverage: weak fairness for the later
steps of a computation and for retention; strong fairness for `StartCycle`, since
asyncio serves ready callbacks in turn and other requests, however many, cannot
keep a woken task from running. Publication: weak fairness of the loop as a
whole (`Cycle`): the sleep ends and each post is answered, fails or runs into
the client's timeout of 15 seconds; failures themselves are never forced.
Paging: weak fairness of `Query`, a client that goes on reading (`ReadingEnds` is true
because the changes are bounded: against insertions without end no reading by
offset ends). DatabaseFile:
weak fairness of each process's steps (it is restarted, runs on, and gets the
write lock when it is free) and of the app's ingestion; syncs, faults and
timeouts of the lock are never forced. Coordinator: weak fairness of `Refresh`
(timers fire, Home Assistant tries a failed setup again, a request is answered,
refused or times out after 30 seconds). That the phone sends an unanswered
batch again is not assumed there.

Each property is accompanied by a mutant, a plausible bug in a definition that
models the code (the definitions commented "Mutant:", named in `PROJECT.json`),
under which TLC finds that property violated in the same run.

## 4. The proofs

`IngestionProofs` proves, for every set of events of every kind and every bound:
`TypeCorrect`, `Invariance`, `NothingIsLost`, `StoredVerdictsOwnRows`,
`AcceptanceSurvives`, `HeartbeatsProjected`, `RowsKeepTheirBatch`,
`CountsAccount` (the property `VerdictsAddUp`) and `Refinement` (Ingestion
implements EventStore). None of the safety properties is
inductive alone. `IndInv` adds what the handler knows between its transactions:
`HandlerInv` (what it calls stored and duplicate is held, since retention cannot
run in between; a stored heartbeat is projected or still to be projected),
`BatchInv` (a request carries what was sent under its batch id, so a replay lists
the same copies), `LoopInv` (which of the copies seen so far are to be stored,
rejected or both, and that one not rejected is acceptable and stays so, because
time only moves it away from the future), `VerdictInv` (an acceptance without a
rejection rests on acceptable copies only; hence no later receipt of the batch
rejects one of them and overwrites it) and `PromiseInv` (what the phone confirmed
was promised, what was promised is held or was retired). `CountsAccount` rests on
an invariant of its own, `TallyInv`: at every turn of the loop the copies to be
stored, the rejections and the repeats add up to the copies seen. The refinement maps the
tables to the store and each step to one step of it or to a stutter.

`AuthProofs` proves about both parts of `auth.py`. About DeviceAuth, for every
number of threads and tokens: `TypeCorrect`, `Invariance`, `Exclusion`,
`Durability`, `Matches`, `Access`.
`IndInv` here adds `WorkerInv` (a worker only verifies tokens that were
disclosed) and `LoopInv` (the place of the loop in its operation against the
committed and the uncommitted rows). The heart is that only the loop changes
token rows: outside the loop's own COMMIT nothing about tokens is uncommitted,
so a worker's commit or rollback saves or undoes nothing of a token, and a
token a verification matches in uncommitted rows is either committed already or
not yet known to anybody who could present it.

About RateLimiter, for every number of threads, any limit and any window:
`LimiterInvariance`, `LimiterTypeCorrect`, `WithinLimit` (`UnracedWithinLimit`) and
`Refusals` (`RefusalsJustified`). `LimiterInv` says of every list, stored or in
hand, that it holds only requests that were answered (`ListsInv`); that no moment
lies ahead of the clock (`MomentsInv`); and that, while no calls
have overlapped, the stored list has every answered request that a later window
can reach (`UnracedInv`), so that a decision counts the whole window that ends
with it. Any other window's last admitted request had its own decision, which
counted all of that window's admissions before it. A refusal needs only
`ListsInv`: whatever updates were lost, a list never has a request that was not
made, so Limit entries and the request itself are more than Limit requests of one
window.

`CoverageProofs` proves, for every set of sources, every window, retention and
hour length: `TypeCorrect`, `Invariance`, `NoInvention`,
`FeaturesFollowCoverage`, `ComputationsFaithful` (the property
`RecomputedHoursFaithful`), `DaysFaithful` and `RollUpsFindHours`
(the property `RollUpFindsHours`). `IndInv` adds
`JobInv` (between its transactions a computation finds the rows and the features
as it wrote them, since no other request runs in between, and a cycle's window
ends now) and `AgeInv` (deleted events are past the retention age).
`ComputationsFaithful` and `DaysFaithful` are about every computation, for any
retention: an event past the retention age may be missing from rows computed after
it was deleted, which happens to timelines of old days and, since the
configuration allows `retention_days: 1` against 48 hours, to cycles; an event
dated beyond the window's end is not in it yet; every other event is.
`DailyFaithful` also covers the stored hours outside the window just computed: they
may be out of date, but count nothing that was not there. `RollUpsFindHours` has premises
about days: a day has an hour at the least, its 24 hours too, midnights are an
hour apart, and the recomputation window reaches back to the last of yesterday's
24 hours. The default of 48 hours (`config.py:68`) does, on days of any length
there is; the instance of the run satisfies them all.

`PublicationProofs` proves, for every number of devices and entities and every
bound on midnights, changes and faults: `TypeCorrect`, `Invariance`,
`PassesNotTorn` and `PublishedAfterComputed`. `IndInv` adds `Covered` (the
devices the loop has gone through, later those it still has to publish, have a
day rolled up no later than yesterday: this is where the second reading of the
devices matters, which must not find one enrolled since the first) and `PostInv`
(the states in hand may be shown, and without failures the entities before the
one in progress show them). Rolled-up days stay and the clock does not go
back, hence what may be shown once may be shown later.

`DatabaseFileProofs` proves, for every set of tools and events, every number of
migrations and every bound on faults: `TypeCorrect`, `Invariance`, `VerdictRows`,
`SchemaOrder` and `AcceptedSurvive`. All three properties are about every prefix
a power failure may leave, so they are stated of the order of the log and the
heart of the proof is that a prefix of a log that has them has them. `IndInv`
adds `SingleInv` (a request has one event), `VersionInv` (every version up to
the one `migrate` holds as current is in the log, so that what is due beyond it
cannot leave one out), `PlaceInv` (the app writes only after its last
migration) and `HandlingInv` (the row is committed before the verdict and the
answer). A transaction that commits appends one entry and needs only what its
process knows; that the lock excludes the other process is not needed for
safety, because an INSERT is refused by what is in the log.

`CoordinatorProofs` proves, for every number of devices and every bound on
batches and faults: `TypeCorrect`, `Invariance`, `SyncBacked` and
`LastRefreshShown`. `IndInv` says of the refresh in progress what the two
properties say of the data: what was listed was stored by then, and is at least
what was there when the refresh began. The argument is that the app writes
the rows before `last_seen_utc`, that the coordinator reads them in the
opposite order, and that nothing it reads ever goes back.

`PagingProofs` proves, for any number of rows, any page size and any number of
changes: `Invariance`, `TypeCorrect`, `MissedForDeletions`, `RepeatInvariance` and
`RepeatedForInsertions`. `MissedByDeletionsOnly` is
inductive together with the types (`IndInv`); the work is in counting rows by
their places in the order. A stretch of n places holds at most n rows, and n if
the table reaches beyond it, hence a next offset stays inside the table and a
page leaves none of its rows out. An insertion moves no row forward, so that no
row slips behind the offset by it; the deletion of the first k rows moves the
others k forward, and at most k of them slip behind the offset.
`RepeatedByInsertionsOnly` counts what was returned again as pairs of a row and a
number of its return (`Repeats`), so that it is the size of a set and not a sum.
It is not inductive: `RepeatInv` adds the rows already returned that lie ahead of
the offset (`Ahead`). A page turns those among its rows into repeats; n inserted
rows push at most n returned ones ahead, and nothing else does.

`DayTimelineProofs` proves, for any events, days, windows, readings, length of the
hour and number of the app's writes between a tool's reads, every safety property
of the run:

- `BlocksAreBorneOut` (`BlocksBorneOut`), from `Invariance`. The invariant is
  indexed by the statements a timeline has left: `OrderInv` says which they can be
  (the rows may be computed once more, but only for the summary and the gaps, when
  the blocks are complete), and `BlocksInv` what is `Backed` by raw events at each:
  the rows of the whole hours once they are computed, then the features, then what
  was read of either. A raw event is added, and goes only into `retired`, so the
  count that is read last and what retention has deleted meanwhile cover them
  (`Borne`). It says nothing of the values: a block may well be older than its
  count.
- `TypeCorrect` (`TypeOK`) and `GapsAreMaximal` (`GapsAreMaximalRuns`), from
  `GapsInvariance`: a request that lists gaps ends with them. The rest is about the
  pass of `find_gaps` alone: `ScanInv` says that before each hour the run in
  progress is the longest stretch of missing rows that ends there, and the gaps are
  the maximal runs that ended earlier (`EndedBefore`).
- `AddsUp` (`DayAddsUp`), from `DayInvariance`: since the app does nothing else until
  it has answered, each statement finds what those before it left (`RowsCurrent`,
  `FeaturesCurrent`, `DailyCurrent`, `SummaryCurrent`). What remains is arithmetic: a
  sum whose terms count the parts of a set is its size (`CountedByParts`: the
  events by their hours, the missing hours by themselves, and the missing rows by
  the maximal run around them, of which there is one and only one, `RunAround` and
  `RunsMeet`); a mean lies between its terms (`MeanIsBetween`), and the mean of the
  hours' means between the readings (`LevelOfHour`, `LevelOfDay`). Its premise is that
  there are fewer than 12000 events: one charging sample among 12000 others of its
  hour is 0.005 minutes, which the code rounds to none (`MinutesShown`).

Sums (`SumFunction`) and the pass of `find_gaps` are recursive. The library's
induction over the natural numbers takes a predicate as a parameter; the proofs
state it of a set instead (`Induction`, from the least element of a set, `Least`),
and unfold one step of the recursion (`SumOfFirst`, `ScanSteps`).

Assumptions are those named `...Assumption` in the modules: sets of kinds are
sets of events and finite, bounds are naturals, the loop is not a worker, the app
is not a tool, a day starts inside the modelled hours and 24 hours are whole hours.

Every safety property of a passing run is stated by a theorem. Only
model-checked are the liveness properties (`EventsSettle`, `CallsFinish`,
`DerivedDataCatchUp`, `PublishedConverges`, `ReadingEnds`, `AppSettles`,
`EntitiesRecover`), since the prover does not handle fairness, and the three
violations, which are about single behaviours.

## 5. What is left out

- The contents of events, single-field validation, formatting and logging.
- The limit of 200 000 rows of the queries `compute_coverage`, `compute_hourly_features`
  and the timeline's counts make (`coverage.py:61`, `features.py:261`,
  `timeline.py:92`): every window is assumed to hold fewer events. A longer one, of
  up to 31 days, is cut silently, and nothing is claimed about it.
- Rounding, except that of minutes; the features of a form already modelled, the provenance and the
  quality flags other than `partial`.
- Several devices in Ingestion, DeviceAuth and Coverage: tokens and rows of two
  devices share only the connection. Publication and Coordinator have several.
- Two device ids that differ only in `-`, `_`, `.`, `:` or case share their
  entities (`home_assistant.py:105`); Publication gives each device its own.
- Power loss outside DatabaseFile: `Crash` of the other modules is the death of
  the process only.
- The single checks of `config_flow.py`, and a rejected admin token, which is one
  more refused request: the integration has no step of its own for it.
- `config.py`, `config.yaml`: read once at the start; their values are the
  constants.
- Sub-second timestamps, whose text order differs from their time order.
- The parts marked "not modelled" in section 1: service scripts (they start and
  restart the process, which the modules have as actions), schemas, the test
  harness and the CI scripts, which drive the app from outside and keep no state
  of it.

## 6. Where the code and its documents disagree

- **A heartbeat can miss its projection** (`ingestion_heartbeat_loss`).
  `app/ingestion.py:128` says heartbeats are "additionally projected into their
  own table". After a failure behind `store_events` the retry finds a duplicate
  and projects nothing, while the acknowledgement accepts the event.
- **The hour at the window's start is damaged** (`coverage_boundary`).
  `app/features.py:105` makes an hour missing "when the window contains no
  events at all". The maintenance window starts inside an hour; that hour's
  row and features are replaced, cycle after cycle, from an ever shorter tail,
  and keep what the last such cycle saw: an hour that had events ends as
  missing when its last minutes had none.
- **Hours without a row** (`coverage_absent`). `docs/data-model.md` says "Every
  hour gets a row, including empty ones"; a stop of the app longer than the
  window leaves hours without one, and `find_gaps` runs a gap across them.

Met while modelling, each without a run of its own:

- When one batch lists two copies of an event and one of them is rejected, the
  acknowledgement lists the id as accepted and as rejected, and the verdict table
  keeps the rejection alone (`ingestion.py:151`, `database.py:461`): what
  `stored_acknowledgement` rebuilds (`acknowledgements.py:60`) then differs from
  what was sent. `AcceptanceStands` and `VerdictsAddUp` say what remains true.
- `docs/security.md` gives 120 requests per minute; two worker threads that read
  the list before either stores it count as one. `UnracedWithinLimit` has the
  premise that no calls overlapped for this reason.
- `app/home_assistant.py:91` says "the most recent complete local day the server
  has features for"; the code takes yesterday by the clock. When midnight passes
  between a cycle's roll-up and the building of a device's states, its entities
  turn `unknown` until the next cycle; `ComputedBeforePublished` says no more
  than that what is shown as computed was.
- `app/mcp_tools.py:4` says "Every function here is a read", and the server
  describes itself as without "mutation of any kind". `get_day_timeline`,
  `get_data_coverage` and `find_data_gaps` write derived rows, in the stdio
  server from another process; raw events are indeed never touched.
- Two processes that start at once on one new file: the version is read outside
  the transaction, and the loser's INSERT fails and ends its start. The schema
  is right all the same (`SchemaOnceInOrder`) and the restart succeeds
  (`AppSettles`).
- A power failure can undo an acknowledged event (`synchronous=NORMAL`);
  `AcceptedSurvivesCrashes` excepts exactly the events it undid.
- The roll-up takes 24 hours from midnight on every day: the last hour of a
  longer day is left out, and a shorter day takes in the first of the next.
  Where midnight lies inside a UTC hour the blocks' first hour holds only a
  part of what was counted elsewhere. `DayAddsUp` says what remains true.
- `data_complete` is true over a window with hours without rows, which are
  neither missing nor observed.
- `docs/data-model.md` says that "None" means "not measured" and zero "measured"; charging,
  Wi-Fi and location minutes are 0.0 in an hour without such samples.
- The integration's entities named for "today" show yesterday, and it creates
  entities only when the entry is set up: a device enrolled later has none until
  a reload.

## 7. What could follow

- Abstract specifications of more components and their refinement: what a cycle
  promises of a day, whatever statements it is made of, and one read-only view of
  the rows for the paged readers.
- Overlapping requests of several devices in Ingestion, once an endpoint awaits
  between its transactions; today none does.

Recursion is kept out of the modules proved about: folds and recursive
functions only.
