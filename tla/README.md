# FieldPilot AI: a TLA+ development

FieldPilot watches a construction site through cameras, turns detections into
events, events into alerts, and alerts into warnings people hear. This
directory holds TLA+ models of the parts where order, time, failure and
concurrency decide whether a warning reaches somebody, the TLC runs that check
them on small instances, and TLAPS proofs of the main results for every value
of the constants. `PROJECT.json` lists components, runs, mutants, the map from
definitions to source lines, findings, hazards and theorems. Paths below are
relative to `src/fieldpilot/` unless they say otherwise.

## 1. The system

    edge (display/server.py, core/pipeline.py, safety/*)
      |  HazardEvent -> Event (events/bridge.py)
      +--> bus (events/bus.py) ------------------------------------+
      +--> outbox (offline/outbox.py) --POST /events--> app.py ----+--> bus
                                                                     |
    backend, one asyncio loop:  orchestrator (backend/service.py) <--+
        save_event -> triggers.process -> LLM gate -> push -> rules -> notice
        |             |                   |           |       |
        bus_events    cache, alerts table verifier    hub     RFIs, notifications
    managers: REST routes of app.py -> triggers.resolve / suppress / unsuppress

| Component | State | Operations | Interaction | What is hard | What makes it correct |
|---|---|---|---|---|---|
| Trigger engine (`triggers/engine.py`) | one tracked alert per dedup key, with state, hits, severity, times | `process`, `resolve`, `suppress`, `unsuppress`, `set_verdict`, sweeper | writes through to the alerts table, publishes `alerts.*` | sliding dedup window, sweeper against detections, expiry, restart, a sink that raises | one alert per issue; table, cache and followers agree; stale issues close, live ones do not; a mute lasts |
| Trigger cache (`triggers/cache.py`) | value and expiry per key | `get`, `set`, `scan` | in memory, or Redis shared by replicas | expiry; with Redis, lost updates | an entry is served until it expires |
| Orchestrator (`backend/service.py`) | tasks of `handle_event` | steps 1 to 6 | calls every service below | tasks suspend in the verifier and the drafter and go on with a stale copy of the alert | no handled alert ends in silence; verdict, row and push agree |
| LLM verifier (`llm/verifier.py`) | model found or not, vision | `verify` | HTTP to Ollama | lookup and fallback shared by concurrent tasks | it may only silence what it is allowed to |
| Store-and-forward (`offline/*`) | outbox rows, passes, requests | `submit`, `flush_once`, loop, `/offline/flush` | POST /events | lost requests and replies, overlapping passes, crashes of both sides | nothing lost, in order, drains |
| Event bus (`events/bus.py`) | bounded queue, handler tasks | `publish`, dispatch | everything on the backend | full queue drops; a task per message reorders | what was accepted arrives |
| Backend API (`backend/app.py`) | none of its own | routes, lifespan | engine by dedup key, table by alert id | id and key may name different alerts | a request does what it answers |
| Notifications (`notifications/service.py`) | dedup marks, rows | `notify` | cache, bus, senders | mark before delivery, sliding window, retries | a person is told once, and told |
| Broadcast hub (`broadcast/hub.py`) | connected clients | `connect`, `publish`, `_deliver` | bus, WebSockets | disconnects during delivery, frames out of order | an alert about a worker reaches that worker and nobody else |
| Edge server (`display/server.py`, `feeds.py`) | feeds, frame mailboxes | `/ws/video`, controls | phones, pipeline | a reconnect overlaps the old socket | a streaming worker is on the manager's list |
| Capture (`core/video_source.py`) | queue, thread, stop flag | reader, `frames` | thread against loop | blocking sentinel, drop-oldest | newest frames, and an end |
| Workforce (`workforce/*`) | occupancies, questions, messages | `enter`, `leave`, `ask`, `reply`, `mark_read` | document store, model | interleaved scans on Postgres; the model's late answer | a worker is in one zone; a manager's reply stays; everybody is answered |
| Feedback, captures and learning (`feedback`, `learning`) | reviews and who claimed them, runs, frames, exports | `start_run`, gate, `release`, `export` | files, training thread | crash during a run or an export | a claimed review is used or given back; an export that looks whole is whole |
| Models registry (`models_registry/registry.py`) | files | `ensure_weights` | threads of two requests | one `.part` file for both | a good checkpoint is never replaced by a bad one |
| Detectors (`safety/*`, `inspection/*`) | cooldowns, samples, machines per worker and hazard | per-frame `update` | pipeline | flicker of tracks, interrupted frames | whoever is in danger is told, once per cooldown |
| Edge events (`core/pipeline.py`, `alerts/dispatcher.py`) | the hazards of a frame on their way | log, bridge or dispatcher, live page | outbox, bus | one of the steps fails | nothing detected gets lost |
| Zones, rules, settings (`zones`, `rules`, `backend/settings.py`) | cache in front of a table | CRUD, `evaluate` | edge, orchestrator | cache updated after an await | cache follows table; a rule fires when it is due |
| Document store (`storage/docstore.py`) | rows of columns and payload | `put`, `patch`, `delete` | all services above | patch is a read and a write | records read back as written |
| Auth (`auth/service.py`) | users, sessions | login, logout, password, disable, delete | routes | key derivations suspend with a row read before | only live sessions pass, and what was ended stays ended |
| Papers (`backend/service.py`, `reasoning/rfi.py`) | RFIs, inspections | draft, file, decide | dashboards | overtaking decisions, failing drafter | everything asked for is filed |
| Assistant (`assistant/service.py`) | one model lock | `respond` | index, model | queue for the model, its failure | everybody is answered |
| Worker's camera (`src/worker_app/lib/core/camera_stream.dart`) | `_streaming`, `_starting`, `_wantOn`, socket | `start`, `stop`, pause, resume | tab, session, app life cycle; `/ws/video` | `start` is suspended while everything else goes on | the worker's STOP holds; one socket, none when off |
| Live feed clients (`src/frontend/src/lib/useLiveFeed.ts`, `src/worker_app/lib/core/live_feed.dart`) | socket, timers | connect, reconnect, ping | hub | late callbacks of a replaced socket | one live socket, and always another try |

## 2. What is modelled

### TriggerEngine, AlertBoard

`TriggerEngine.tla` is `triggers/engine.py` with the in-memory cache, the alerts
table and the messages it publishes.

| Model | Code |
|---|---|
| `cache`, `expires` | `InMemoryTriggerCache._data`; `Cached(k)` is `get` with its expiry test |
| `store` | rows of `alerts`, by `alert_id` (`upsert_alert`) |
| `told` | the state in the last `alerts.new/updated/resolved` message about an alert |
| `nextId` | `uuid4`: ids are fresh |
| `nextSweep` | the sleep of `_sweep_loop` |
| `Process` | `process`; its five disjuncts are the five outcomes |
| `Resolve`, `Suppress`, `Unsuppress`, `SetVerdict` | the methods; `Evict` is any of them meeting an expired entry |
| `Save` | `_save` and `_emit`: cache, then sink, then bus |
| `SweepOnce` | `sweep_once`: every due alert in turn; a raising sink leaves the loop in the middle |
| `detected`, `woken`, `crashes` | history, for properties and bounds |

With the default backends no `await` inside an engine operation suspends the
task, so each operation is one step; time, crashes, the sweeper and other
operations come between them. Every expired entry met by an operation counts as
absent. Left out: confidence (a maximum, exactly like severity),
`suppressed_at`, texts, images.

`AlertBoard.tla` is the promise: each issue is untracked, open, closed or
muted, followers hear of each change with the change, an issue is raised only
when it is not up already, and a muted one comes back only by being unmuted or
after it was closed. `ImplementsBoard` is the refinement.

### AlertsApi

The four operator routes of `backend/app.py` over the engine. A route names a
row; `_mutate` passes the row's dedup key to the engine. `reply` is the answer
just given with 200. After a restart, or once the cache entry has expired, the engine
tracks nothing or a newer alert under that key: the route then answers 200 and the
row it names stays as it is (finding 1). What still holds, and is checked and
proved, is that a request changes no row but the tracked one.

### Orchestrator

`Orchestrator.tla` extends `TriggerEngine` by `handle_event`. A task is its
program counter, the id, key and severity *as process() returned them*, and
whether the verifier attached an image; `said` is what people were told.

| Model | Code |
|---|---|
| `HandleEvent` | `_on_event_raw` and `handle_event` to the first suspension |
| `Lookup`, `Fallback` | `_resolve_model`; `available`, `model`, `vision` are the verifier's attributes |
| `Consults` | the end of `_resolve_model`: with what model and vision are *then*, the request goes out (`pc = "ask"`) or `verify` returns a confirmation (`"waived"`) |
| `Confirm`, `Dispute`, `Reject` | the three ways step 4 goes on once `verify` returned, with vision and severity ceiling as `_may_suppress` finds them by then |
| `TellPeople`, `Finish`, `Drafts` | steps 5 and 6: push and rules; a firing `generate_rfi` suspends in the drafter |
| `Drafted` | `_draft_rfi` returned or raised, the RFI is filed |
| `NotifyRejected`, `quiet` | `_notify_rejected` and the dedup mark of its notice |
| `since`, `Clockwork` | when `verify` was called; the client's timeouts end it within `VerifyTimeout` |
| `Manager` | the routes of AlertsApi, on any key |
| `GateCrash` | tasks, cache and marks die; the verifier is new |

Whether a request goes out is decided before it does, so a fallback of another task
that turns vision off meanwhile leaves requests with an image in flight: their
rejections are then disputed. `"waived"` is a point of interleaving the code does not
have, which only adds behaviours. The baseline notice that follows the push is left
out (`Notifications` has `notify`). Rules' conditions are left open: any subset may
fire.
`available = "off"` is a backend without a verifier. A raising sink is excluded
here (`ReliableSink`).

### StoreAndForward, InOrderDelivery

`StoreAndForward.tla` follows an event from `submit` to the trigger engine:
outbox row, flush pass, request, 202, bus queue, dispatch, event log.

| Model | Code |
|---|---|
| `outbox` | `event_outbox.status` |
| `batch`, `flight` | the rows a `flush_once` still has to send, and its request |
| `Flushers` | the loop, and each concurrent call of POST /offline/flush |
| `queue`, `Offer` | `InMemoryEventBus._queue`, `put_nowait` that drops when full (`shed`) |
| `Ingest` | `ingest_event`: both topics, then 202 |
| `Dispatch` | `_dispatch_loop` and `save_event`, which may raise: `_safe` logs it and the event is gone (`unsaved`) |
| `Failed` | timeout, lost request, lost reply, backend down; `break` |

`accepted`, `shed` and `unsaved` are history. Left out: attempts, `last_error`,
backoff (a pass may start at any time), reconciled timestamps, `purge_sent`,
and a backend that refuses an event for good. `InOrderDelivery.tla` is the
promise: events arrive first in the order they were recorded, none skipped.

### PhoneLink, CameraStreamer, WorkerFeeds

A worker's phone and the edge server at the two ends of `/ws/video`.
`PhoneLink.tla` is the boundary: sockets that are opened, carry numbered frames,
are closed or lose their connection. `CameraStreamer.tla` takes exactly these
steps from inside the phone, `WorkerFeeds.tla` is the server with *any* such
phones at the other end, two phones of one worker included; the two modules are
checked apart and meet in `PhoneLink`.

| Model | Code |
|---|---|
| `streaming`, `starting`, `wantOn`, `channel` | the fields of `CameraStreamer` |
| `Start`, `CameraOpens`, `CameraFails` | `start` to its first await, after the camera opened, its catch branch |
| `imaging`, `ImagesFlow`, `ImagesFail` | `start` suspended in `startImageStream`, which may throw when `_streaming` is already set |
| `Teardown` | `_teardown` as one step, although it awaits between clearing the controller, the subscription and the channel: the camera plugin answers calls in order, so it is through with the socket before a later `start` opens another |
| `TapStop`, `TapResume` | the tab's button, disabled while the camera starts |
| `SessionChanges`, `SignInBusy`, `SignOut` | `_syncCamera` on any notification of the session, `dispose` |
| `Pause`, `ResumeApp` | `didChangeAppLifecycleState` |
| `askedBy`, `sturdy` | history; and whether this phone's camera streams once it is open |
| `pc` | where `ws_video` is; `Serving` is between `feeds.open` and `feeds.close` |
| `slot`, `shut`, `Receive`, `ReaderEnds` | `LatestFrame` and `_read_frames` |
| `gate` | `browser_gate` around the detectors |
| `feed` | the worker's `WorkerFeed`, reduced to its newest frame; `NoFeed` when the registry has none |

A send on a closed socket may raise or not, depending on what the server has
noticed: `Replied` has both. Left out: pixels and detections, counters, zone and
name of a feed, viewers, `evict_stale` (nothing calls it), anonymous cameras.

### The services of the backend

`Tables.tla` has the operators of the document store (`Put`, `Patch`, `Delete`,
rows as columns and payload); the modules below keep their state in such
tables. Two backends differ in where a coroutine suspends: on SQLite a store call
returns without giving up the event loop, so a call of a service is not
interleaved (`...MayRun`), on PostgreSQL every statement is a step.

| Module | Code | State and actions |
|---|---|---|
| `DocStore` | `storage/docstore.py` | one table under several requests: `DocPut`, `DocPatchRead`, `DocPatchWrite`, `DocDelete`; `DocUpgrade` is a build that declares another column |
| `Accounts` | `auth/service.py` | users and sessions; `accTask` is a request inside a key derivation, which runs in a thread, with the row it read before; restarts purge sessions and may raise the cost |
| `Occupancy` | `workforce/occupancy.py` | `OccEnter`, `OccLeave` compute what to close, `OccCloseOne` is one patch, then the new row; the clock may be set back, a restart leaves the middle |
| `SiteRegistry` | `zones/service.py`, the rule routes of `backend/app.py` | `regTable` and `regLive`, table and memory; `RegStart`, `RegStore`, `RegRemember` are the three places of a request |
| `RuleFiring` | `rules/engine.py` | `evaluate` with its cooldown per rule and subject; which conditions hold is chosen freely |
| `SiteSettings` | `backend/settings.py`, `display/server.py` | a switch stored, cached and published in three steps, the last of which may fail; the listener of the Redis bus (`SetHear`) with the messages it remembers; lost messages; what camera and phones track; restarts of both sides |
| `Captures` | `learning/captures.py`, `learning/audit.py` | frame and image, then row; an export file by file, with a crash anywhere |
| `Learning` | `learning/service.py`, `feedback/service.py` | reviews recorded and claimed, runs with gate and release, crash in the middle |
| `Weights` | `models_registry/registry.py` | names point at files, as the file system has it: a thread keeps writing to what it opened |
| `Conversations` | `workforce/questions.py`, `messages.py` | the background answer with the question as read before; threads of messages and badges |
| `Notifications` | `notifications/service.py` | channels in their order, marks in either cache, retries; once in a behaviour the table or the bus raises, which ends the call with later channels untried and the mark set (`NotifBreaks`) |
| `Broadcast` | `broadcast/hub.py` | clients, the bus queue, a task per message and its sends, dead sockets |
| `Papers` | `backend/service.py`, the RFI and inspection routes | the rules' actions one by one: draft, row, push; managers' decisions between them |
| `Assistant` | `assistant/service.py` | which requests a rule answers, retrieval, the queue at the model's lock, fallbacks |

### The edge

| Module | Code | State and actions |
|---|---|---|
| `VideoSource` | `core/video_source.py`, `core/pipeline.py` | capture thread, bounded queue, sentinel, the consumer; an executor thread that a cancelled consumer leaves behind |
| `EdgeEvents` | `core/pipeline.py`, `display/server.py`, `alerts/dispatcher.py` | each hazard of a frame: event store, then where the configuration says (`evPath`): bus and outbox, the bus alone (no `storage.central_api`, the default), or the local dispatcher (no bus); each of them may fail |
| `Attention` | `safety/attention.py`, hazards of `core/pipeline.py` | the registry of active hazards and a machine for every worker and hazard; frames of one camera or of several phones |
| `Falls` | `safety/fall.py` | samples, cooldowns, forgetting; hidden keypoints leave no sample |
| `Proximity` | `safety/proximity.py` | cooldown per worker and kind; the first equipment in reach decides |
| `PpeRules` | `safety/ppe.py` | the checkpoint's classes, the manager's selection, explicit and inferred evidence, boxes centred in several workers |
| `Inspection` | `inspection/detector.py` | every n-th frame, mode switched in between, the overlay |

What a picture shows is an input of every detector: boxes, who is near what,
heights, gazes. Geometry and thresholds on pixels are not modelled.

`MCSite` and `MCTalk` put these modules, which share no variable, next to each
other: a behaviour exercises one of them, chosen at the start, because
interleaving components without a common state shows nothing more. The second
has those with a liveness property.

## 3. The runs

| Run | Question | Bounds, and why they are enough |
|---|---|---|
| `TriggerEngine_lifecycle` | Does the history of an alert survive any sequence of operations, with a table that fails at any moment, an entry that expires and a restart? `TypeOK`, `HistoryIsKept` (rows are monotone, last seen is the last event, what is announced has a row) | one key, two severities, 3 hits, 3 ticks with windows of 1: every state is left and re-entered, each with a failing and a working sink; the cache entry lives 2 ticks, and the process dies and comes back once |
| `AlertsApi_live` | Do cache, table, followers and the abstract board agree, do managers' requests reach only what is tracked, do mutes last and does the sweeper tell stale from live, across expiry, a crash and a second alert of the same key? `OpenIsFresh`, `EverybodyAgrees`, `RequestsKeepTheirWord`, `SuppressionSticks`, `SweepSparesLive`, `ImplementsBoard` | one key, TTL 2 of 3 ticks, one crash, two alerts: both ways to lose tracking happen, tracking starts again, and a request names the old row and the new; several keys are covered by the proofs |
| `Orchestrator_gate` | Can overlapping verifications, managers, sweeps, a lost vision model and a crash leave an alert in silence, make verdict, row and push disagree, or let a push wait for paperwork? `NobodyIsLeftUntold`, `GateIsHonest`, `WarningDoesNotWait` | two tasks on one issue, severities at the ceiling and above it, one crash, with and without a verifier: a second verification of the same alert needs a resolve and a reactivation in between, which fits; no entry expires here, which the proof covers |
| `StoreAndForward_outage` | Is anything marked sent that was not accepted, lost without a report, reordered or stuck? `OutboxIsHonest`, `LossesAreExplained`, `DeliversInOrder`, `OutboxDrains` | two events, two flushers, two losses, one crash of each side, a queue of four that repeated posts fill, a table that may refuse: the shortest overtaking needs two of each; the proofs cover any number |
| `WorkerFeeds_reconnect` | Do an old and a new socket of a worker share registry and detectors without ghosts, stale frames or starvation? `FeedIsServed`, `LatestFrameWins`, `FeedsKeepMoving` | two sockets, three frames: one computed, one waiting, one replacing it; the safety part is proved for any number |
| `Site_services` | Do the services that keep records and settings, the detectors, the edge's events and the phone's camera do what they promise, over interleavings, crashes, failing writes and odd clocks? One property for each, listed below | see below |
| `Site_talk` | Is everybody who asks, writes, is warned or waits served in the end, and correctly meanwhile? One property for each, listed below | see below |
| `AlertsApi_after_restart` | finding 1 | |
| `Orchestrator_stale_severity` | finding 2 | |
| `StoreAndForward_acked_then_lost` | finding 3 | |
| `CameraStreamer_restarts` | finding 4 | |
| `WorkerFeeds_overlap` | finding 5 | |

The two runs over the services check, for each component:

| Property | It says | Bounds, and why they are enough |
|---|---|---|
| `DocKeepsRecords` | on SQLite, records read back as if every call were one step; on either backend a row keeps its creation stamp | one key, two fields, two requests, upgrades of both fields: two patches overlap on different fields |
| `AccSessionsKeepTheirTerms` | what a logout, password change or disabling ended stays ended; a live session postdates the last change; no purge drops a live one | two accounts, two sessions, one tick, two requests in a derivation |
| `OccOnePlaceAtATime` | a worker is counted in one zone at most (SQLite), a lone call repairs what races left, no stay is negative | one worker, two zones, two rows, two requests |
| `RegFollowsTable` | memory follows the table (see the proofs) | two ids, two values, two requests, zones and rules |
| `RuleFiresWhenRested` | a rule fires for a subject when, and only when, it has rested for that subject | one rule, two subjects, twice the cooldown |
| `SetSwitchArrives` | on SQLite a switch survives a restart; the camera tracks what the dashboard shows unless the *newest* change overlapped another, failed, was lost or was dropped as a repetition | two switches, three changes, two requests, two messages, a memory of two: off, on, off of one switch, and a memory that forgets |
| `CapDatasetIsWhole` | an export with a manifest passes the audit but for leakage; every row has its image | two frames, one train and one val session |
| `WtsDownloadIsClean` | while requests come one by one, a good checkpoint stays in place and only what has the pinned digest is installed; nothing is left behind | two threads, two chunks, two files |
| `AttTellsTheUnaware` | who ignores a hazard is told and then escalated, once each; who noticed it is left alone | one phone, two workers, a subject; gaps of one and two on thresholds 1 to 4 |
| `FallRemembersTheSeen` | two reports of a worker who stays in the picture are a cooldown apart, of one who was away only the forget time; who is gone is forgotten | one worker, cooldown 5, forget time 2, 8 ticks |
| `ProxWarnsInMeasure`, `PpeTellsWhatIsMissing` | cooldowns neither starve nor storm, reports rest on evidence | one or two people, a cooldown of 2 in 3 ticks: told, muted and told again |
| `InsSeesAndShows` | the overlay is what was seen, no stride goes by unseen | five frames, every second looked at |
| `EvEveryHazardCounts` | with an outbox a bus that is down loses no hazard and ends no frame; with the bus alone only the frames its exceptions end are lost; local silence is as short as the cooldown | three hazards, two sources, two categories |
| `CameraObeys` | on a phone whose opened camera always streams, STOP holds until a tap or a change of the session; it has one socket, none when off | three sockets: a start may overtake a failing one and be overtaken itself |
| `ConvNobodyIsOverlooked` | a manager's reply outlives the model's late answer; every question ends answered or its process died; a badge is one side's of one thread | two questions, three messages in two threads |
| `NotifTellsOnceAndAll` | one notice per key, channel and window, every channel tried unless the call broke off | two callers, three channels, two attempts |
| `BcEachHearsItsOwn` | one voice per alert, nothing from other zones, the worker at risk hears it | two devices, two zones, queue of three |
| `LrnReviewsAreUsedOnce` | reviews are used by one completed run or are free again; every run ends | two reviews, two runs |
| `VidKeepsUp` | the newest frame is kept, dropped ones are counted, the end is noticed | four frames through a queue of two |
| `PapTrailIsKept` | every paper is filed, and on SQLite shown as filed | an RFI and an inspection, two managers |
| `AsEveryoneIsAnswered` | everybody is answered, whatever index and model do | two workers at one lock |

Deadlock is not checked: time, ids, hits, tasks and crashes are bounded, so
every instance ends (for the cameras, a bound on sockets and a worker who has
signed out for good). The constants named `Max...` or `...Max...`, and `Conns`,
`Tasks`, and the sets of ids a behaviour may draw, are the bounds; every other
constant is configuration.

**Fairness.** `TriggerEngine` and `AlertsApi` state safety only; the sweeper's
punctuality is a guard of `Tick` (the loop sleeps for the interval and a pass
takes no model time). `Orchestrator` assumes that a task inside `verify` goes on
(each HTTP call has a timeout, and a failing call confirms) and nothing of the
drafter. `StoreAndForward` assumes that the background loop wakes up (a timer),
that requests end (httpx timeout), that the dispatcher runs, and that crashed
processes are restarted; the network loses at most `MaxFailures` messages while
the backend is up. No fairness is assumed of POST /offline/flush. `WorkerFeeds`
assumes that the event loop runs each handler and reader that can go on
(`asyncio.Lock` is first come, first served, threads and detectors return, and
the WebSocket keep-alive notices a dead connection); phones owe nothing.
`MCTalk` has weak fairness of `Progress`: the event loop, the
threads and the capture device go on with whatever work is left; there is one
behaviour per component, callers are bounded, and everything that may fail may
fail each time. It includes that a call to a model or a channel ends (each has a
timeout), that a training thread returns, and that a capture device delivers,
fails or is stopped. `MCSite` and `CameraStreamer` state safety only.

**What the findings show.**

1. `_mutate` acts on the alert the engine tracks under the row's dedup key. After a
   restart (the cache is memory) or once the entry has expired, acknowledging an open
   row answers 200 and leaves it open, against the docstring of the route.
2. `_may_suppress` tests the severity the alert had before the verifier was
   asked. Merged occurrences can raise it meanwhile; the model's rejection then
   mutes an alert above the ceiling.
3. POST /events acknowledges what only the memory of the backend holds; a crash
   before `save_event` loses an event the edge has marked sent.
4. `_syncCamera` calls `start` whenever the session notifies, and `start` sets
   `_wantOn`: a worker who pressed STOP has the camera back on at the next
   check-in to a zone.
5. The handler of a phone's old socket closes the feed *by worker id* when it
   ends. If the new socket was opened before that, the worker streams without a
   feed: `publish` ignores every frame, and the manager's list misses the phone
   until it reconnects once more.

Further observations, met while modelling, which no run states as a property.

*Alerts.* A row that outlives its cache entry (restart, expiry) is never
auto-resolved. `service.py:104` says of `save_event` that "nothing is ever lost, even
if downstream fails": when it raises itself, `_safe` logs it and the event is gone
after a 202, as is one a full bus drops. When the process dies while an alert is being
verified, nobody is told of it; in memory the next detection opens a new alert, but
with a Redis bus the cache is Redis too (`app.py:268`) and keeps the entry, so that
later detections are merged into the alert nobody heard of. A replay after a lost reply is recognised by the event log,
not by the trigger engine, which counts or reactivates again. Since the dedup
window slides with each duplicate, an issue detected more often than once per
window stays NEW for ever, although `engine.py` describes NEW -> ACTIVE "while
the issue persists". The vision guard of `_may_suppress` tests the verifier's
`vision`, not whether this alert's image could be attached: with a vision model and a
missing image file the model is asked without a picture and may suppress, against
`service.py:72`, "No vision, no veto". A manager's
resolve during verification is overwritten by the model's suppress. A rule's
action that fails takes the event's later actions and the baseline notice along.
Reject feedback suppresses whatever alert holds the dedup key by then.

*Records on PostgreSQL.* Two patches of a record lose fields; a patch that
overlaps a delete brings the row back; a worker can be in two zones until the
next lone call; zones, rules and the settings can differ from their table until a
restart; two decisions on an RFI can leave dashboards with a state other than
the row's; two learning runs can claim the same reviews and overwrite
`_running`. On either backend a payload key promoted to a column reads NULL
until it is rewritten, and emptying a table of zones, rules or accounts brings the
defaults back at the next start.

*Accounts.* Two concurrent `create_user` calls can take one username. A login
in flight while the account is disabled and enabled again opens a session; a
login that verified the old password may open its session after a change; the
automatic upgrade of a hash may write the old password's hash over a new one.

*People.* A crash before the background task leaves a question unanswered for
ever. `mark_read` marks messages that were never fetched. A failed send leaves
the dedup mark, so does an exception of the table or the bus inside `_deliver`, after
which the later channels are not tried either, and a failing channel's pauses delay the later channels. A
revoked session's socket stays open. `delete_zone` drops checked-in workers from
the report. The words "sos" and "help me" inside other words count as an
emergency, and "spacing" calls the measuring tool before the specification.

*Learning and weights.* The gate compares with the base weights, not with the
promoted ones. A crash leaves a run running for ever, with its reviews claimed.
Concurrent downloads share a `.part` file, so the docstring's promise at
`registry.py:278` holds for one request at a time only. `_class_index` maps
"vest" to "NO-Safety Vest".

*Settings.* A switch reaches a running camera only over Redis, and not always, against
`settings.py:11` and `server.py:570`: an in-memory bus stays inside the backend; the
listener drops a message equal to one of the last 512 (`bus.py:187`), so that off, on,
off of one switch leaves it on at the edge until another change; a publish that fails
leaves the switch stored and shown but not applied.

*Edge.* Without `storage.central_api`, which `config.yaml` leaves null, there is no
outbox, and an exception of the bus ends the camera's pipeline (`server.py:555`);
without a bus there is no bridge, and nothing is queued for the central API although one
is configured, against the comment at `server.py:531` that every event is written to the
outbox. A worker out of the picture for three seconds has lost the fall cooldown of
eight (`fall.py:139`; `config.yaml:41` says "per-track suppression after a fall
alert"). With two phones, workers of one are judged against hazards in the
other's picture, and each frame of one drops the other's attention machines
(`safety/attention.py:5` speaks of one camera). One frame without a person or a
hazard restarts the escalation timer. A failing disk ends the camera's pipeline
or drops the rest of a phone's frame after cooldowns have started. The local
cooldown of ten seconds mutes an escalation. A first piece of equipment that
cools down hides a second one. Unmatched PPE boxes share one cooldown. A missing
helmet and missing gloves are one active hazard. Phones' pipelines never get
`control.settings`; an edge restart goes back to `config.yaml`. The capture
thread can stay parked in its last `put`. A worker who signs out while the
camera opens leaves a stream running under their name; and when
`startImageStream` fails, `_streaming` stays set without a socket behind it
(`CameraObeys` is stated for cameras that stream once open).

## 4. What is proved

Eight modules hold the theorems; each extends the modules it is about and nothing
is assumed there but the named assumptions on constants, which TLC evaluates in
the runs, and the hypotheses a theorem states. The theorems are about every value
of the constants: any number of workers, sockets, alerts, requests and times.

An invariant is seldom inductive as it stands. What each proof adds to it, and why,
is given with the theorem; the proofs have one lemma or step per action.

### The trigger engine

`TriggerEngineProofs.tla`, from the assumptions of `TriggerEngine` (windows are
positive, bounds are naturals, severities are naturals):

- `TypeCorrect`, `IdsDistinct`: invariants of the specification. Distinctness
  needs its strengthening that every cached id was handed out before.
- `WriteThrough`: cache and table agree. Inductive together with distinctness:
  a write for one key must not touch another key's row.
- `FollowersInformed`: what was told is the row's state. Needs write-through,
  because merging saves a row without telling: its state must be the one told.
- `AutoResolveTimely`: the invariant adds that the next sweep is at most one
  interval away and that an open alert that was due at the last pass is gone.
- `SweepsSpareTheLive`: no sweep closes what was detected within the window.
- `EngineImplementsBoard`, for a sink that does not raise: each action maps to a
  step of the board or to a stutter.
- `HistoryAlwaysKept`, also for a sink that raises. That rows are monotone is not
  inductive: a row may lag behind the cache by any number of failed writes. The
  invariant (`HistoryInv`) adds that the row of a tracked alert is that alert or
  an earlier version of it (`Grows`), that a row has an id that was handed out,
  so that a new alert never lands on one, and that no event lies in the future.
  Every operation saves a later version of what is tracked (`SavesLater`), and
  so does a sweep for each key it resolves.
- `EverybodyAlwaysAgrees` puts the invariants together as the runs check them.

### The operator routes and the orchestrator

Both run the engine's steps, so their proofs extend the engine's.

`AlertsApiProofs.tla`:

- `RoutesRefineEngine`: every step of a route is a step of the engine or leaves
  it alone, so that what is proved of the engine holds under the routes
  (`RoutesKeepSweeping` is stated for use).
- `SuppressionLasts`, for a table that takes every write (`~SinkMayFail`): with
  one that refuses them the row may miss the suppression, and the restart that
  follows forgets it.
- `RequestsAreKept`: a request changes no row but that of the alert tracked under its
  dedup key, and that one as it asks if it is the row it names. The only hypothesis is
  a table that takes every write; crashes, expired entries and second lives of a key
  are included. That the tracked alert and its row agree (`EverybodyAgrees`' invariant)
  is what makes the first part true: an early return must not hide a stale row.

`OrchestratorProofs.tla`, for a sink that does not raise:

- `NobodyLeftUntold`, for any number of tasks. The invariant `GateInv` adds that
  every row has a task that told people, still has to, or died with the alert tracked
  under no key any more (`RowsTold`: a sighting that only extends an alert relies on
  the task that opened it), that what is not tracked is never tracked again
  (`UntrackedStays`), and that a rejection which is deduplicated has been shown
  (`RejectionsShown`).
- `GateStaysHonest`: a verdict is applied to the alert tracked under the key *then*.
  `HonestInv` adds that this is the alert the task verifies (`TasksTrack`). That is
  where time matters: an entry lives for `CacheTTL` after each write and a
  verification ends within `VerifyTimeout`, which `VerifiedInTime` assumes not to be
  longer (seconds against hours in `config.yaml`). Entries may expire at any other
  moment. The second half, that a verifier whose vision is off suppresses nothing,
  speaks of the shared attribute and not of what this alert's model was shown.

### Store and forward

`StoreAndForwardProofs.tla`, from `ForwardAssumption`:

- `ForwardTypeCorrect`: also that the queue respects its capacity.
- `SentWereAccepted` and `DeliveryInOrder` rest on `PassInv`: rows are submitted
  in order; what is sent, or waits for its mark, was accepted; and a pass leaves
  out no older row that the backend has not accepted. The last conjunct is why
  overlapping passes cannot reorder: a pass starts with the oldest pending rows
  (`PendingIsOldest`, a fact about cardinalities of initial segments), and every
  row before them is sent, hence accepted. `DeliveryInOrder` is the refinement of
  `InOrderDelivery`; `OutboxAlwaysHonest` joins the invariants.
- `LossesAlwaysExplained`, for any finite number of passes: while the backend lives,
  accepted events are in the log or on the bus, or in one of the two losses the code
  reports (a full bus, an event table that raises), and the bus is only full when the
  recorded events, the passes and what was lost or cut off suffice to fill it. The latter
  is a counting argument: every post that reached the backend left a credit (a pair of
  a pass and an event), a failure or a crash of the edge behind (`Credits`, `Posts`), a
  post queues two messages at most, and therefore `BusInv`: the queue is never longer
  than twice the posts. A pass that forgot its marks would break it.

### The edge and the phones

`EdgeProofs.tla`, from the assumptions of the modules it extends (cooldowns and
times are naturals, strides and windows positive):

- `FeedsTypeCorrect`; `FeedsHaveSockets`: `NoGhostFeed` is inductive on top of
  the types. Only a refusal and a close take a socket out of `Serving`; the first
  was not in it, and the second takes the feed along. `FreshestFrameFirst`: only
  `Receive` and `Take` touch the slot, and no frame is 0. `FeedsAlwaysServed`.
- `CameraAlwaysObeys`: on a phone whose opened camera always streams (`sturdy`), what
  was stopped stays stopped until a tap or a change of the session (`askedBy`) starts
  it. `CameraInv` adds what
  `resumeFromBackground` reads, that a stop has cleared the wish to stream, and
  that a camera that streams once open is opened by one start at a time.
- `RulesFireWhenRested`: the history of firings cannot be compared with memory
  alone; the invariant adds that `_last_fired` is the latest firing of each pair.
- `WarnsInMeasure`: no entry of the cooldown map is later than the last report
  about its worker, and none lies in the future.
- `InspectionSeesAndShows`: the frames not looked at are at most the rest of the
  index by the stride (`InsInv`), which is what a toggle in between must keep.
- `EveryHazardAlwaysCounts`: `EvInv` adds that what is to be shown has gone where the
  configuration sends it (`EvStagesMean`) and that a dispatcher remembers of a category an alarm that it
  let through (`EvLastIsAdmitted`).
- `MissingIsAlwaysTold`: what the cooldown remembers is what the site was told
  (`PpeInv`), through changes of the tracked items.
- `FallsRememberTheSeen`: the cooldown holds for who stays in the picture only. A cooldown is that of the last report about its worker, and
  who was told of and has none is away for longer than the forget time
  (`FallLastMeans`).
- `TheUnawareAreTold`, for one phone (or the camera alone): `AttInv` relates each
  run of a worker in front of a hazard to its machine and to what was emitted.
  With two views it is false that a run has a machine: the machines of one are
  dropped by a frame of the other, as the comment of the module says.

### The services of the backend

`TablesProofs.tla` has what `Put`, `Patch` and `Delete` do to a table, that they
keep records records, that ids drawn in turn are new and that naturals have a
least one (from the library's well-founded minimum).

`ServicesProofs.tla`:

- `SessionsKeepTheirTerms`: what was ended stays revoked or is gone, since tokens
  are never drawn twice; sessions that are not revoked, expired or disabled ones
  too, are younger than their user's password; a session opened during a
  derivation postdates the change of password because the clock only grows; a
  purge takes only what has expired.
- `MemoryFollowsTable`: the invariant says what a request that is alone relies on
  between its steps (`RegRelies`: what it will tell memory is the table's entry; a
  deleted entry has left memory already) and that on SQLite memory and table differ
  at most in the entry a request is working on.
- `SwitchesArrive`: the newest change is in the request that works on it, on its way,
  or applied (`SetInv`), unless one of the four ways to lose it was taken; each message
  carries the whole dictionary, so one that arrives makes up for those before it.
- `DatasetsAreWhole`: a manifest means a complete export and nobody at work on it
  (`CapExportOK`), and a frame's row comes after its image, wherever it dies.
- `DownloadsAreClean`: a thread that works alone writes to the file `.part` names,
  which is not the installed one, and has verified it when it replaces
  (`WtsOneWorks`).
- `RecordsAreKept`: a patch on SQLite writes what it has just read
  (`DocPatchIsFresh`); an upsert keeps the creation stamp on either backend.
- `OnePlaceAtATime`: `OccAlone` says what a request that began alone will leave
  open: nothing, or the oldest row of its zone.

`TalkProofs.tla`; most properties of `Site_talk` have a safety and a liveness half,
and these are the safety halves of five:

- `FramesAreAccounted`: a frame the reader holds is the one after those it has
  queued, those taken and those dropped (`VidInv`); the end marker enters the
  queue only when the reader reads no more.
- `ToldOncePerWindow`: the mark of every note outlasts it by a window
  (`NotifMarksLast`), since marks are only ever set to a later time; and in memory
  a note is drawn in the step that finds no mark, so no call is in between.
- `HeardOnceAndInPlace`: whatever is on its way to a client, or was heard by it,
  suits one and the same record of the client (`BcSuits` in `BcInv`), the one it
  connected with, and that record wants one topic of an alert (`BcOneTopic`).
- `NobodyIsOverlooked`: an answered question has a manager's reply (`ConvSettled`),
  and what the model writes late names columns of its own only.
- `ReviewsAreNotLost`: on SQLite. `LrnInv` adds that a claim still to be stamped
  holds free rows only, that a release still to be made is all its run holds, so
  that none is left when the run ends as failed or blocked, and that whoever is in
  the middle of either is alone.

### Only model-checked

- Liveness, which the proof system does not handle with fairness: `OutboxDrains`,
  `WarningDoesNotWait`, `FeedsKeepMoving`, `AsEveryoneIsAnswered`, and the liveness
  halves of the other properties of `Site_talk`.
- `PapTrailIsKept`, also its half about dashboards: on SQLite row and push are one step
  and a proof would show no more than the run.
- The claims of documents and comments that the code does not keep: five runs show
  a behaviour that violates one each.

The other properties of the passing runs are each stated by a theorem, under the
hypotheses given with it.

## 5. Not modelled

- Geometry, thresholds on pixels, model inference, training: `perspective.py`,
  `compliance/calibration.py`, the boxes and keypoints behind the detectors.
  They are inputs of the models.
- Prompts, retrieval, embedding and ingestion (`reasoning`): pure functions
  around external models; their outcomes are inputs of `Papers`, `Assistant` and
  `Conversations`.
- Speech, sounds and vibration (`alerts`): device I/O behind the dispatcher.
- The Redis bus but for its part in `SiteSettings`, and the trigger engine over the Redis
  cache: each operation of the engine would be several round trips and two replicas would
  lose updates; no guarantee of the engine is claimed there. `Notifications` has the
  Redis cache.
- A backend that refuses an event for good: the pass stops at that row by design.
- Reports, listings, page layout, the reconnecting clients of the dashboards, and
  the data preparation scripts.

## 6. What could follow

The engine over the Redis cache with two replicas, against `AlertBoard`; the
reconnecting clients against `Broadcast`; the safety of conversations and learning
on PostgreSQL, where claims interleave, in the weaker form that holds there.
