# Verification of the KOVIRX botnet-detection platform

The platform watches computers for the traffic of botnets. An **endpoint agent**
(`src/endpoint-agent`) captures packets, groups them into flows, scores them and uploads telemetry;
a **backend** (`src/backend`, `src/database`) stores it, keeps a registry of devices, raises alerts
and pushes commands back to the agents; a **dashboard** (`src/frontend`) shows alerts to analysts.
This directory holds TLA+ models of the parts of it that are hard to test, the TLC runs that check
them on small instances, and TLAPS proofs about them for every instance.

Contents: [inventory](#inventory) · [modules](#modules) · [runs](#runs) ·
[where the code disagrees with its documentation](#where-the-code-disagrees-with-its-documentation) ·
[fairness](#fairness) · [proofs](#proofs) · [limits of the models](#limits-of-the-models) ·
[plan](#plan)

## Inventory

### The endpoint agent

One process with a main thread, a sniffer thread, one thread per scheduled task and a WebSocket
thread.

| Component | State it keeps | Operations | What is hard | What makes it correct |
|---|---|---|---|---|
| Telemetry queue (`services/queue.py`) | one SQLite table, its AUTOINCREMENT counter, the capacity | enqueue with eviction, dequeue (a read), remove, clear, reopen at a restart | capacity that shrinks at a restart; eviction order differs from delivery order; ids held by readers while rows change | capacity restored by an insert; urgent rows kept; ids never reused |
| Telemetry upload (`main.py:_flush_queue`, `client/api_client.py`) | the locals of a flush per thread, the token | flush from the scheduler and from `stop()`, one post per row, one login per process | two flushes at once, lost answers, crash between commit and DELETE, failed DELETE, token expiry | nothing accepted is lost silently; every duplicate has a cause; deliverable rows are delivered |
| Capture, flow tracking, shutdown (`capture/`, `main.py:stop`) | sniffer thread and stop event, the flow table, flows in the hands of each thread | capture, flush of expired flows, flush of all flows, `restart_capture`, shutdown | joins that time out; a restart during a shutdown; two threads taking flows | one sniffer; no packet vanishes or is reported twice; a clean stop reports everything; a stop ends |
| Command dispatch, firewall, IOC cache (`main.py:_handle_ws_command`, `services/firewall.py`, `services/threat_intel.py`) | set of blocked addresses, operating-system rules, IOC table | block, unblock, push and sync of indicators, lookup | two rules per block, either of which may fail or time out; rules outlive the process; seeds at every start | the set of blocked addresses agrees with the rules; a reputation stands until the next push or feed |
| Risk and behavior (`services/risk_engine.py`, `behavior/`, `ml/`) | rolling windows per destination and domain | features, classification, analysis, score | windows of processing times, cut at 50; eight ladders of thresholds that must fit together | a regular contact is found; threats become alerts; ratings of one flow agree |
| Identity (`config.py`, `main.py:start`, `services/retry.py`) | the uuid file, the id of the run, the token | login under a retry policy, registration, uploads under the id of the run that queued them | a registration whose answer is lost or late; a file that cannot be written; batches that outlive the run | a start does not lock its account; a host has few rows; an adopted id has its row |
| Heartbeat, health, updater, compression, encryption, logging | little or none | readings, conversions | – | – |

### The backend

One asyncio process; a coroutine runs alone from one `await` to the next, and each request has a
database transaction of its own.

| Component | State it keeps | Operations | What is hard | What makes it correct |
|---|---|---|---|---|
| Device registry (`services/telemetry_service.py`, `services/device_service.py`, `api/v1/traffic.py`, `api/heartbeat`, `repositories/device.py`) | the table of devices | ingest telemetry or traffic, heartbeat with a sweep, register, update, delete | requests overlap on one row and write only what differs from what they loaded; alerts are broadcast before the commit | a deletion is final; a verdict takes effect; announced alerts are stored; no deadlock; silent devices go offline |
| Agent command channel (`api/agent_ws`, `main.py:/ws/agent`, agent `client/websocket_client.py`) | dict of connections by id | connect, disconnect, send to one, broadcast | handlers that end late, sends that await on a connection read before, iteration over a dict that changes | what is filed is served; only a rival unfiles a living agent; a broadcast that neither raises nor sees the dict rebuilt under it misses nobody; the dead are forgotten |
| Dashboard channel (`websocket/manager.py`, `api/v1/traffic.py`) | list of connections | connect, disconnect, broadcast, two ingestions that broadcast | a list iterated across awaits while connections leave and other broadcasts run | nobody gets a message twice; a dashboard that stays connected misses it for nothing but a connection removed ahead of it in the list |
| Accounts (`services/auth_service.py`, `core/security.py`) | accounts, failure counters, locks, password history | login, lock, unlock, change and reset of passwords, administration, start-up | read-modify-write of counters across awaits; a rehash that writes a password back | lockout after five failures; the recorded password is in force |
| Sessions (`services/auth_service.py`, `api/v1/auth.py`) | refresh tokens | login, refresh with rotation and detection of a second use, logout, revocation | overlapping refreshes, revocations that write what they loaded | one live token per login; what is revoked stays revoked |
| Detection models (`services/feature_service.py`, `src/ml/engine.py`, `src/ml/models`) | models loaded or not | features of a batch, two models, alerts | confidences that cannot reach, or cannot miss, a threshold | alerts say something about the batch |
| Reports (`services/report_service.py`, a Celery worker) | rows with a status, tasks in a broker | generate, compile, download | a row committed before its task is queued; failure marked in a failed transaction; a task delivered twice, or to a worker that does not know it | a report that is pending and not on its way has a cause |
| Server-side risk and behavior (`api/risk_engine`, `api/behavior`) | rows | score with history, network and device analysis | two windows over the same rows | findings are not lost to more flows |
| Response orchestrator (`response_engine/orchestrator.py`) | – | evaluate and respond | several commands in order, each may be lost; nothing calls it at this commit | what it orders reaches the firewall |
| Alerts and overview (`services/alert_service.py`, `services/dashboard_service.py`) | rows of alerts; a summary in Redis | decide, assign, count | requests that overlap; counts an await apart | a decision stands, an accuracy is a share |
| Rate limiter (`utils/rate_limit.py`) | a token bucket per address, in memory | admit or refuse, refill with the time | refills after refusals, restarts | a bound on what is admitted, from any moment on |
| Predictions, indicators; queries; schema; migrations | rows | single-row updates, reads | – | – |

### The dashboard

| Component | State it keeps | Operations | What is hard | What makes it correct |
|---|---|---|---|---|
| Session of a browser (`App.jsx`, `services/api.js`, `AppLayout.jsx`) | tokens in localStorage | sign-in, calls, live stream, logout | calls and the stream refresh with one token, unsynchronised; answers lost or abandoned by a reload | a browser that is signed in can go on |

The legacy agent (`src/agent`), the AI engine library (`src/ai-engine`), the training code in `src/ml`,
the pages of the dashboard, scripts and container files complete the repository.

### How they interact

Agent to backend: `POST /telemetry/ingest` from the upload, `POST /heartbeat`, `POST
/devices/register` and `/auth/login` at the start. Backend to agent: JSON commands on the WebSocket
the agent opens. Inside the agent, the sniffer calls `FlowEngine.process_packet`, the task
`flow_flush` hands flows through scoring to the queue, the task `queue_flush` uploads it, and
`stop()` does both once more on the main thread. Inside the backend, an ingestion updates the
registry and calls the dashboard channel in its open transaction.

The browser signs in and refreshes against the sessions, and hears of ingestions on `/ws/live`.
A report goes from the request through the Redis broker to a Celery worker and, from one that knows the
task, back into its row.

`PROJECT.json` lists every component with its status and, under `hazards`, each of the places the
last two columns are about, at its line.

## Modules

| Module | What it models |
|---|---|
| `TelemetryQueue` | `services/queue.py`: one action per operation, each one transaction under the lock. `Row` drops the payload and `created_at`, which the code never reads. Victims and dequeued rows are sets defined by the two ORDER BY clauses. |
| `AtLeastOnce` | The abstract specification of a store-and-forward uploader with bounded storage. |
| `TelemetryDelivery` | Extends the queue: `_flush_queue` in the threads `queue_flush` and `main` (`Flush`, then per row one of `Deliver`, `Reject`, `Fail`, `GiveUp`, then `Remove` or `RemoveFails`), `start`, `stop`, `Crash`, and the backend that may commit a post long after the agent gave up on it (`LateCommit`). Refines `AtLeastOnce`. |
| `AgentCapture` | Sniffer, `flow_flush`, WebSocket and main thread. A flow is the set of its packets; every `join` may time out; the phases of `stop()` are the values of `main`. |
| `DeviceRegistry` | The row of each device and the requests under way. A request loads (`IngestLook`, `TrafficLook`, `HeartbeatLook`, `UpdateLook`), later writes the attributes that differ from what it loaded, holds the row until its commit, and may be aborted by the database. Traffic for a device that has no row is stored, too; its alerts look for the row again (`AlertsUnknown`, `ScoreLook`). |
| `AgentChannel` | The agents' connections, the dict of `AgentWebSocketManager` with insertion order, holes and the table that is rebuilt when it is full, one `send_to_device` and one `broadcast_to_agents` at a time, split at each `await`. |
| `AuthAccounts` | Accounts with counter, lock, password and history. A request loads (`Begin...`), computes, and its commit writes the columns it changed; two logins may read one counter. Start-up rewrites the administrator. |
| `AuthSessions` | Refresh tokens in the order of their commits; login, rotation, revocation of one or all, and the revocation that a second use of a token sets off, each split where the code awaits. |
| `DashboardSession` | Extends `AuthSessions` by one browser: the stored token, what each call or stream waits for, and the answers that the steps of the backend bring. |
| `Detectors`, `RiskScoring` | Pure: features, the analyzer's signals and the backend's queries; every classifier, risk formula and ladder of thresholds, in percents, with the rounding of the code. |
| `FlowAssessment` | The pipeline over them: a batch completes, each flow is assessed against indicators, a model and the windows, the payload is ingested. A trained model is an arbitrary answer per flow. |
| `AgentDefence` | Commands from the orchestrator or an operator, the agent's thread that carries them out, the rules of Windows, Linux, macOS or another system one command at a time, the blocked set, and the IOC cache. |
| `LiveFeed` | Ingestions that compute the features of a batch, ask the models and broadcast; the list of connections, its iterators, and dashboards that come and go. |
| `ReportJobs` | The row of a report, the steps of the request, the broker, and workers that read the row, compile, store and mark, or discard a task they do not know (`known` is any set of workers, and empty as deployed). |
| `AlertDesk` | The status of alerts under overlapping requests, which write what differs from what they loaded, and the two counts behind the accuracy on the overview. |
| `RateLimit` | The buckets in front of the API, one request a step, a clock in seconds, restarts, and an observer that begins to count at any time. A token counts `Window` units, so that a second refills a whole number. |
| `AgentIdentity` | What each host is at from start to end, its uuid file, the requests the backend has yet to handle, the rows, and under which ids batches were queued. |
| `TelemetryDeliveryProofs`, `AgentCaptureProofs`, `DeviceRegistryProofs` (with `AgentIdentity`), `AgentChannelProofs`, `FlowAssessmentProofs`, `AgentDefenceProofs`, `SessionProofs` (`AuthSessions`, `DashboardSession`), `BackendProofs` (`AuthAccounts`, `ReportJobs`, `AlertDesk`, `RateLimit`, `LiveFeed`) | The theorems. |
| `MC...` | Instances for TLC: model values and small sets. `MCServices` checks `LiveFeed`, `ReportJobs`, `AlertDesk`, `RateLimit` and `AgentIdentity` in one run, one of them moving: they share no state. |

Definitions named `Mutant...` are deliberate faults next to the definition they stand in for (a
forgotten reset, an off-by-one, a dropped condition). No specification uses them; putting one in the
place of its neighbour makes a property fail, which shows that the property depends on the code.

`PROJECT.json`, under `map`, gives the lines of the source each definition stands for.

## Runs

`tlc -config X.cfg M`, with two workers, takes from seconds to about three minutes each.

| Run | Module, configuration | Bounds | Shows | States |
|---|---|---|---|---|
| `delivery` | `MCTelemetryDelivery` | 3 batches, capacities 1 and 2, 2 faults, 1 stop | no silent loss, ids that stay valid, a cause for every copy, eviction of the least urgent, refinement of `AtLeastOnce` | 2,290,745 |
| `delivery_live` | `...Live.cfg` | one batch always rejected, 1 fault, 1 stop | the other batch is delivered | 18,240 |
| `schema_mismatch` | `...Schema.cfg` | one batch | a violation, see the next section | |
| `capture` | `MCAgentCapture` | 3 packets of 2 flows, 3 sniffers, 2 restarts | no packet lost or doubled, a clean stop reports all, liveness | 56,350 |
| `registry` | `MCDeviceRegistry` | 1 device, 2 requests, verdicts 0 and 95 of telemetry, none or 95 and then 60 of traffic, 1 abort | finality of deletion, who is stored for, verdicts, termination of requests, the sweep | 551,679 |
| `channel` | `MCAgentChannel` | 3 agents and ids, 3 connections, a table rebuilt with room for two more than it holds | registry and broadcast | 337,561 |
| `accounts` | `MCAuthAccounts` | 1 account, the administrator's; 2 requests, 2 passwords, lock after 2 failures, history of 1 | counter, lock, recorded password, the end of a lock | 199,625 |
| `sessions` | `MCAuthSessions` | 2 accounts, 2 requests, 3 tokens | live tokens and revocation | 279,829 |
| `dashboard` | `MCDashboardSession` | 1 call, 1 stream, 1 other client, 3 tokens | the session of a browser goes on | 5,538,892 |
| `scoring` | `MCFlowAssessment` | 5 batches of 6 kinds of flows, 4 flows, indicators scored 1 and 2, windows of 3, thresholds of 2 and 3 in place of 2 to 15 | what is blocked, ratings, alerts, findings | 390,121 |
| `defence` | `MCAgentDefence` | 4 operating systems, 1 address, 2 indicators, 2 equal rules, 1 command under way | rules and blocked set | 895,050 |
| `services` | `MCServices` | 3 dashboards, 2 ingestions, 6 batches; 2 reports, 2 workers of which none, one or both know the task, 2 copies of a task; 2 alerts, 2 requests, 1 summary; 2 addresses, buckets of 2 in 3 seconds, 4 seconds, 1 restart; 1 host, 2 starts, 2 attempts | broadcasts, what the forest flags, where reports are, decisions, accuracy, admissions, starts | 1,271,825 |

Why the bounds are enough to be interesting. Capacity 1 forces an eviction while the other thread
holds a snapshot of the evicted row; a third batch gives an eviction a choice; one fault before and
one after a restart make a copy each; a third packet of another flow lets the sniffer add to the
table between the two flushes; two requests are what a race needs, and a second abort would only
repeat the first; three connections give a broadcast an entry behind it, one in hand and one ahead,
with one leaving while another arrives. Three tokens are a login, its refresh, and what forks off or
a second login. One call and one stream are the two kinds of refresh in a browser; a second call adds
nothing to what the first does to the stored token, and makes the run too long. Two failed logins
that overlap reach a limit of two as five reach five. The analyzer's windows hold three times where
the code keeps 50 and asks for 5: the shortest that have two gaps. Two equal rules let a repeated
block leave one behind. The batches of `services` are a flood, a beacon, a scan, browsing, lookups
and nothing, so that one, two or several features are large, with the flags of agents and of the API. Two alerts
are one that a summary has counted and one that it misses. Four seconds are more than a window, so a
bucket empties, refills and is cut at its top. Two starts give an answer to the first that comes in
the second, and hosts share nothing but the numbering of ids, which the theorem covers.

CPython's dict has five places for up to two entries and ten for up to five; `MCRoom` has two more than
there are entries, so that three connections are enough to rebuild it under a broadcast. A score of 2
stands for every indicator above 1, which the agent stores unchecked.

`CHECK_DEADLOCK FALSE` is set where the bounds on connections, tokens, faults or commands let a
behaviour run out of steps, or where the system is meant to stop. In the theorems below a bound is
any number, and so are the agents, rows, requests and sizes; a bound stays a constant of its module
(`MaxConn` connections opened in all, `MaxFaults` faults), which the theorems leave arbitrary.

## Where the code disagrees with its documentation

One is a run TLC finds violated:

- `schema_mismatch`: `_flush_queue` will "upload telemetry batches to backend" (`main.py:459`), but
  the events lack `collected_at` and `features_used`, which the schema requires: every batch of this
  agent is answered 422. `Conforming` is a constant of `TelemetryDelivery` for this reason: the other
  runs ask how the delivery behaves once agent and schema agree, this one takes the keys of both.

Others are definitions that the models show false at once, kept with their comments: the queue
"Provides offline caching when the backend is unreachable" (`queue.py:6`, `CachedIsUploaded`), but an
agent whose login failed never logs in again; `stop()` is to "Flush remaining flows" (`main.py:193`,
`RemainingFlowsFlushed`), but a restart of the capture in its one-second sleep starts a sniffer after
it; "Restart packet capture" (`websocket_client.py:26`, `RestartResumesCapture`), but after a join
that times out the old thread stops the new capture; a heartbeat "Updates device last_seen_at and
system metrics" (`heartbeat/routes.py:37`, `QuarantineHolds`), and also ends a quarantine; commands
"can be sent to individual agents" (`agent_ws/handler.py:25`, `ConnectedIsReachable`), but the late
end of an old connection unregisters the new one; "Broadcast a command to all connected agents"
(`agent_ws/handler.py:67`, `NobodyIsMissed`), but the loop raises an error when an agent comes or goes
meanwhile, and skips one when the dict is rebuilt under it; "Send a JSON message to all connected
clients" (`websocket/manager.py:47`, `AllAreSentTo`), but a dashboard behind a connection that is
removed from the list meanwhile misses the message; "Celery worker executing background report jobs"
(the repository's `README.md:95`, `JobsAreExecuted`), but the worker of `docker-compose.yml:67` loads `celery_app.py`
alone, whose `autodiscover_tasks(["backend.services"])` (line 27) looks for a module
`backend.services.tasks` that does not exist, and `services/__init__.py` imports nothing: the worker
does not know `compile_report_task`, discards its messages, and every report stays pending.

The rest are told here only.

*Queue, upload, agent.* `queue.py:29` says the oldest items are evicted, the code evicts the least
urgent first. `stop()` uploads one batch of the remaining queue. The `break` that is to end a flush
after a failed post (`main.py:488`) is never reached. No code decodes the gzip bodies the agent
sends. `_process_flows` ignores the result of `enqueue`. The agent's WebSocket URL has no
`device_id`, so agents of one account share one entry of the registry. The IOC sync asks for
`/threats/ioc/feed`, which the backend does not serve, and always returns 0. The retry policy wraps the
login (`main.py:231`), which answers every error with False and so is never retried; the
registration after it is not retried at all, and since a start names itself by no key of the backend's,
each start adds a row of the device (theorem `FrugalStarts` bounds them).

*Limiter.* `config.py:48` says "per window"; a bucket that was full when a window begins lets twice
the setting pass in it (`AdmissionsAreBounded` states what holds).

*Scores.* `main.py:417` says "Auto-block if critical": critical begins at 85, the block at 95, and the
agent rates without a history and so at most 90 (theorem `AgentRiskIsBounded`). What reaches the block is
an indicator scored above 1 (theorem `BlocksTheOverrated`): `add_ioc` and the sync store any score. `telemetry_service.py:107` says "High or Critical",
the threshold includes medium. The analyzer's pattern names are not the keys `BehaviorScorer` looks
up. The exfiltration query names columns that do not exist, and reports nothing.

*Models.* `isolation_forest.py:54` says raw scores go from -0.7 (normal) to -0.2 (anomaly); lower
scores are the abnormal ones, and since all are negative the confidence is never under 0.5: with the
model file in place every batch raises an alert ("BENIGN detected by isolation_forest"). Without it,
the z-scores compare features of different units, and one alone decides (`OneFeatureDecides`). The
endpoint agent writes flags as letters, `feature_service` looks for names, so its flows never count
as failed connections. `traffic.py:60` says pipeline errors "should not block ingestion"; after an
error of the database the transaction is aborted, the flows are lost and are announced all the same.

*Devices and alerts.* `POST /traffic/ingest` stores flows and alerts under any device id: of a deleted
device, whose row it touches and scores as if it were there (`update_last_seen` and
`update_risk_score` do not look at `is_deleted`), and of one that was never registered. Telemetry for
a deleted device is answered 500 instead, by the primary key. `heartbeat/service.py:25` imports a package that does not exist: no heartbeat
record is stored. Alerts are broadcast before the commit that stores them; only an abort takes one
back (theorem `AnnouncedAlertsStored`).

*Overview.* A decision committed between the two counts of a summary is in the second alone: the
accuracy can be above 100 percent, for the ten seconds Redis keeps it. An assignment of an alert that
was new when it was loaded undoes a decision taken since.

*Accounts.* The database keeps a refresh token 30 days, the JWT lasts 7. The docstring of logout says
"current session", the code ends all. A reset of the password skips the history. Every start sets the
administrator's password back.

*Browser.* `AppLayout.jsx` issues two calls at once on mount, and the stream refreshes whenever it
closes: an expired access token leads to two refreshes with one token, which the backend takes for
theft and ends all sessions. A refresh in flight at a logout stores its tokens afterwards. A layout
that was unmounted keeps reconnecting. A retried request that fails for any reason logs out. Logout
does not tell the backend. `Reports.jsx` reads `list.reports` and `AppLayout.jsx` `dev.devices`, of
answers that are lists.

*Defence.* The orchestrator's docstring says ">95", the code `>=`; its `terminate_connection` and
`quarantine` are unknown to the agent and recorded as executed; the audit record is never written,
for its import fails. An unblock that times out after its work leaves an address that can neither be
unblocked nor blocked until a restart. Nothing calls `evaluate_and_respond`,
`PatternDetector.analyze_flows`, `get_suspicious_sessions`, `cleanup_old`, `BehaviorScorer`,
`EnsembleThreatClassifier` or the hybrid detector's `predict`.

*Reports.* A second `asyncio.run` in a worker process uses a connection pool bound to a loop that is
closed. The types the page offers ("summary", "incidents", "devices") all become the daily one.

## Fairness

- `TelemetryDelivery`: weak fairness of a flush, of each post's outcome (every post has a timeout),
  of the DELETE and of the exit. Nothing makes the environment start or stop the agent, fail, renew
  a token, or commit an abandoned post.
- `AgentCapture`: weak fairness of every thread that can go on, per thread; for the flow table, of the
  expiry of each flow. Packets, commands and signals need not come.
- `DeviceRegistry`: strong fairness of each request's next step. Coroutines are scheduled in turn and
  PostgreSQL grants a row lock in the order of waiting, so a step that is enabled again and again
  (the lock is free again and again) is taken. Heartbeats need not come; `SilentGoesOffline` assumes
  them openly, because the sweep runs only in their wake.
- `AgentChannel`: weak fairness of the handler of each connection (accepting it, and noticing that
  its client is gone: the server's pings see to that). Clients need not connect or break, and sends
  need not be made.

- `AuthAccounts`: weak fairness of each request's commit and of the passing of time for a lock;
  strong fairness of the step that clears a lapsed lock, and of login attempts. `LockEnds` assumes the
  attempts openly: nothing but a login clears a lock.

The other modules state safety only and need no fairness: what they leave open is what the
environment, the broker or a user may never do.

## Proofs

Everything below is proved for all values of the constants under the assumption named in each module
(`QueueAssumption`, `DeliveryAssumption`, `CaptureAssumption`, `RegistryAssumption`,
`ChannelAssumption`, `AuthAssumption`, `SessionsAssumption`, `DashboardAssumption`,
`DetectorsAssumption`, `AssessmentAssumption`, `DefenceAssumption`, `FeedAssumption`, `DeskAssumption`,
`LimitAssumption`, `IdentityAssumption`), by an inductive invariant `Inv` with `Init => Inv` and
`Inv /\ [Next]_vars => Inv'`. TLC evaluates the assumptions on the instances.

**Delivery** (`TelemetryDeliveryProofs`). `NoSilentLoss` is not inductive: that a row removed by its
id is the row that was posted needs that snapshots are stale at worst (`SnapshotsAreRows`: an id of a
snapshot that is still in the table names the same row) and that what was ticked off is stored
(`TickedOff`). Both rest on ids never being reused, `IdsIdentifyRows`. `Refinement` then shows that
each step is a step of `AtLeastOnce` or a stutter: `Produce` accepts, `Deliver` and `LateCommit`
receive, `Remove` releases. `CopiesHaveCauses` rests on `CopiesInv`, which counts what the copies are
due to: of a batch still in the table, to the threads about to tick it off, the faults and the stops;
of one that left it, to the first copy, the faults and the stops, threads that still hold it counted
with the copies. `EvictionsAreRight` says what an insert makes of a table
over any capacity. Theorems: `TypeCorrect`, `NoLoss`, `RemovalIsSound`, `Refinement`,
`CopiesHaveCauses`, `EvictionsAreRight`.

**Capture** (`AgentCaptureProofs`). `OnePlace` says that a packet is in exactly one of the places
between the wire and the queue; `StagesEnd` says what each phase of `stop()` has ended, as long as no
join timed out. Theorems: `TypeCorrect`, `SnifferIsUnique`, `PacketsAccountedFor`, `NoDoubleReport`,
`CleanStop`.

**Registry and identity** (`DeviceRegistryProofs`). The invariant says that one transaction at most
holds a row (`OneWriter`) and what each request knows of its row (`JobInv`): one that loaded a status
found the device there for good, one that registers is the first to, telemetry that began after a
deletion loaded nothing. Theorems: `TypeCorrect`, `IngestsForLiving`, `AnnouncedAlertsStored`,
`DeletionIsFinal`, `VerdictIsTaken`; the last two are action properties. For `AgentIdentity`
(`FrugalStarts`) a login pays for one registration and a uuid for one id: the ids of a host in the
table and the registrations on their way are together no more than the logins granted and the uuids
drawn. Counting only the rows is not inductive, because a late registration adds one at any time.

**Channel** (`AgentChannelProofs`). A broadcast looks at places of the dict, and the property is about
connections. `DueInv` connects them: a connection filed all along that the broadcast has not dealt
with is in hand, or its id has a place ahead. It survives entries that come (appended), go (holes) or
change hands (then the connection is no longer due), and a table that is rebuilt, as long as no hole
was among the places passed: the entries up to there then keep their places (`StaysAhead`). Theorems: `TypeCorrect`, `RegistryIsServed`,
`OnlyRivals`, `BroadcastIsComplete`. They hold for agents that share an id, too, for any room a
rebuilt table may have and for any `MaxConn`.

**Sessions and browser** (`SessionProofs`). What a request found must still mean something when it
writes. `KnowsInv` says what a handler in flight knows: a token revoked before it began is not found,
and when it revokes, whatever its user had when it looked is in its hand or revoked by now. From that
follows that a login has one live token as long as no two refreshes of it overlapped (which the model
records), and that a token revoked before a request began buys nothing. `DashboardSession` changes the
stored tokens only by steps of `AuthSessions` (`DashboardRefinesSessions`), so that all of this holds
under its browser; `BrowserInv` adds that a token is in one place at a time and that, while nothing can
have ended the session, one renewal at most is under way, with a live token that nobody else holds. Theorems: `SessionTypes`,
`SessionsDoNotMultiply`, `RevocationIsFinal`, `NothingIsUnrevoked`, `DashboardRefinesSessions`,
`SessionsGoOn`.

**Accounts, reports, desk, limiter** (`BackendProofs`). *Accounts*: a commit writes what a request
computed from the row it loaded, so the invariants of counter, lock and password say what a request
still knows: its reading is the row's, or another wrote since and the exception that the property
names is on record. *Reports*: a task that was neither hindered, redelivered nor discarded is in one place, and its
report undecided until it has run; it is published after the row is committed; where no worker knows the
task, none begins one. *Desk*: for each summary, what
was decided between its two counts. *Limiter*: `Budget` says that the tokens an address has spent
since one began to count and those left in its bucket are at most a full bucket for each boot and the
refill; the bound on admissions alone is not inductive. Theorems: `CountersAreExact`,
`PasswordsAreRecorded`, `LocksHold`, `NoReportIsLost`, `AccuracyIsBounded`, `DecisionsStand`,
`AdmissionsAreBounded`.

**Live feed** (`BackendProofs`). A broadcast keeps a place in a list from which others remove entries.
`WithoutShifts` says what a removal does to a place: the entries behind it that go are as many as the
entries ahead of it that slip behind it, at most. So the dashboards that a broadcast owes its message
and has neither dealt with nor ahead of it are at most as many as `cut` counts, whatever connects,
leaves, or fails in another broadcast. `Without` is a recursive function: that it exists, and what it
keeps of the first *k* entries, is shown by the smallest number for which it fails.

Which batches the forest flags is arithmetic. A loaded forest's scores are below zero, so that its
confidence is at least a half. Without its file the threshold is a z-score of 2.5 among eight numbers
(`StandsOut`): let *D* be eight times the distance from the mean of the feature that passes it, and
measure all eight, 56-fold, from the mean of the other seven. Their squares add up to 392 times the
spread (64 variances, at most 0.16 *D*² by the threshold) and 8 *D*². The feature is at 8 *D*, and so
each of the others is within 2.6 *D*: less than 5.2 *D* from one another, more than 5.4 *D* from the
feature (`FartherThan`, in integers).

The rest is that the eight features are numbers for every batch (`FeaturesAreNumbers`): a sum over a
finite set is taken one element after another in any order (`AddsAnyOrder`, by the smallest subset for
which it fails), a gap between flows is the smallest of some natural numbers, and no divisor is zero,
although a client may send counts and durations below zero. `OneFeatureDecides` is then inductive with
`FeedInv`: the verdict of an ingestion is kept, or forgotten, while broadcasts go on. Theorems:
`BroadcastsSkipForACause`, `OneFeatureStandsOut`.

**Assessment** (`FlowAssessmentProofs`). The agent's formula adds four scores with weights of which
the history's is never given: at most 90, whatever a model or the analyzer say, for an indicator
within its range of 0 to 1. The model takes any integer percentage for a score, and what is blocked had
one above 1. The backend's formula with any history is at most eleven points above the one
without, and one severity at most. `PipelineInv` says that every event under way is rated by that
formula from a flow, an answer and signals in their ranges. From it follow, for all flows and
models, that the ratings fit together (`RatingsStayClose`; with the backend and the legacy agent, which
know scores from 0 to 1 alone, for those), and with `AlertInv`, which counts the
serious alerts, the serious events under way and those of the payload in the making against
`threats`, that threats become alerts (`ThreatsAreTold`). `HistoryInv` says that the analyzer's window
is the newest part of all contacts; equal gaps then have no variance, and the confidence is full
(`RegularContactIsFound`). `FindingsAreKept` is monotony: more rows, more ports, targets and logins.
Sums over data are reached by the smallest subset, and gaps by the smallest number, for which a claim
fails (`SmallestSet`, `SmallestNumber`): the induction theorems of the library take an operator, this
takes a set. Theorems: `BlocksTheOverrated`, `AgentRiskIsBounded`, `HistoryMovesOneSeverity`,
`RatingsStayClose`, `ThreatsAreTold`, `RegularContactIsFound`, `FindingsAreKept`.

The proof of `RatingsStayClose` corrected the model. It was to say that the legacy agent's severity,
too, is within one of the agent's, which the instance, with an indicator of score 100 alone, confirmed.
The proof left one case open: an anomaly, a periodic callback and an indicator of score 12 are 60 to
the agent, high, and 20 to the legacy agent, low. TLC finds it with that indicator. What holds is
stated now.

**Defence** (`AgentDefenceProofs`). The properties hold between operations; within one, the invariant
must say which rules are there already. `Held` is the set of directions the agent counts on: all for
an address it remembers, less what the unblock under way has deleted, or what the block under way
has added. What is held is in the system, and an address that no fault touched has no rule beyond.
Theorems: `TypeCorrect`, `Enforced`, `Opened`, `Reputations`.

`SnifferIsUnique`, `Reputations` and the theorems on types and refinement state definitions that no
run lists, or that follow for TLC from others; the rest state a property of a run.

Only model-checked: the liveness properties (`DeliveredWhileAuthorised`, `CapturedIsReported`,
`ShutdownEnds`, `RequestsEnd`, `SilentGoesOffline`, `GoneIsForgotten`, `LockEnds`), which are out of the
prover's reach. Every invariant and every action property of the runs, and every refinement, is a
theorem.

## Limits of the models

- A failed SQLite call of the queue is a stuttering step, except the DELETE, whose failure has
  consequences.
- `AgentCapture` does not say what a flow record contains, and `flush_immediate`, which nothing calls,
  is left out. The queue behind it is one outcome, success or failure.
- `DeviceRegistry` has status, risk, freshness and the deletion flag of a row. Other attributes are
  written under the same rule. `fresh` is time against the 90 seconds of the sweep. A traffic request
  whose models fail is one without their alerts; a database error among them, which is passed over
  there, ends the transaction all the same and is an `Abort`. There is one row in the run, so a
  deadlock over several rows is out of its reach; no request but the sweep holds two.
- `AgentChannel` has one send and one broadcast at a time. A send to a connection whose client is
  gone may succeed (the bytes are in a buffer) or fail; one to an open connection does not fail.
- `AuthAccounts` and `AuthSessions` drop requests that are refused: they change nothing. Tokens past
  their time are refused and so not represented; the browser's access token is, by calls that may be
  answered 401 at any time.
- `DashboardSession` has one browser; its tabs share the stored token and so are calls and streams.
  `disturbed` names what may end a session there; the claim is about everything else.
- `Detectors` and `RiskScoring` count in percents and tenths; scores that are not finite are left out; sums that end between two integers take
  either. The server's windows are any suffix of the stored rows.
- `LiveFeed` keeps no alerts: the commit behind them is in `DeviceRegistry`. Each send is one await,
  and one to an open connection does not fail. Averages are rounded down to tenths.
- `AlertDesk` leaves out to whom an alert is assigned, requests that fail, and summaries shown from
  Redis. The page's requests are the inputs; one for the status "new" is not among them.
- `ReportJobs` makes the write and the commit of a row one step, since the row is locked between
  them. The broker is external: what it may do is taken from Celery's defaults, which the code keeps.

- `RateLimit` leaves out the three paths and the sockets that pass without a bucket. The code's floats
  are fractions of a second; a second is the step of the clock here, and tokens are exact.
- `AgentIdentity` commits the row of a device before the answer leaves: since FastAPI 0.106 the session
  dependency ends before the response is sent, and the repository pins a later one. The token of a run
  stays valid for the run, and soft deletion is `DeviceRegistry`'s.

Not modelled: the **legacy agent**, whose `main.py` imports packages that are not below it and cannot
start (its risk formula is); the table of indicators, the log, the other queries and pages, which are
reads and single-row updates; migrations, training and scripts.

## Plan

Done, in this order: queue, delivery with its abstract specification, capture and shutdown, registry,
channel, accounts, sessions, ratings and assessment, defence, the browser's session, the live feed,
reports and alerts, limiter and identity; and a proof of every invariant, action property and
refinement the runs check. No module that is proved about uses a RECURSIVE operator.

What would come next is breadth: the rules of the hybrid detector in the AI engine library, which are
numeric, and the audit of responses once its import names a package that exists.
