# ITDN in TLA+

A TLA+ development of the Insider-Threat Detection Network: agents that report
USB and Bluetooth events, and the server that stores them, evaluates rules on
them and raises alerts. Every definition is translated from the Python source;
`PROJECT.json` maps each one to its lines. The source paths below are relative
to the root of the repository.

Tools: TLC for the runs (`tlc -config X.cfg MCModule.tla`), `tlapm` for the
modules `*_proofs.tla` and `DataLemmas.tla`.

## 1. The system

### Parts, state, operations

| Part | State | Operations | Talks to |
|---|---|---|---|
| USB, Bluetooth, ETW monitors (`agent/monitor/`) | last snapshot, or the system's queue of notifications; stop event | `start`, poll and compare or listen, `stop`; call `handle_event` | log, transport (callback, in the monitor's thread) |
| Agent log (`agent/logger.py`, `crypto.py`) | log file, `_prev_hash` | `write`, `_load_tail_hash`, `chain_head` | file system, anchor thread |
| Anchor scheduler (`agent/anchor_scheduler.py`) | thread, stop event | read head, POST it, repeat | log, server `/api/v1/anchor` |
| Retry queue (`agent/retry_queue.py`) | SQLite table `retry_queue` | `put`, `peek`, `commit`, `size`, `close` | transport |
| Event transport (`agent/transport.py`) | queue, stop event, thread | `enqueue`, `_loop`, `_flush`, `start`, `stop` | retry queue, server `/api/v1/events` |
| Agent life cycle (`agent/main.py`) | the above | start, signal, shutdown | service manager (`deploy/agent.service`) |
| Integrity check (`agent/integrity.py`, `server/routers/integrity.py`) | hash taken at start; `agent_integrity` | hash, check, register | server, administrator |
| Authentication, rate limiter (`server/auth.py`) | keys (fixed), `_ip_timestamps` and its lock | role of a caller; move, count and extend a window | every route |
| Ingest (`server/routers/events.py`) | per request: its events and fired rules | one POST, many events | rules, database, alert manager, scoring |
| Detection rules (`server/detection/rules.py`) | – | eight predicates | database (reads), thresholds, feed |
| Live rule configuration (`rule_config.py`, `routers/admin.py`) | `_runtime`, its lock | `update_config`, `get_config`, `reset_to_defaults` | rules, PATCH `/api/v1/config` |
| Threat feed (`threat_feed.py`) | `_known_malicious`, `_loaded`, two locks | lazy load, `reload`, lookup | rules, file, URL |
| Alert manager (`server/alert_manager.py`) | – | check for a recent alert, insert, count, notify | database, metrics, channels |
| Metrics, notifiers (`metrics.py`, `notifications/`) | three counters; none | count; send if severe enough | Slack, mail, SIEM |
| Risk scoring (`server/scoring/risk_scoring.py`) | `risk_scores` | add weights | database |
| Anchor store (`routers/anchor.py`, in `database.py`) | `log_anchors`, key material | sign, insert, list, verify | anchor scheduler, verifier |
| Database (`server/database.py`) | tables, one process-wide lock | one transaction per function | – |
| Audit chain (in `database.py`) | `audit_chain` | append, purge | verifier |
| Chain verifier (`tools/verify_chain.py`) | – | link and hash checks of a file or of fetched rows; check of anchors | log file, `/api/v1/audit`, `/api/v1/anchors` |
| Analytics, dashboard, system routes, migrations | – | read-only views, set-up | – |

### What is hard

* Monitor threads, the flush loop, `stop()` and the process's death all act on
  one table through separate acquisitions of its lock; what is posted is
  deleted later *by number* (`commit(len(batch))`).
* A POST that times out at the agent may still be handled by the server.
* The server handles a batch event by event, swallows what an event raises and
  answers 200; the agent reads no more than the status.
* An error of SQLite ends the monitor's callback or the flush thread it meets.
* The log file is never synced and a line may be torn; the next start reads the
  tail back, perhaps with another key.
* The server holds its lock for one database function at a time. Between two
  calls other requests run: rules read what is stale when the event is stored,
  and the check and the insert of an alert are apart.
* Every step of the ingest may raise; the answer is 200 all the same.
* The rate limiter reads the clock before it takes its lock; the feed is reloaded
  without the lock under which it is first loaded; each rule takes its own copy
  of thresholds that a PATCH may change in between.
* Monitors see the world through snapshots that may fail half way, or through
  notifications whose callbacks may raise.
* The server restarts with other key material while anchors made with the old
  one stay in the table.
* The lock is of one process; the documented deployment has several.

### What makes each part correct

* monitors: nothing is reported that did not happen, reports stop after `stop`,
  and a monitor left running catches up with what is there;
* transport: nothing leaves the queue but by overflow before the server has gone
  through it; order is kept; the limit is kept as far as the locking allows;
  delivery resumes;
* logs: one linked chain, each record commits to its past; faults show, and
  normal operation never looks like one; anchors speak of records that exist;
* admission: no more requests in a window than the limit and the late threads,
  and none refused without cause; roles are nested;
* ingest: alerts are neither missed nor repeated; tables, scores, counters and
  notifications agree with each other;
* configuration, feed: a reader sees whole versions, none goes back, no lock is
  waited for in vain;
* trust: what verifies was signed, what is trusted was vouched for.

`PROJECT.json` lists the hazards of the code line by line with the properties
that cover them, and those not covered with the reason.

## 2. Modules

```
RetryQueue <- EventTransport <- MCEventTransport        HashChain <- AuditChain <- MCAuditChain
                  | IsOutbox: INSTANCE Outbox               \ AgentLog <- MCAgentLog
Sums <- DetectionRules <- EventIngest <- MCEventIngest  DeviceMonitor <- MCDeviceMonitor

AccessControl --+-- RateLimiter <- MCRateLimiter        ThreatFeed --+
                +-- AgentIntegrity --+                               +-- RuleEvaluation <- MCRuleEvaluation
                +-- AnchorStore -----+-- ServerTrust    RuleConfig --+
                                        <- MCServerTrust
RequestThreads: the server's threads, used by RateLimiter, AnchorStore, ThreatFeed, RuleConfig
Proofs: EventTransport_proofs, HashChain_proofs (both logs), RateLimiter_proofs,
        ServerTrust_proofs, DeviceMonitor_proofs, RuleEvaluation_proofs, EventIngest_proofs;
        lemmas on sequences, sums and counts in DataLemmas
```

**RetryQueue** – the table as the sequence `rows`; `Put`, `Peek`, `Commit`,
`Size` are one step each, because each holds the lock from its first statement
to its commit. No step spans two of them.

**EventTransport** – threads of one agent over that table: one per monitor
(`Observe` the size check, `DropOldest` the `commit(1)`, `PutEvent`), the
`loop` thread and `main`. A flush is `PeekBatch`, one of `PostAccepted`,
`PostFails`, `PostTimesOut`, and `CommitBatch`. `Stop`, `JoinReturns` (which
may give up on a slow POST), the final flush by `main`, `CloseQueue` and
`ProcessExits` are the shutdown; `Crash` may come at any point before;
`Restart` starts on the same table. `EnqueueRaises` and `LoopRaises` are the
exceptions of SQLite: of a disk that fails (`DiskFails`) at any call, also after
the oldest row has been discarded, and of the connection that `stop()` has
closed. The second ends the loop thread, which has no `try`, until the next
restart of the process.

The server is there as the agent meets it. An event is a number, the place in the
order of observation; `Malformed` are those the schema refuses, and with them
their whole batch. Of a batch that passes, `ServerHandles` takes one event at a
time from `todo`: it is `stored`, or, for the events in `Failing`, its handling
may raise before `insert_event` is through and it is `skipped`. A 200 comes
when `todo` is empty, whatever was skipped (`server/routers/events.py:94-97`);
`Handled` is both. `late` are the rests of the requests that nobody waits for,
which `ServerHandlesLate` goes on with, or never does. The history variables
`accepted`, `dropped`, `touched`, `raced` record what happened and guard nothing.

**Outbox** – what the monitors are promised: an at-least-once first-in
first-out box, to a server that may pass over an event, in which each overflow
pays for at most one event that the server has not gone through. It knows no
threads, batches or processes. `IsOutbox` maps `queue` to `rows` and `drops` to
the number of events dropped.

**HashChain** – SHA-256 over canonical JSON taken as free of collisions: a
hash *is* the sequence of contents it commits to, `Digest` appends, `Genesis`
is empty. `verify_chain(lines, read)` are the lines, of those at the
places `read`, that one of the verifier's two checks reports: `LinkErrors`, whose
`prev_hash` is not the hash of the line read before (`HashBefore`), and
`HashErrors`, whose `record_hash` is not that of the rest of the record.

**AuditChain** – the server's chains by host. An append is two steps,
`BeginAppend` (SELECT of the tail) and `EndAppend` (INSERT, with the swallowed
`IntegrityError`); a process is in one append at a time and does not purge in
the middle, which is what its lock gives. `Purge` is `purge_old_records`.

**AgentLog** – the log file as lines (records or garbage) with an unfinished
last line and a written-back front. `Write`, `WriteFails`, `WriteTorn` (full
disk: part of a record, or all but its newline), `PowerLoss` (a front of the
file survives), `Exit`, `Restart(k)` with any setting of `ITDN_LOG_KEY`;
`ReadHead`, `AnchorStored`, `AnchorFails` are the anchor thread. `Verdict(k)`
is `verify_chain --file`; `ReadBy(k)` are the lines that decrypt with its key,
`Whole` those that are records. Whole operations of the logger are single steps
since `write` and `chain_head` hold its lock. Its `LogInit`, `LogNext`, `LogSpec`
are named apart from those of `AuditChain`, since one module proves about both.

**DetectionRules** – the eight rules as predicates on what they read, in the
order of `_RULES`, and the risk weights.

**EventIngest** – the handler, one step for each call of `database.py`:
`Receive`, `Evaluate` (once per rule), `InsertEvent`, `AppendAudit`,
`UpdateDeviceBaseline`, `UpdateUserBaseline`, `UpdateHostTimezone`, then for
each alert `CheckRecent` and `InsertAlert`, and `UpsertRisk`. `job[t]` is the
local state of a request's thread. A stored alert is counted and then sent on
(`Notify`, if its severity passes). `RuleRaises`, `TimezoneRaises`, `SlackRaises`
and `Raises` are exceptions, each with the handler that catches it. `Purge`,
`Acknowledge` and `Tick` run beside. `Purge` drops as many rows at the front as
there are old ones, which is what the `DELETE` does as long as rows stand in the
order of their times; that they do is proved (`PurgeIsExact`). Requests are not delimited: the handler goes from one event to the next
whatever happens, so a thread's next event may as well be the next request's.

**AccessControl** – who may call what: `CallerRole` in the order role map, shared
key, open; `PassesApiKey` and `PassesRole` are the two decorators. No variables.

**RateLimiter** – `ReadClock` takes the time of a request, `Refuse` or `Admit`
happens later under the lock, so that a thread may come with an old clock. The
list of time stamps of an address is the set of the admissions it stands for.
`Unauthorized` requests are turned away before the limiter.

**ThreatFeed** – a feed is, per source, the version it was read from (0: nothing).
`Ask`, `TakeLoadLock`, `LoadLocal`, `LoadRemote`, `Swap`, `Match` are the
double-checked first load; `Reload` enters it without `_load_lock`;
`ReloadRaises` is an exception the readers do not name. `_feed_lock` covers one
assignment or one lookup and so is no state of its own.

**RuleConfig** – `_runtime`, the lock's holder, and per thread what it has left to
write: `Patch` validates before the lock, `WriteKey` writes one key,
`ReleaseLock` completes a version, `Answer` reads again for the response.

**RuleEvaluation** – both, read by the four rules of an event that depend on them:
`ReadThresholds` three times, then `LookUp`. Each rule copies the thresholds
for itself, so an event may meet several versions; `eval[t].read` keeps them.

**DeviceMonitor** – one monitor thread on a host (`kind`, `platform`, installed
`libraries`), which select its loop: polling (`Baseline`, `CheckStop`, `Poll`,
`ReportNew`, `ReportLost`, `EndRound`), or notified (`Listen`, `TakeUp`, and
`Handle` for udev and ETW, `Enumerate` for WMI). `Change` is the world;
`ReportRaises` ends a polling thread, `HandleRaises` loses one event. `view` is
what a reader of the reports believes to be connected.

**AnchorStore** – `SignAnchor` outside the lock, `StoreAnchor` under it,
`RestartServer` with any configuration, `EditRow` by somebody else; `Verifies`,
`Listed`, `Status`, `Failures` are the verifier. A signature is its algorithm,
key and head, and cannot be forged; that of development mode has a key per
process.

**AgentIntegrity** – `ChangeFiles`, `StartAgent` (takes the hash),
`CheckWithServer`, `CheckFails`, `RegisterHash`.

**ServerTrust** – the two together on one configuration, which a restart changes
for both.

## 3. Runs

Bounds are in the `.cfg` files. All counters that would grow for ever (events,
faults, restarts, ticks, rows) are capped in a guard by a constant `Max...`.

| Run | Question and answer | Bounds, and why they suffice |
|---|---|---|
| `TransportRaces` | With two monitors, overflow, slow POSTs, a failing disk, a server that skips an event, a malformed event, crashes and restarts: `QueueBound` (the limit is passed by at most one row per further monitor, calls under way included), `UntouchedFlushIsSafe` (a flush nobody removed rows under deletes only what the server has gone through), `Accounted`, `NoOvertaking` and the inductive invariant `IInv`. Holds. | 2 monitors, limit 2, batch 2, 4 events, event 1 failing, event 3 malformed: two overflows, two batches in flight (loop and `stop`), a late request overtaken by a later one, an event stored behind one that was skipped; 2.2 million states |
| `TransportOutbox` | With one monitor and one flush at a time: refinement of `Outbox` (`IsOutbox`), and under fairness `EventuallyHandled`. Holds. | 3 events over a queue of 2, event 2 failing, a failing disk: an overflow under a flush of two rows, whose commit removes one that was not posted; batches of one and two; timeouts; any number of crashes. That more events add nothing to `IsOutbox` is proved |
| `LostAtStop` | `FlushRemovesDelivered`: rows leave after delivery. **Violated**: `stop()` flushes beside the loop. | 3 events, queue 3: no overflow |
| `AuditOneProcess` | One process: `Linked`, `NoAppendSwallowed`, `OnlyEndsChange`. Holds. | 2 hosts, 2 payloads, 4 appends, 3 ticks: the same event twice on a host, purges that take none, some or all |
| `AuditTwoProcesses` | `Linked` with two processes. **Violated** | 2 processes, 3 appends |
| `AgentLogFaults` | `BreaksAreFaults`, `ReturnedIsOnFile`, `NoFork`, `IntactIsComplete`, and under fairness `EventuallyAnchored`. Holds. | 3 events, 2 faults, 2 restarts, 2 keys beside none and an invalid one: a torn line then a power cut, a chain in two keys |
| `IngestTwoThreads` | `DuplicatesBounded`, `FirstConnectAlerted`, `UnknownOnce`, `TablesAgree` with two requests interleaved at every database call. Holds. | 3 events of one device on two hosts (connect at night, disconnect, connect by a user), each as often as 3 receptions allow, so a batch repeated too; 2 ticks, dedup window 1 so that it ends within the run |
| `IngestOneThread` | `NoDuplicates`, `VolumeAlerted`, `MetricsAgree` with exceptions at every call and in the webhook, an acknowledgement, purges. Holds. | 3 events: transfers of two devices that reach the threshold together; 2 ticks, hour 2, dedup window 1, retention 1; the severity threshold lies between those of the rules that fire |
| `Admission` | `OnTimeWithinLimit`, `LateBounded`, `RefusalsJustified`. Holds. | 2 threads, limit 2, window 2, 5 requests, 4 ticks: a thread held up for more than two windows; three settings of the keys. Addresses do not interact, so one is enough |
| `DetectionState` | `TypeOK`, `FetchedOnce`, `RulesSeeVersions`, `ReloadsGoForward`, and under fairness `EveryCallEnds`. Holds. | 2 threads, 3 requests of any kind: an event evaluated across two updates, a reload beside the first load; one body of PATCH refused in part, one with a value that is no integer |
| `Monitors` | `NothingInvented`, `StopsReporting`, `PollAlternates`, and under fairness `CatchesUp`. Holds. | 2 devices, 2 changes each, 2 faults; 7 hosts: each loop, a host that cannot be enumerated, Bluetooth |
| `ServerTrust` | `ValidIsSigned`, `CleanIsSigned`, `KeptKeysKeepAnchors`, `TrustIsVouched`. Holds. | 2 threads, 2 agents, 2 heads, 2 rows of which 1 is listed, 1 edit, 2 starts over 5 configurations: RSA, broken key, foreign certificate, development, none; a role map |

Each property of a passing run has a mutant of the code's definitions that
violates it; the mutants stand before the definition they replace, are marked as
such, and are part of no specification.

`TransportRaces` and `LostAtStop` have `SlowPost`, `TransportOutbox` has not: with
it the refinement is false, as `LostAtStop` shows.

Where a run says `CHECK_DEADLOCK FALSE`, the model really stops: its clock,
its events and its restarts have reached their bounds. The transport never
stops, since its loop goes on.

Symmetry is declared over monitors, hosts, payloads, processes, request threads,
agents and heads, where no definition tells them apart, and only in runs without
liveness.

## 4. Fairness

*Transport.* The loop thread runs when it can (weak fairness of its flush and of
its waking up). A POST ends, since `urlopen` has a timeout
(`agent/transport.py:76`). That a server asked again and again goes through a
batch and answers 200 in time again and again is assumed only of batches that
its schema accepts, and only of the POSTs of the loop. Nothing obliges monitors
to report, anyone to stop the agent, the service manager to restart it
(`deploy/agent.service` has `Restart=always`), or the server to go on with a
request that nobody waits for; `EventuallyHandled` therefore speaks of behaviours
in which the agent is in the end left running and its loop thread lives, and of
events none of which is malformed (section 6 says what happens otherwise).

*Anchors.* The anchor thread runs while the agent does, and a server asked again
and again stores an anchor at some point.

*Locks and loads.* A request thread that can take its next step does (weak
fairness of each thread's `Step`): a lock that is free is taken at some point, a
fetch has a timeout (`server/detection/threat_feed.py:84`). Requests, publishing
and changes of the configuration are not owed. That weak fairness is enough
rests on the bound on requests: in a server that is never idle a thread could in
principle be overtaken at a lock for ever.

*Monitors.* The thread runs (weak fairness of its loop). `CatchesUp` speaks of
behaviours in which the monitor is in the end left running and its thread lives;
that devices no longer come and go is the bound on changes.

## 5. Proofs

`tlapm` checks, for every value of the constants that satisfies the named
assumptions of the modules:

| Module | Theorems |
|---|---|
| `EventTransport_proofs` | `Invariance` (`IInv`), `TypeCorrect`, `QueueIsBounded`, `BatchStaysFront`, `NothingVanishes` (`Accounted`), `FlushDeletesHandled` (`UntouchedFlushIsSafe`), `NothingOvertakes` (`NoOvertaking`); for one monitor, `SingleMonitorWithinLimit`; for one flush at a time (`~SlowPost`), the refinement `ImplementsOutbox` (`IsOutbox`) |
| `HashChain_proofs`, of `AuditChain` with one process (`OneProcess`) | `Invariance` (`IInv`), `ChainIsLinked`, `HashesCommitToHistory`, `EveryAppendIsRecorded`, `RowsAreInOrder`, `HistoryIsKept` (`OnlyEndsChange`) |
| `HashChain_proofs`, of `AgentLog` | `LogInvariance` (`LogInv`), `FaultsBreakOnce` (`BreaksAreFaults`), `ChainNeverForks` (`NoFork`), `ReturnedStays` (`ReturnedIsOnFile`), `IntactMeansComplete` (`IntactIsComplete`) |
| `RateLimiter_proofs` | `LimiterInvariance`, `LimitHolds` (`OnTimeWithinLimit`), `LateOnesAreBounded`, `RefusedForReason` (`RefusalsJustified`), `RolesAreNested` |
| `ServerTrust_proofs` | `Invariance`, `Typed`, `ValidSigned`, `CleanSigned`, `KeptValid`, `TrustVouched` |
| `DeviceMonitor_proofs` | `Invariance`, `Typed`, `ReportsStop`, `ReportsAlternate`, `InventsNothing` |
| `RuleEvaluation_proofs` | `Invariance`, `FetchesOnce`, `RulesRead`, `GoForward`, and `Typed` if the defaults are within the limits |
| `EventIngest_proofs` | `Invariance` (`IngestInv`), `ReportedOnce` (`UnknownOnce`), `FirstIsAlerted` (`FirstConnectAlerted`); `AccountsKept` (`AccountsInv`), `NothingIsLost` (`TablesAgree`), `MetricsTellTheTables` (`MetricsAgree`); `WindowsKept` (`WindowInv`), `OncePerThread` (`DuplicatesBounded`); `OrderKept` (`OrderInv`), `PurgeIsExact`; with one request thread, `OnceWithOneThread` (`NoDuplicates`), `VolumesKept` (`VolumeInv`), `VolumesAlerted` (`VolumeAlerted`) |

*The transport's argument.* `QueueBound` alone is not inductive: it must count
the calls that have passed the size check, and a call that has found the table
full removes a row before it adds one. `Accounted` needs to know what a commit
removes: `BatchIsFront` says that an untouched batch is still the front of the
table, `BatchIsHandled` that during the POST the server has gone through all of
the batch but what it has in hand, and so through all of it when the 200 comes.
Removing rows keeps
`BatchIsFront` because whoever removes them puts every other flush in flight
into `touched`. `IInv` is the conjunction with the types and is also an
invariant of `TransportRaces`.

*Order.* Call the server's progress what it has gone through, `Handled`. `OrderInv`
says that `Handled` is, as far as it is still in the table, a front of the table
(`IsFront`), that it stays one with any first part of what a flush in a POST or a
late request has left to handle, and that an event about to be put is in none of
these and in no row (`CallsAreNew`, `Distinct`). The server takes the first of
such a rest, which lengthens the front by what was already allowed for, whether
it stores the event or skips it. A peek makes a front, unions of fronts are
fronts, a removal at the front keeps them, and a put adds behind them.
`NoOvertaking` is the case of `Handled` alone.

*The outbox.* The refinement needs to know which overflow pays for which missing
event. A flush in flight under whose batch `d` rows have been removed still holds
`d` events that it posted and will not remove, and its commit will remove up to
`d` rows that it did not post. `PaidInv` sets aside `d` overflows for that: the
missing events outside its batch, and `d`, are together no more than the
overflows. An overflow under a flush raises `d` by one, or, when nothing of the
batch is left in the table, makes one event missing; the commit spends `d`.
`Solo` (with `~SlowPost` the final flush starts after the loop thread has ended)
makes that flush the only one. Every step is then a step of `Outbox` or a
stutter. With two flushes (`SlowPost`) the loss is not paid for, as `LostAtStop`
shows.

*The chain's argument.* `TailIsCurrent` (the tail an append has read is the tail
still) is what the lock is for, and fails with two processes. With `Sound` (a
row's hash is that of its own contents) it gives that the new row's hash extends
the tail's, hence all hashes of the host by `CommitsToHistory`: the new hash is
longer than any stored one of its host (rows of the host that are still in the
table; a purge that leaves none lets the next chain start again) and ends in another host's name than those
of other hosts, so `UNIQUE` never swallows it. A purge takes a front, which keeps
each part; that it is a front needs the rows to be sorted by time.

*The agent's log.* `BreaksAreFaults` alone is not inductive: a torn last line or a
head that is not the hash of the last whole record breaks nothing yet, but the
next record will. `PaidFor` counts one break that is due beside those there are;
a fault makes at most one due, a write turns it into a break, and a second fault
meanwhile adds none. `NoFork` needs to know where hashes can come from: a
record's hash extends its own `prev_hash` by an event later than all before
(`Formed`), the events ascend along the file (`Ascending`), and no record follows
the head but a last line without its newline, which the next line would spoil
(`Unfollowed`). `OnFile` is `ReturnedIsOnFile` with the head, and says that the
file then ends in a newline. `IntactIsComplete` follows from `Formed` and from
what it is to have no link error: at the least place whose hash stands for an
event that no record read up to there has, the record before it in the reading
stands for it as well (`LinksComplete`).

*The limiter's argument.* A thread that is late evicts with an old clock, and so
less than it could: whatever counts now, or will for a thread that is still to
come, is on the list (`Tracked`). So when a request is admitted, all on-time
admissions of any window that contains it are among the fewer than
`RATE_LIMIT_MAX` on the list. The requests of one thread follow each other
(`ServedInTurn`), hence of each thread at most one in a window is late, which
bounds those by the number of threads.

*Trust.* Every signature in a row or in the hands of a thread is of development
mode or in `signed`; edits move signatures and make none. While `kept` holds, an
anchor nobody edited fits the certificate or the secret the server has still.
A registered hash is in `vouched`; 0, which stands for no row, is never the hash
of an agent that checks. The two halves share no variable that the second
writes, and each has its invariant.

*Monitors.* `ViewFollows` says what a reader knows within a round: the next
snapshot for the devices already reported, the last one for the others. From it
follows that reports alternate. `NothingInvented` counts: each report of a
polling loop is paid for by a difference between the snapshot and what was
enumerated (`Off`), which only a change or a fault can make, a fault at most
twice; each report of a notified loop by a notification taken from the queue.

*Detection state.* The feed's lock is held by exactly the threads inside a
first-use load, and `fetched` is 1 while it is held. A thread in `alone` has read,
source by source, nothing older than what is in place, because only a swap
changes that and a swap empties `alone`. For the thresholds: while an update
holds the lock, what is written overridden with what is left to write is the
last version with one whole body; when nobody holds it, `_runtime` is the last
version, so a copy taken then is one. `Typed` has the hypothesis that the
defaults are within the limits: the code checks what a PATCH carries, not the
environment the defaults come from.

*Ingest.* A thread *owes* the alert of a new device from the turn at which the
rule fires until the alert is stored, is suppressed by a stored one, or an
exception ends the event. Before a device has its first row nothing is stored
about it, since a thread stores its row first; from then on the rule fires for
nobody, so that the stored alerts and the threads that owe one are together no
more than the threads (`Counted`). The thread that stores the first row has
looked when there was none, so it owes the alert (`NewIsFired`), and one is
stored when nobody is at it (`FirstHandled`).

*Accounts.* `TablesAgree` and `MetricsAgree` speak of a server at rest. `AccountsInv`
says at every moment that what a table or counter has, with the threads that
still owe it an addition, makes the total: rows and the audit records still to
come (`Recorded`), rows of a device and its sightings (`Sighted`), stored alerts
and their counts and notices (`Tallied`, `Notified`). For the risk scores the
debts differ by thread, and `Scored` says that the scores of all hosts and the
debts of all threads sum to the weights of all fired rules; a step changes one
summand. At rest no thread is at any call. An exception ends what a thread owes;
`TablesAgree` therefore leaves out hosts with exceptions, while nothing can raise
between storing an alert and counting it, so `MetricsAgree` does not.

*Windows.* The check for a recent alert and the insert are two steps, so several
threads may store the same alert. `WindowInv` looks at one window from its first
alert on: since that is stored no thread that checks goes on to store, so the
copies stored and the threads about to store one only pass from one to the
other and are no more than the threads. The window is given by its first alert
and lasts while the clock is in it; a purge takes rows away, and the marks of an
acknowledgement change nothing that is compared. `NoDuplicates` is the case of
one thread.

*Order and purge.* Rows are stored with the clock of the moment and the clock
does not go back, so each table is in the order of its times (`OrderInv`); then
the rows older than the cutoff are a front of it, and taking away as many rows as
there are old ones takes exactly those.

*Volume.* With one thread nothing is stored between the turn of the rule and the
insert, and the hour only gets shorter as the clock goes on: whoever has passed
the rule has seen at least the bytes that are there now (`VolumeSeen`; that a
part weighs no more than the whole is `SumPart`, and needs that no event has
fewer than 0 bytes). So the thread whose row brings its host to the threshold
owes the alert, and it goes on to owe it, rule by rule, until one is stored or a
stored one of the window suppresses it (`VolumeHandled`). With two threads it is
false, see section 6.

Facts that several of these need are in `DataLemmas`: on the fronts and tails of
sequences, on counting the places of a sequence that satisfy something, and on
sums over finite sets. What a fold computes cannot be expanded by the prover; but
`MapThenSumSet` is by its definition a function that satisfies an equation, and
the lemmas show that one exists (`AdderExists`), that any two agree
(`AddersAgree`), and from that what one more element or one changed summand
does. Induction on the size of a set is `SizeInduction`, from the least member of
a set of numbers (`LeastNumber`), so that no operator has to be instantiated.

*Assumptions*, each checked by TLC on the runs of its module:
`TransportAssumption`, `AuditAssumption`, `AccessAssumption`,
`ThreadsAssumption` and `IngestAssumption` (finitely many threads), `LimiterAssumption`,
`StoreAssumption`, `VersionAssumption`, `MonitorAssumption`, `FeedAssumption`,
`ConfigAssumption` (the defaults are integers; a range check is not assumed),
`RequestsAssumption`, `LogAssumption`, `RulesAssumption` (windows and thresholds
are natural numbers), `HostsAssumption` (finitely many hosts), `BytesAssumption`
(`transfer_bytes` is not negative, `server/schema.py:30`). Hypotheses of single
theorems are `OneProcess`, one request thread (`Cardinality(Threads) = 1`), one
monitor, `~SlowPost`, each named in the table: without it the statement is
false, which for `OneProcess` and `~SlowPost` a run shows.

*Only model-checked.* All liveness (`EventuallyHandled`, `EventuallyAnchored`,
`EveryCallEnds`, `CatchesUp`), since the prover handles
neither fairness nor ENABLED. Every invariant and every action property of a
passing run is stated by a theorem.

## 6. Disagreements of code and text

With a run each (`PROJECT.json`, "findings"):

* `stop()` and the loop may both commit, and the second deletes rows that were
  never posted (`LostAtStop`). The same deletion by number loses rows when an
  overflow drops one during a POST.
* Two server processes on one database fork a host's chain (`AuditTwoProcesses`).

Met while modelling, evident from the lines themselves and so without a run:

* An event whose handling raises before it is inserted is deleted by the agent
  all the same: the server swallows the exception and answers 200
  (`server/routers/events.py:94-97`), and the agent looks at nothing but the status
  (`agent/transport.py:77`), while `agent/retry_queue.py:98` says that rows are
  removed "after delivery". `Accounted`, `NoOvertaking`, `IsOutbox` and
  `UntouchedFlushIsSafe` therefore speak of what the server has gone through,
  which is not always what it has stored.
* One SQLite error in a flush ends the loop thread, and delivery with it, while
  the agent stays up (`agent/transport.py:154-157`); line 87 calls it a
  "Background thread that drains the persistent retry queue".
* A batch with one malformed event is refused whole, and the same front of the
  queue posted for ever, while `server/routers/events.py:43` says that it "doesn't
  block the entire batch".
* `verify_chain --server` hashes the columns of a fetched row
  (`tools/verify_chain.py:46`), not `{prev_hash, event}` as the server did
  (`server/database.py:439`), and so reports every row as tampered with. Nothing is
  claimed here for its verdict on fetched rows.
* A chain begun after an unreadable tail hides the gap before it, while
  `agent/logger.py:44` says that any gap can be detected. `IntactIsComplete` and
  `BreaksAreFaults` state what does hold.
* Two requests may each store a part of a volume that neither alerts on
  (`server/detection/rules.py:118`); `VolumeAlerted` is for one thread.
* `_post_events` sends no `Authorization` header (`agent/transport.py:69`), nor do
  the anchor thread and the integrity check, so a server with a key set refuses all
  an agent sends, while README.md:260 says that agents hold the key and
  README.md:369 asks to set it.
* The limiter reads the clock before it takes its lock (`server/auth.py:182`), so
  requests held up in between may be admitted beyond `RATE_LIMIT_MAX`, by no more
  than the number of threads (`LateBounded`).
* `stop()` flushes one batch of at most `_BATCH_SIZE` rows (`agent/transport.py:133`),
  its comment says "drain remaining events on shutdown"; the rest stays in the
  table until the next start.
* A purge that leaves a host without rows lets its next row start from the genesis
  hash (`server/database.py:428`): the chain no longer commits to what was purged.
* `--verify-anchors` checks the 5 newest of 20 anchors (`tools/verify_chain.py:225`)
  and counts a failed fetch as no failure (line 220); its help says "each anchor".
* `upsert_risk_score` adds for ever (`server/database.py:747`); the "24h rolling"
  window of its docstring is stored and never read.
* A `data_transfer` event completes a rapid cycle (`server/detection/rules.py:160`).
* The volume rule fires at the threshold (`rules.py:130`), its text says beyond.
* Two monitors may take the table beyond `MAX_QUEUE_SIZE` (`agent/transport.py:108`;
  by how much is `QueueBound`), and a drop may come after a flush has made room
  (line 114); two requests may store an alert twice (by how much is
  `DuplicatesBounded`).
* `send_slack_alert` catches `URLError` only (`notifiers.py:169`); a timeout while
  the response is read skips the event's other alerts and its risk score.
* `alert_dedup_window_secs` can be PATCHed and has no effect:
  `server/alert_manager.py:17` uses the constant.
* On a removal the WMI loop reports every device that is still there as
  "disconnected" (`agent/monitor/usb_monitor.py`, `_enumerate_and_dispatch_wmi`);
  `NothingInvented` therefore leaves WMI out. A Windows host without `wmi` is
  polled and sees nothing.
* The agent's hash covers `agent/*.py` and not `agent/monitor`
  (`agent/integrity.py:20`), while its docstring says all files of the package;
  nothing refuses an agent whose hash is not the registered one.
* A key with the role `readonly`, which `server/auth.py:18` gives GET only, may POST
  events and anchors: `require_api_key` asks for no role.

## 7. Not modelled

* Formatting, logging, descriptions, TLS set-up, the shape of JSON; the fields of
  an event and their coercion by the request schema (acceptance of a batch is
  modelled).
* Mail, Splunk and Elasticsearch forwarding: output whose failures are swallowed.
* Analytics (floating point, graphs), dashboard, read-only routes, queries of the
  baselines, the settings and the migrations: they change no state, or only once.
* `EBPFUSBMonitor`, `IntegrityChecker.register_with_server` and
  `threat_feed.add_entry`, which nothing outside tests calls.
* A call of SQLite that raises is taken to have had no effect. One that raised after
  its effect is a success followed by a failure of the next call; an open
  transaction that a later crash undoes is not modelled. An exception in the final
  flush of `stop()`, which ends the process, is `Crash`.
* Two late requests with the same events left are one member of `late`, which may
  be handled any number of times.
* Edits of the agent's log file; the verifier's verdict on rows fetched from the
  server.
* Changes of an `ITDN_LOG_KEY` inside one run of the agent; a clock that goes back
  on the server; several server processes, beyond `AuditTwoProcesses`.

## 8. Plan

Done: the parts above. What would add most, in this order:

1. One composition of `EventTransport` with `EventIngest`, in which the batch that
   is repeated is that of the transport, and from it what the server's tables
   promise the agent's queue.
2. What two request threads may store of a volume unalerted, as a bound in the
   number of threads, in the place of `VolumeAlerted` for one.
