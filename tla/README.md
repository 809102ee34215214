# A TLA+ verification of holonightd

holonightd is two daemons and two small clients for a Linux desktop:

* **holonight-healthd** polls the machine (systemd units, memory, disks, pacman), stores what it sees as
  observation events in SQLite, evaluates rules over them and runs the configured maintenance commands;
* **holonight-agentd** follows the sessions of AI coding agents over D-Bus, shows a desktop notification for each
  event, and raises the terminal of the session when the user presses *Open* on it;
* **hn-agent-run** and **hn-agent-event** are the clients that register sessions and publish events.

This directory holds TLA+ modules of the parts whose correctness depends on order, failure or time, the TLC
configurations that check them, and TLAPS proofs. Paths below are relative to the repository root.

## 1. Inventory

### The agent side

| component | state | operations | interacts with |
|---|---|---|---|
| `SessionRegistry` | sessions: descriptor, last notification id, last update (system clock) | register, publish, end, update notification id, prune stale | called by the D-Bus methods and the main loop |
| `NotificationActionBindings` | notification id -> descriptor, creation time (steady clock); at most 256, at most 24 h old | replace, consume, close, prune | owned by the bridge |
| `NotificationBridge` | the bindings | send a notification (blocking call of at most 500 ms), handle *ActionInvoked* and *NotificationClosed* | notification server, shell |
| `apps/agentd/main.cpp` | the loop, the D-Bus vtable | RegisterSession, PublishEvent, EndSession, ActivateSession, periodic prune | clients, systemd (`Restart=on-failure`) |
| `ShellActivationClient` | none | ask the shell to raise a window (blocking) | the shell |
| `ProcessAncestryReader`, `ProviderNormalizer`, `AgentActivity` conversions | none | walk up `/proc`, translate provider hooks, JSON | registry, clients |
| `hn-agent-run`, `hn-agent-event` | none | register, wait for the agent, end; publish one event | agentd |

Hard here: one thread that blocks in a call to a server it does not control, while the signals of the user pile up in
its receive queue; a timeout that races a late answer; ids that are reused, replaced or forgotten; a table at its limit;
restarts of either side. Correctness: *Open* raises the terminal of what the user saw; a notification replaces only its
own predecessor; the table is bounded and evicts the oldest; a press reaches the shell unless its binding ended first.

### The health side

| component | state | operations | interacts with |
|---|---|---|---|
| `CommandRunner` | one child process group, a pipe, a deadline | `run` | kernel, stop flag |
| `HealthCheckJob`, `LocalSummaryClient` | none | run all commands, summarise | runner, logger |
| `EventStore` | a SQLite table, one connection, a mutex | insert, insertBatch, query, prune by age and by capacity, checkpoint, export | SQLite, file system |
| `Daemon`, `apps/healthd/main.cpp` | the stop flag, the collectors | run, runIteration, runStatusCheck | all of the above |
| `RuleEngine` | rules, a sequence number | load, evaluate | events |
| `SystemdCollector`, `MemoryCollector` | flapping timestamps; last OOM counter | collect | D-Bus, journal, `/proc` |
| `StorageCollector`, `PacmanCollector`, `FilesystemScanner` | none | collect, scan | file system |
| `Application` (configuration), `Logger`, `ObservationEvent` | configuration | parse, log, convert | everything |

Hard here: processes that outlive their shell; a deadline and a stop request around the command's own end; statements
of one operation of which only some take effect; the end of the process between any two of them; size limits measured
on something that does not shrink; a poll of which one collector fails half-way, with its counters already moved; events
that must be seen before they leave a window; a stop request at any statement; an exception that only the service
manager recovers from. Correctness: complete and bounded output, an honest exit code, `run` ends; a batch is atomic, what
was acknowledged survives, a prune deletes the least important events and stops at its target; every kill and every core
dump is reported, what was seen is diagnosed, verdicts and exit codes agree; the service stops when it is asked to and
polls until then.

`PROJECT.json` lists every component with its status and, under `hazards`, every such spot at its line.

## 2. Modules

| module | models | uses |
|---|---|---|
| `AgentTypes` | descriptors and notification ids | |
| `NotificationActionBindings` | `libs/agent/NotificationActionBindings.cpp` | `AgentTypes` |
| `SessionRegistry` | `libs/agent/SessionRegistry.cpp` | `AgentTypes` |
| `AgentDaemon` | `apps/agentd/main.cpp`, `libs/agent/NotificationBridge.cpp`; external: notification server, user, clocks | both of the above |
| `MC_AgentDaemon` | TLC instance (symmetry of sessions and descriptors) | `AgentDaemon` |
| `AgentDaemon_proofs` | theorems about `AgentDaemon` | `AgentDaemon` |
| `RunnerContract` | what a call of `CommandRunner::run` promises its caller (`include/holonightd/CommandRunner.h`) | |
| `CommandRunner` | `libs/process/CommandRunner.cpp`; external: the command's processes | `RunnerContract` (implements it) |
| `MC_CommandRunner` | the kinds of helpers for TLC | `CommandRunner` |
| `CommandRunner_proofs` | theorems about `CommandRunner` | `CommandRunner` |
| `EventStore` | inserts and prunes of `libs/storage/EventStore.cpp`; external: SQLite | |
| `EventStore_proofs` | theorems about `EventStore` | `EventStore` |
| `EventExport` | `exportToJsonl` of the same file; external: the file system | |
| `EventExport_proofs` | theorems about `EventExport` | `EventExport` |
| `ObservationEvents` | `include/holonightd/ObservationEvent.h`: severities, values, events | |
| `RuleEngine` | `libs/health/RuleEngine.cpp` | `ObservationEvents` |
| `SystemdCollector`, `StorageCollector`, `MemoryCollector`, `PacmanCollector` | the file of that name in `libs/health` | `ObservationEvents` |
| `HealthDaemon` | `libs/health/Daemon.cpp`, `HealthCheckJob.cpp`, `LlmClient.cpp`, `apps/healthd/main.cpp`; external: units, journal, kernel counter, clock, service manager | `RuleEngine`, the collectors, `RunnerContract` (relies on it) |
| `MC_HealthDaemon` | views, rule files and command lists for TLC | `HealthDaemon` |
| `HealthDaemon_proofs` | theorems about `HealthDaemon`: types, kills, commands, summary | `HealthDaemon` |
| `HealthTimes_proofs` | the flapping state and the core dump window | `HealthDaemon_proofs` |
| `HealthDiagnosis_proofs` | diagnoses, verdict and exit code | `HealthDaemon_proofs` |

Definitions named `X_something` with the comment "Mutant of X" are deliberately wrong variants of `X`; no specification
uses them. Each property was seen to fail when the variant `PROJECT.json` names takes the place of its original.

### AgentDaemon

`sessions` and `bindings` are the two maps of the daemon. A session keeps the descriptor, the notification id and the
time of its last update; strings that are only shown are left out, and so are the signals the daemon emits, to which
nothing in the repository reacts. `methodPublishEvent` is split where `sendNotification` blocks in `sd_bus_call`: the
first half applies the event, reads the session and sends the request; `call` holds the locals of the suspended handler;
`NotifyReplied`, `NotifyFailed` and `NotifyTimedOut` are the ways it continues, each with everything up to the handler's
return. All other handlers are one action each, enabled only when no call is in progress (`Idle`): the daemon has one
thread. The descriptor passed to `registerSession` is any valid lineage or none, which is what the ancestry reader can
return. `activated` records what the shell was asked in the last step, and for which
notification; the request keeps no state in the daemon. `Dispatches` are the steps after which the loop starts over
without looking at the sessions: `PruneSessions` comes only when there was nothing to dispatch.

External and modelled from how the code uses them: `requests` are Notify calls on their way, served in order, also when
the caller has given up; the server may keep the id it is asked to replace or give a fresh one, refuse, or answer with
id 0; `shown` and `content` are the user's screen, and a signal carries (for the properties only) what its notification
was about when it was sent. Other applications take ids from the same counter. Both clocks advance, and the system clock
may be set. `Restart` is systemd starting the daemon again at any moment. A client that dies between its calls
(`hn-agent-run`) simply makes no more of them. The server of the model does not restart.

### CommandRunner

`pc` is where the loop is: one turn reads, waits and checks; `grace` and `kill` are the termination branch. The shell
and its helpers write, fork, close their output, exit by themselves or die from the runner's signals at any moment;
`behaviour` says which of them survive SIGTERM (`stubborn`) and which have left the group (`detached`). Bytes are counted, not kept. `read_failed`
marks the one path on which the code gives up output silently (an error of `read` is taken for the end); it does not
happen on a pipe. Not modelled: a failing `fcntl` (the read would block), a failing `waitpid` inside the termination
branch, and the reuse of the pid by an unrelated process.

`RunnerContract` is the abstract specification: idle, running, then an outcome or an exception; a cancelled outcome
needs a stop request; timed out and cancelled exclude each other and have codes of their own. `KeepsContract` is the
refinement, with `phase` read off `pc` and `outcome` off the result. `HealthDaemon` uses the contract's actions, so that
what is checked there holds for this runner, up to the time it takes.

### EventStore

`db` is what is committed, `view` what the connection sees, `in_txn` whether a transaction is open, `op` the operation
that holds the mutex. Every SQLite statement is a step, so that `Reopen` (the process ends and the store is opened
again) can fall between any two. A row counts as one page of one byte, and a DELETE frees no page: `page_count`
counts free pages, and the schema asks for no vacuum. `BatchCommitBusy` exists only where the database is not in WAL
mode (`wal`): the constructor asks for WAL but does not read the answer. Reads (`COUNT(*)`, the PRAGMAs) are assumed to
succeed; a statement that fails outside a transaction changes nothing and is no action. `checkpointWal` moves pages
between files and is invisible here.

### EventExport

Each element of `Exports` is one call of `exportToJsonl` with the same destination; `pc` is how far it is. Names (`tmp`,
`dest`) refer to inodes, and an opened file keeps its inode when the name moves; a stream writes at its own position,
also in a file that another one has emptied (`WrittenAt`). An export returns a count or an error, is left by an
exception, or ends with its process (`Killed`). The exceptions are those of `create_directories`, of `toJson` on text that
is not UTF-8 (`LineThrows`) and of `remove` on an error path (`RemoveThrows`); after one of them, or a kill, the temporary
file stays and the next export truncates it. `QueryStopsShort` is a `sqlite3_step` that fails after some rows. The mutex
is held in the query only, so that an export may begin while another one is under way; the history variable `alone` says
that none has. Nothing in the repository exports from two threads, but nothing in the class prevents it. Lines are written as they are produced: the
stream's buffer only delays them, and the failures it delays are those of `WriteFails`, possible up to the close. Left
out: what a power failure does to unsynced data, and the rows a filter selects.

### RuleEngine and the collectors

An optional field is a set of at most one element, and rules, conditions and events are sets, since their order only
decides the order of a report. A value is its rendering together with the number it is or parses to, because equality
compares renderings and the orderings compare numbers; substring and regular expression matches are parameters. A rule
file is what the JSON parser makes of it: `loadRuleFromJson` says what is rejected (a missing field, an unknown severity
or logic) and `parseConditionItem` what is silently ignored (an unknown operator or `min_severity`).

A collector's input is a *view*, what the files, mounts and replies say at one poll; its output are its events. Two
collectors keep something between polls: `flapping_state` holds, for each unit, the set of ages of the polls that found it
failed (polls of one process are at least a second apart, so that no two have the same age), and `baseline_oom_kill` the
kernel's counter at the last good reading. The thresholds are doubles in the code; the model takes whole ones, as all
the defaults are, and against those a percentage that is rounded down decides as the exact one does.

### HealthDaemon

`pc` is the statement the process is at. Each collector is a step with the ways it can fail: `SystemdFails` and
`MemoryFails` fail after their counters were moved, which is where `json::dump` throws on a name that is not UTF-8.
`StoreEvents` changes nothing here: its failures are logged, and what it does to the table is the subject of
`EventStore`. `RunCommand` is the look at the stop flag and `Launch` the start of the command after it, two steps because
the signal may fall between them. `CommandThrows` is an exception that passes to `main`; the service manager starts a
failed service again, with empty state. The summary looks for `exit=0` and `exit=1` in a text that contains both the
codes and whatever the commands printed: a result keeps its code and which of the two its output mentions.

Time passes in seconds. `elapsed` counts those of the present sleep, command or restart, which end at their time.
`work` counts all the others since the last poll of the units: the scan of `scan_root`, the collectors, SQLite, the
constructor, the steps of the sleep that oversleep. A second of work may pass at any statement (`Works`), up to
`WorkTime` between two polls. Units, the journal and the kernel's counter change at any statement too. No time limit is
put on a command's end: `CommandReturns` and `CommandThrows` may simply not happen. `seen`, `oom_reported`, `oom_lost`,
`oom_first`, `after_stop` and the `fate` of a dump are history for the properties. The scan only writes a log line; its time
is all that is modelled of it.

## 3. Runs

| run | instance | checks |
|---|---|---|
| `agent_correlation` | 2 sessions, 2 descriptors, ids 1..2, capacity 1, 2 requests, 1 queued signal, clocks stopped | `TypeOK`, `Correlated`, `OpenActivatesWhatTheUserSaw`, `ReplacesOnlyOwnNotification` |
| `agent_bindings` | 1 session, ids 1..3, capacity 2, lifetime 1, times 0..2 | `CapacityRespected`, `EvictionSparesYounger` |
| `agent_liveness` | 1 session, ids 1..2, capacity 1, lifetime 0, times 0..1, 2 queued signals, fairness | `OpenIsServed`, `StaleSessionsArePruned` |
| `agent_late_close` | 1 session, ids 1..2, 1 queued signal, clocks stopped | `LateCloseIsHarmless`: **violated** |
| `command_result` | shell and two helpers; either only the shell is stubborn, or a helper is too and another is detached; 4 bytes written, limit 2, reads of 2 | `TypeOK`, `OutputIsComplete`, `ExitCodeIsHonest`, `EndsWhenHelpersObey`, `KeepsContract` |
| `command_straggler` | a stubborn helper | `EndsWhenInterrupted`: **violated** |
| `store_operations` | 4 rows, 2 severities, 2 times, batches of 2, limits 2 and 3 of events and 3 of bytes, with and without WAL | `TypeOK`, `AckedIsDurable`, `EvictsLeastImportant`, `CountPruneStopsAtTarget`, `BatchIsAtomic`, `PruneTerminates` |
| `store_byte_limit` | a byte limit only | `PrunesDownToTarget`: **violated** |
| `export_files` | 3 exports of 2 events, overlapping or not | `TypeOK`, `DestIsWhole`, `TmpIsCleanedUp` |
| `health_daemon` | service and one pass; 1 unit, window 3 s, interval, command, work and restart 1 s each, threshold 2, 2 kills (the counter goes from 1 to 3), 1 dump, up to 2 commands | `TypeOK`, `OomKillsAreCountedOnce`, `CoredumpsAreReported`, `SummaryReportsInterruption`, `AtMostOneCommandAfterStop` |
| `health_liveness` | all modes, every view in status checks, window 1 s, 1 kill, no dump, `/proc/kmsg` can be opened, commands need not end, fairness | `FlappingStateIsBounded`, `DiagnosesWhatItSaw`, `VerdictAndExitCodeAgree`, `StopEndsProcess`, `KeepsPolling` |
| `health_rules` | status checks only | `DiagnosesUnitsAndMemory`: **violated** |

Why the bounds are enough. Two sessions and two descriptors are what it takes to confuse one with another; with two ids
the server can keep an id, give a new one, and let another application take one in between, and two requests let a
timed-out call be served after the next one was sent. One queued signal may be older than any number of later steps; the
queue's order matters only among signals, which commute unless they concern one id. The proofs remove these bounds
from every safety property of the project (section 5); what follows is about the runs alone. Capacity 2 with three ids reaches the full table, expiry and eviction
in one call. For the runner, two helpers cover every kind of process beside the shell, and four bytes against a limit
of two reach the limit in and between reads. For the store, four rows exceed both limits and need two DELETEs to
prune; a batch of two has a middle to fail in. Three
exports let one find what a killed one left and a third follow it; two lines are the least that can be cut in half. For
healthd, one command, the interval and the work of an iteration are chosen so that a dump just fits between two polls:
with a window of 2 s, or without the room for work in `PollsFitWindow`, the run finds a missed dump. Two kills let a
poll miss one and the next report both; a second command is what may or may not start after a stop request; the views of
a status check hold every value on either side of a threshold, every optional reading present and absent, and rule files
of every fate. Units do not interact, so one is enough. The liveness run leaves out the dumps, which no statement waits
for.

What the violated runs show:

* **A late close is not harmless** (`SPEC.md` AG-ACT-005 of agent-notification-window-activation says it is). The close
  of a notification waits in the queue while the next event of its session is sent; the server answers with the same id;
  the close is then handled and erases the new binding: *Open* on the visible notification does nothing.
* **A command can outlive its limit** (`README.md`, 60 seconds): SIGKILL depends on the shell being unreaped.
* **A prune by size empties the table** (`EventStore.h`: down to 90%), and again on every later call.
* **Failed units and memory are never diagnosed** (REQ-F-007 of rule-engine): the built-in rules look for `oom_kill`,
  `memory_pressure` and the category `systemd`; the collectors say `oom_killer_invoked`, `memory_pressure_some` and
  `_full`, `memory_used_high` and `systemd.unit`. `DiagnosesWhatItSaw` shows that the other three rules do work.

More disagreements are in the model, without a run of their own: the properties that the runs check and the theorems
state except these cases, and say so.

* **An export that throws leaves its temporary file, and one whose query fails half-way replaces a complete file**
  (REQ-NF-001 of eventstore-retention-export asks for neither). `toJson` throws on text that is not UTF-8, such as a mount
  path (`LineThrows`), as does a failing `remove` (`RemoveThrows`): `TmpIsCleanedUp` is about exports that return. `query`
  takes every end of its loop for the end of the table (`QueryStopsShort`): `DestIsWhole` excepts it.
* **Two exports at a time mix their files** (`EventStore.h`: thread-safe, atomically): they share `<dest>.tmp` outside the
  mutex. `DestIsWhole` is stated under `alone`.
* **The storage rule fires below its target** (rule-engine `SPEC.md`: a value of at least 90). Its conditions have no
  value, so that the collector's threshold, 85 by default, decides. `DiagnosesWhatItSaw` asks for a finding from the
  higher of the two and for none below the threshold, and nothing in between.
* **A status check hides failed collectors** (REQ-F-008 of daemon-status-cli asks for exit code 1), and **a rule file with
  an unknown operator is accepted** (REQ-F-003 of rule-engine asks for a rejection) and can alone make the status
  unhealthy. `VerdictAndExitCodeAgree` leaves the exit code open when a collector failed and no rule fired, and lets a
  mistyped rule count either way.
* **An exception ends the service** (REQ-NF-002 of daemon-status-cli asks for the loop to go on): only the collectors are
  called in a try block, and what `CommandRunner::run` throws ends the process, which systemd starts again.
  `KeepsPolling` is about the service, restarts included.
* **The service can hang in a collector** (REQ-NF-002 of memory-kernel-collector): after an OOM kill `/proc/kmsg` is read
  to its end; where the daemon may open it (as root), a read at the end waits for the next message (`KmsgBlocks`).
  `StopEndsProcess` and `KeepsPolling` suppose by `Unhindered` that this does not last.
* **Without WAL a COMMIT that meets a reader leaves the transaction open** (`BatchCommitBusy`), and later batches fail to
  begin (REQ-F-008 of daemon-eventstore-integration asks for normal operation). `AckedIsDurable` is stated for WAL mode.
* **An exit code of 2 beside an `exit=0` is summarised as success** (`summarize`). `SummaryReportsInterruption` is stated
  for the codes of timeouts, cancellations and signals.
* **With the default configuration a core dump can fall between two polls**: 300 s lie between the polls and 300 s are
  looked back, and an iteration takes time. The configuration does not satisfy `PollsFitWindow`, the hypothesis of
  `CoredumpsAreReported`.
* **Ids are trusted across a restart of the notification server**, which is not in the model.

## 4. Fairness

* `AgentDaemon`: `sd_bus_call` returns within 500 ms, hence weak fairness of the three continuations of a call. The bus
  dispatches the receive queue in order while clients keep calling, hence strong fairness of the two signal handlers: a
  handler is enabled again after each method call, and is not passed over forever. The loop prunes once it finds nothing
  to dispatch (`if (ret_code > 0) continue`), hence weak fairness of `PruneSessions` in behaviours with finitely many
  dispatches, and none in the others: `StaleSessionsArePruned` makes the same exception. Nothing is assumed of the
  server, the user or the clocks.
* `CommandRunner`: the loop keeps running, time passes, and a fatal signal takes effect. Nothing is assumed of the
  command, which may run, write and hold the pipe forever.
* `HealthDaemon`: the statements that end by themselves are executed (`Statements`), time passes while the process sleeps,
  the service manager restarts what failed; and the start does not fail for ever (strong fairness of `Start`), without
  which a service with an unreadable database never polls. A command need not end: `command_straggler` shows that
  neither the deadline nor a stop request makes it. Nor need a read of `/proc/kmsg`. `StopEndsProcess` and `KeepsPolling`
  have that none of these lasts for ever as an explicit hypothesis, `Unhindered`. Nothing is assumed of the watched
  system or of signals.
* `EventStore`: a prune that has begun keeps running; it holds the mutex and waits for nobody.

Deadlock is checked for `AgentDaemon` only: a command that has returned, an export or a process that has ended, a bounded table of rows and a bounded clock come to rest.

## 5. Proofs

`AgentDaemon_proofs` proves, for every set of sessions and descriptors, every number of ids, every capacity, lifetime
and queue bound, from the named assumptions of the modules (`AgentTypesAssumption`, `BindingsAssumption`,
`RegistryAssumption`, `DaemonAssumption`: the absent descriptor is no descriptor, the other application is no session,
bounds are naturals, capacity is positive):

* `TypeCorrect`: `Spec => []TypeOK`;
* `OpenIsNeverMisdirected`: `Spec => []OpenActivatesWhatTheUserSaw`;
* `NotifyReplacesOnlyItsOwn`: `Spec => []ReplacesOnlyOwnNotification`;
* `MemoryAgreesWithScreen`: `Spec => []Correlated`;
* `CapacityBound`: `Spec => []CapacityRespected`;
* `EvictionIsFair`: `Spec => EvictionSparesYounger`, an action property.

Neither the second nor the third is inductive: whether a press raises the right terminal depends on what a queued signal, a
binding, a session, a suspended call and a pending request remember about an id. `Correlated` says that all of them
agree with what the server last showed under that id, that nobody remembers an id the server has not used yet, and that
a request whose caller still waits is the last one and the caller's own. With `TypeOK` it is inductive (`IInvHolds`),
one lemma per action or group of alike actions. The delicate step is `ServerNotify`: the server may show a request under
an old id only if that is the id to be replaced, which `RequestsCorrelated` ties to the same session and descriptor, or
under a fresh id, which nobody remembers. Capacity rests on `ReplaceRespectsCapacity`: eviction makes room before the
insertion, and everything else only removes. Fair eviction needs `AgesInv`, that no binding is from the future: then the
new entry is the youngest, and the victim is as old as whatever stays.

The assumption behind all of it is that the server does not reuse ids within its lifetime. Without it these two
theorems fail: bindings are keyed by the number alone, and nothing watches the owner of the server's name.

`CommandRunner_proofs` proves, for every set of helpers, every assignment of behaviours and all sizes, from
`RunnerAssumption` (the shell is no helper, sizes are naturals, buffers are not empty):

* `TypeCorrect`: `Spec => []TypeOK`, which bounds the output;
* `OutputComplete`: `Spec => []OutputIsComplete`;
* `ExitCodeHonest`: `Spec => []ExitCodeIsHonest`;
* `Implements`: `Spec => KeepsContract`, the refinement of `RunnerContract`.

The properties speak of the returned result; the invariant `IInv` says what leads there: what was read is in the result
up to the limit (`ResultKeepsOutput`), a pipe that was found at its end is empty and nobody holds it (`EndOfPipe`), the
shell runs once and is reaped before the loop calls it finished (`ShellRunsOnce`), whoever was signalled was signalled for
the reason the flags give (`FlagsAreHonest`). `EndOfPipe` is the delicate one: a helper may be forked as long as anyone
holds the pipe, so that the end is final only because nobody does. For the refinement, each step of the loop either leaves
the phase alone or is the contract's launch, return or throw; that a returned outcome is one of the promised ones is
`IInv` again.

`EventStore_proofs` proves, for every number of rows, batch size, limit and set of severities, with and without WAL, from
`StoreAssumption`:

* `TypeCorrect`: `Spec => []TypeOK`;
* `AcknowledgedSurvives`: `Spec => []AckedIsDurable`;
* `LeastImportantGoFirst`: `Spec => []EvictsLeastImportant`;
* `CountPruneIsExact`: `Spec => []CountPruneStopsAtTarget`;
* `BatchesAreAtomic`: `Spec => BatchIsAtomic`, an action property;
* `PruneMakesProgress`: `Spec => PruneProgresses`: each step of a capacity prune ends it or leaves fewer rows. This is
  what `PruneTerminates` needs beside fairness.

`IInv` adds to the properties that the AUTOINCREMENT counter is ahead of every id (`Sound`: an INSERT adds a row, it never
overwrites one), that outside a transaction the connection sees what is committed (`Isolated`), and that a batch under
way has added as many rows as it has inserted, none of them committed (`BatchUnderWay`). The second half of `Isolated`
holds only in WAL mode, which is where `AckedIsDurable` gets its condition from.

`EventExport_proofs` proves, for every number of exports and of events, from `ExportAssumption`:

* `TypeCorrect`: `Spec => []TypeOK`;
* `DestinationIsWhole`: `Spec => []DestIsWhole`;
* `ReturnCleansUp`: `Spec => []TmpIsCleanedUp`, for overlapping exports too.

`FileInv` is enough for the last: a temporary file has an export that is writing it, is about to rename it, or was left
by an exception or a kill (`TmpHasReason`); error paths that return remove it, whoever's it is. `DestinationIsWhole` rests on `IInv`,
which holds as long as no export has begun beside another (`AloneInvHolds`): then at most one is under way
(`OneAtATime`), the file it has open is the one with the temporary name and holds the lines written so far, in order
(`Staged`), and the temporary name and the destination are never the same inode (`NamesAreDistinct`): a rename makes
whole what was closed with everything found (`Whole`). Of that `DestIsWhole` is the part in which every exported query
found everything. Both conditions are needed: TLC finds a torn or a shortened file when one is dropped.

`HealthDaemon_proofs` proves, for every configuration, view, rule file, list of commands and time, from
`HealthAssumption`, `ViewAssumption`, `SystemdAssumption` and `StorageAssumption` (times are naturals and the interval is
positive, views have the shape their collector reads):

* `TypeCorrect`: `Spec => []TypeOK`;
* `OomKillsCounted`: `Spec => []OomKillsAreCountedOnce`, with `OomInv`: before the first good reading nothing is counted,
  and after it both readings are numbers whose distance is accounted for;
* `OneCommandAfterStop`: `Spec => []AtMostOneCommandAfterStop`, with `StopInv`: whoever is about to launch has not launched
  after the request before;
* `SummaryIsHonest`: `Spec => []SummaryReportsInterruption`, with `SummaryInv`: a summary exists only where results no
  longer change, and every code of an interruption begins with the digit it looks for.

`HealthTimes_proofs` proves the two properties about time, for every window, interval and number of commands:

* `FlappingStateStaysSmall`: `Spec => []FlappingStateIsBounded`. The ages kept are at least an interval apart (`Spaced`),
  because a service polls, sleeps and polls again, and none is above the window; so `age \div interval` tells them apart
  and takes at most `Window \div interval + 1` values;
* `NoCoredumpIsMissed`: `Spec => []CoredumpsAreReported`. `DumpAges` says, for each statement of the process, how old a
  dump can be that no poll has decided: what the commands run so far, the sleep or the restart, and the work between
  them have taken since. `PollsFitWindow` keeps that within the window, and is part of the property.

`HealthDiagnosis_proofs` proves what a pass makes of the views:

* `DiagnosisIsExact`: `ASSUME IdsAreTheirOwn PROVE Spec => []DiagnosesWhatItSaw`, in both directions: a diagnosis is made
  if its collector saw the reason and only then (for storage the proof goes through the code's own threshold). The events of a category are those of the views that were seen,
  whichever other collector failed (`EventsInv`), each collector having a category of its own; the findings are what the
  rules in force say of them (`FindingsInv`, `RulesInv`); and for each of the three rules a lemma relates its conditions
  to the reading, for the percentages with their rounding;
* `VerdictIsHonest`: `Spec => []VerdictAndExitCodeAgree`: a verdict counts findings and the exit code looks for one, which
  comes to the same since the rules, and so the findings, are finite. Its invariant `VerdictInv` says more than the
  property: what the code does also with failed collectors and mistyped rules.

`IdsAreTheirOwn` says that no rule file uses one of the three built-in ids. It is needed: `loadRulesFromDirectory` rejects
no duplicates, and a rule of the same id makes the diagnosis for reasons of its own. In the runs no file does.

Three statements changed because a proof of them failed. `CoredumpsAreReported` is now about units that are not ignored:
the dump of an ignored one is skipped, not reported. The condition under which a file system counts as full had left out
a threshold of 0. And the time points of a unit were first modelled with repetitions, which no behaviour has.

Left to TLC: the liveness properties `OpenIsServed`, `StaleSessionsArePruned`, `EndsWhenHelpersObey`, `PruneTerminates`,
`StopEndsProcess` and `KeepsPolling`, because fairness is beyond the prover, and the violated runs, which are
counterexamples. Every invariant and every action property of a passing run is stated by a theorem.

## 6. Plan

1. `EventStore`: which rows `query` selects and in which order, against a reference definition.
2. An abstract specification of the bindings ("a bounded map from what is on the screen to terminals") and the proof that
   `AgentDaemon` implements it.
3. What the remaining liveness properties need beside fairness, as action properties with proofs, in the way of
   `PruneMakesProgress`.

## 7. Not modelled

* **Configuration** (`libs/config/Application.cpp`): parsing and validation before the start, no state afterwards. Its
  values are CONSTANTS, its failure is `StartFails`.
* **FilesystemScanner**, **Logger**: a log line on which nothing depends; the time of the scan is in `Works`.
* **ProcessAncestryReader**, **ProviderNormalizer**, **AgentActivity** conversions, **hn-agent-event**: stateless
  translations of `/proc`, provider hooks and arguments into the inputs of `AgentDaemon`'s methods, which the model takes
  as arbitrary.
* **hn-agent-run**: its two calls are actions of `AgentDaemon`; fork, exec and wait are not modelled.
* Of **EventStore**: the rows a filter selects, the conversion of values, `checkpointWal`. Of **ObservationEvent**: JSON.
* Formatting and parsing throughout, pid reuse, a system clock set back under the systemd collector, power failures.
