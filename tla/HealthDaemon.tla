------------------------------ MODULE HealthDaemon ------------------------------
(***************************************************************************)
(* libs/health/Daemon.cpp, HealthCheckJob.cpp, LlmClient.cpp and           *)
(* apps/healthd/main.cpp: the loop that polls the collectors, stores and   *)
(* diagnoses their events and runs the configured commands, beside the     *)
(* system it watches, the signal handler and the service manager.          *)
(*                                                                         *)
(* `pc` is the statement the process is at.  The commands are run through  *)
(* the contract that CommandRunner implements.                             *)
(***************************************************************************)
EXTENDS RuleEngine, SystemdCollector, StorageCollector, MemoryCollector,
        PacmanCollector, FiniteSets

CONSTANTS
  Modes,            \* the ways the process is started: loop, once, status
  CommandLists,     \* for each mode, how many commands may be configured
  ExitCodes,        \* the codes a command may end with
  Mentions,         \* which of "exit=0" and "exit=1" its output may hold
  RuleDirectories,  \* for each mode, what rules_dir may hold: sets of files
  StorageViews,     \* for each mode, what the storage collector may find
  MemoryViews,      \* for each mode, what PSI and meminfo may say
  PacmanViews,      \* for each mode, what the pacman collector may find
  interval,         \* seconds between iterations
  CommandTime,      \* bound: seconds a command takes, 60 in the code
  WorkTime,         \* bound: seconds that the scan, the collectors, the store,
                    \* the start and waits that last longer add between two polls
  RestartSec,       \* seconds until the service manager starts it again
  KmsgBlocks,       \* /proc/kmsg can be opened: reading it to its end blocks
  MaxOom,           \* bound: value of the kernel's counter
  MaxDumps          \* bound: core dumps that the journal is asked about

ASSUME HealthAssumption ==
  /\ Modes \subseteq {"loop", "once", "status"}
  /\ \A m \in Modes : CommandLists[m] \subseteq Nat
  /\ ExitCodes \subseteq 0..255
  /\ Mentions \subseteq SUBSET {"exit=0", "exit=1"}
  /\ {interval, RestartSec, WorkTime} \subseteq Nat \ {0}
  /\ {CommandTime, MaxOom, MaxDumps} \subseteq Nat
  /\ KmsgBlocks \in BOOLEAN

\* What statvfs reports, what /proc numbers its processes from, and that a
\* directory is finite.
ASSUME ViewAssumption ==
  \A m \in Modes :
    /\ \A view \in StorageViews[m] : \A path \in Targets(view) : \A s \in view.statvfs[path] :
         /\ {s.total, s.available, s.inodes, s.free_inodes} \subseteq Nat
         /\ s.available <= s.total
    /\ \A view \in PacmanViews[m] : view.processes \subseteq Nat \ {0}
    /\ \A files \in RuleDirectories[m] :
         IsFiniteSet(files) /\ \A f \in files : IsFiniteSet(f.rule_id)

VARIABLES
  \* the process
  pc, mode, commands, rules_, events, findings,
  command,          \* commands of this iteration that were started
  results,          \* what those that returned left in the summary's input
  summary,          \* the last summary: none, success or review
  exit_code,        \* none while the process runs
  overall_status,   \* of the status report: none, OK or UNHEALTHY
  runner, outcome,  \* the call of CommandRunner::run
  stop_requested,
  elapsed,          \* seconds in the present sleep, command or restart
  work,             \* seconds spent otherwise since the last poll
  \* the system it watches
  units,            \* active or failed
  journal,          \* core dumps: [subject, age, fate]
  oom_kill,         \* the kernel's counter
  \* history
  seen,             \* the views the collectors had that did not fail
  oom_reported,     \* kills that events have reported
  oom_lost,         \* kills counted by a collection that failed
  oom_first,        \* the first baseline of this process
  after_stop        \* commands started since the stop request

processVars == <<mode, commands, rules_>>
jobVars     == <<command, results, summary, runner, outcome, after_stop>>
endVars     == <<exit_code, overall_status>>
oomVars     == <<baseline_oom_kill, oom_reported, oom_lost, oom_first>>
worldVars   == <<units, journal, oom_kill>>
vars == <<pc, processVars, events, findings, jobVars, endVars, stop_requested,
          elapsed, work, flapping_state, oomVars, worldVars, seen>>

At(here) == pc = here

Runner == INSTANCE RunnerContract WITH phase <- runner

Nothing == [units |-> {}, storage |-> {}, memory |-> {}, pacman |-> {}]

Dump == [subject : Units, age : 0..(Window + 1), fate : {"pending", "reported", "excused"}]

\* History: the pending dumps in `set` are given a fate.
Fated(set, fate) ==
  {IF d \in set /\ d.fate = "pending" THEN [d EXCEPT !.fate = fate] ELSE d : d \in journal}

-------------------------------------------------------------------------------
(* Start and end of the process. *)

\* The constructor: custom rules are added to the built-in ones.
Start ==
  /\ At("starting")
  /\ \E files \in RuleDirectories[mode] :
       rules_' = registerBuiltInRules \cup loadRulesFromDirectory(files)
  /\ pc' = "systemd"
  /\ UNCHANGED <<mode, commands, events, findings, jobVars, endVars, stop_requested,
                 elapsed, work, flapping_state, oomVars, worldVars, seen>>

\* The configuration or the database cannot be opened: main returns 1.
StartFails ==
  /\ At("starting")
  /\ pc' = "failed"
  /\ exit_code' = {1}
  /\ elapsed' = 0
  /\ journal' = Fated(journal, "excused")
  /\ UNCHANGED <<processVars, events, findings, jobVars, overall_status, stop_requested,
                 flapping_state, oomVars, units, oom_kill, seen, work>>

\* Restart=on-failure: a new process, unless the service was being stopped.
IsRestarted == At("failed") /\ mode = "loop" /\ ~stop_requested

Restart ==
  /\ IsRestarted
  /\ elapsed = RestartSec
  /\ pc' = "starting"
  /\ exit_code' = {} /\ elapsed' = 0
  /\ events' = {} /\ findings' = {} /\ seen' = Nothing /\ rules_' = {}
  /\ command' = 0 /\ results' = {} /\ summary' = "none"
  /\ runner' = "idle" /\ outcome' = Runner!NoOutcome
  /\ flapping_state' = [u \in Units |-> {}]
  /\ baseline_oom_kill' = {} /\ oom_first' = {} /\ oom_reported' = 0 /\ oom_lost' = 0
  /\ UNCHANGED <<mode, commands, overall_status, stop_requested, after_stop, worldVars, work>>

-------------------------------------------------------------------------------
(* collectAllEvents: each collector in a try block of its own. *)

Collected(here, next, new, view) ==
  /\ At(here)
  /\ pc' = next
  /\ events' = events \cup new
  /\ seen' = [seen EXCEPT ![here] = view]

\* The bus, the reply and the journal may each be out of reach.
CollectSystemd ==
  /\ At("systemd")
  /\ pc' = "storage"
  /\ \/ /\ flapping_state' = pruneOldTimestamps
        /\ journal' = Fated(Dumps(journal), "excused")
        /\ UNCHANGED <<events, seen>>
     \/ \E listed \in SUBSET Units, readable \in BOOLEAN :
          LET failed == Failed(listed, units)
          IN  /\ flapping_state' = Counted(failed)
              /\ events' = events \cup collectUnitEvents(failed)
                             \cup When(readable, collectCoredumpEvents(journal))
              /\ journal' = Fated(Dumps(journal), IF readable THEN "reported" ELSE "excused")
              /\ seen' = [seen EXCEPT !.units = {failed}]
  /\ work' = 0
  /\ UNCHANGED <<processVars, findings, jobVars, endVars, stop_requested, elapsed,
                 oomVars, units, oom_kill>>

\* An exception after the units were counted, such as a dump whose executable
\* has a name that is not UTF-8.
SystemdFails ==
  /\ At("systemd")
  /\ pc' = "storage"
  /\ \E listed \in SUBSET Units : flapping_state' = Counted(Failed(listed, units))
  /\ journal' = Fated(Dumps(journal), "excused")
  /\ work' = 0
  /\ UNCHANGED <<processVars, events, findings, jobVars, endVars, stop_requested, elapsed,
                 oomVars, units, oom_kill, seen>>

CollectStorage ==
  /\ \E view \in StorageViews[mode] :
       Collected("storage", "memory", StorageEvents(view), {view})
  /\ UNCHANGED <<processVars, findings, jobVars, endVars, stop_requested, elapsed, work,
                 flapping_state, oomVars, worldVars>>

StorageFails ==
  /\ Collected("storage", "memory", {}, {})
  /\ UNCHANGED <<processVars, findings, jobVars, endVars, stop_requested, elapsed, work,
                 flapping_state, oomVars, worldVars>>

\* What /proc/vmstat says: the counter, or nothing.
Counter == {{}, {oom_kill}}

New(counter) == IF Delta(counter) = {} THEN 0 ELSE CHOOSE d \in Delta(counter) : TRUE

FirstBaseline(counter) == IF oom_first = {} THEN counter ELSE oom_first

\* A kill makes the collector read proc_root/kmsg to its end, with the baseline
\* moved and no event made yet.
CollectMemory ==
  /\ \E view \in MemoryViews[mode], counter \in Counter :
       LET blocks == KmsgBlocks /\ New(counter) > 0
       IN  /\ Collected("memory", IF blocks THEN "kmsg" ELSE "pacman",
                        When(~blocks, MemoryEvents(view, counter)), When(~blocks, {view}))
           /\ parseVmstatOom(counter)
           /\ oom_reported' = oom_reported + (IF blocks THEN 0 ELSE New(counter))
           /\ oom_lost' = oom_lost + (IF blocks THEN New(counter) ELSE 0)
           /\ oom_first' = FirstBaseline(counter)
  /\ UNCHANGED <<processVars, findings, jobVars, endVars, stop_requested, elapsed, work,
                 flapping_state, worldVars>>

\* An exception after the baseline was moved, such as a victim whose name is
\* not UTF-8.
MemoryFails ==
  /\ Collected("memory", "pacman", {}, {})
  /\ \E counter \in Counter :
       /\ parseVmstatOom(counter)
       /\ oom_lost' = oom_lost + New(counter)
       /\ oom_first' = FirstBaseline(counter)
  /\ UNCHANGED <<processVars, findings, jobVars, endVars, stop_requested, elapsed, work,
                 flapping_state, oom_reported, worldVars>>

AfterCollecting == IF mode = "status" THEN "diagnose" ELSE "store"

CollectPacman ==
  /\ \E view \in PacmanViews[mode] :
       Collected("pacman", AfterCollecting, PacmanEvents(view), {view})
  /\ UNCHANGED <<processVars, findings, jobVars, endVars, stop_requested, elapsed, work,
                 flapping_state, oomVars, worldVars>>

\* An exception inside the collector, such as a directory that vanishes while
\* it is listed: collect catches it and returns no events.
PacmanFails ==
  /\ Collected("pacman", AfterCollecting, {}, {})
  /\ UNCHANGED <<processVars, findings, jobVars, endVars, stop_requested, elapsed, work,
                 flapping_state, oomVars, worldVars>>

-------------------------------------------------------------------------------
(* runIteration, after the collection. *)

\* insertBatch, pruneEvents and pruneEventsByCapacity: a failure of any of them
\* is logged, and changes nothing here.
StoreEvents ==
  /\ At("store")
  /\ pc' = "diagnose"
  /\ UNCHANGED <<processVars, events, findings, jobVars, endVars, stop_requested, elapsed,
                 work, flapping_state, oomVars, worldVars, seen>>

Diagnose ==
  /\ At("diagnose")
  /\ findings' = evaluate(rules_, events)
  /\ pc' = IF mode = "status" THEN "report" ELSE "log"
  /\ UNCHANGED <<processVars, events, jobVars, endVars, stop_requested, elapsed, work,
                 flapping_state, oomVars, worldVars, seen>>

\* The findings are logged; nothing uses them or the events afterwards.
LogFindings ==
  /\ At("log")
  /\ pc' = "job"
  /\ events' = {} /\ findings' = {} /\ seen' = Nothing
  /\ UNCHANGED <<processVars, jobVars, endVars, stop_requested, elapsed, work, flapping_state,
                 oomVars, worldVars>>

\* The number of findings of a severity.
countFindingSeverities(severity) == Cardinality({f \in findings : f.severity = severity})

\* Mutant of is_unhealthy: critical findings are forgotten.
is_unhealthy_errors == countFindingSeverities(Error) > 0

is_unhealthy == countFindingSeverities(Critical) > 0 \/ countFindingSeverities(Error) > 0

\* runStatusCheck: the report's verdict, and the exit code beside it.
Report ==
  /\ At("report")
  /\ overall_status' = IF is_unhealthy THEN "UNHEALTHY" ELSE "OK"
  /\ exit_code' = {IF \E f \in findings : f.severity \in {Error, Critical} THEN 1 ELSE 0}
  /\ pc' = "exited"
  /\ UNCHANGED <<processVars, events, findings, jobVars, stop_requested, elapsed, work,
                 flapping_state, oomVars, worldVars, seen>>

-------------------------------------------------------------------------------
(* HealthCheckJob::run and the summary. *)

\* Mutant of RunCommand: the stop request is not looked at.
RunCommand_always ==
  /\ At("job")
  /\ command < commands
  /\ pc' = "launch"
  /\ command' = command + 1
  /\ UNCHANGED <<processVars, events, findings, results, summary, runner, outcome, after_stop,
                 endVars, stop_requested, elapsed, work, flapping_state, oomVars, worldVars, seen>>

\* Mutant of RunCommand: the loop goes one past the last command.
RunCommand_one_more ==
  /\ At("job")
  /\ command <= commands
  /\ ~stop_requested
  /\ pc' = "launch"
  /\ command' = command + 1
  /\ UNCHANGED <<processVars, events, findings, results, summary, runner, outcome, after_stop,
                 endVars, stop_requested, elapsed, work, flapping_state, oomVars, worldVars, seen>>

\* The flag is looked at before each command, and by the runner during it.
RunCommand ==
  /\ At("job")
  /\ command < commands
  /\ ~stop_requested
  /\ pc' = "launch"
  /\ command' = command + 1
  /\ UNCHANGED <<processVars, events, findings, results, summary, runner, outcome, after_stop,
                 endVars, stop_requested, elapsed, work, flapping_state, oomVars, worldVars, seen>>

Launch ==
  /\ At("launch")
  /\ Runner!Launch
  /\ after_stop' = after_stop + (IF stop_requested THEN 1 ELSE 0)
  /\ elapsed' = 0
  /\ pc' = "running"
  /\ UNCHANGED <<processVars, events, findings, command, results, summary, endVars,
                 flapping_state, oomVars, worldVars, seen, work>>

CommandReturns ==
  /\ At("running")
  /\ \E o \in Runner!Outcomes : Runner!Return(o)
  /\ UNCHANGED <<pc, processVars, events, findings, command, results, summary, after_stop,
                 endVars, elapsed, work, flapping_state, oomVars, worldVars, seen>>

\* Mutant of CommandThrows: main reports success all the same.
CommandThrows_clean ==
  /\ At("running") \/ At("launch")
  /\ Runner!Throw
  /\ pc' = "exited"
  /\ exit_code' = {0}
  /\ elapsed' = 0
  /\ UNCHANGED <<processVars, events, findings, command, results, summary, after_stop,
                 overall_status, flapping_state, oomVars, worldVars, seen, work>>

\* The exception passes through the job, the iteration and run() to main.
CommandThrows ==
  /\ At("running") \/ At("launch")
  /\ Runner!Throw
  /\ pc' = "failed"
  /\ exit_code' = {1}
  /\ elapsed' = 0
  /\ UNCHANGED <<processVars, events, findings, command, results, summary, after_stop,
                 overall_status, flapping_state, oomVars, worldVars, seen, work>>

TakeResult ==
  /\ At("running") /\ runner = "returned"
  /\ \E m \in Mentions :
       results' = results \cup {[exit_code |-> outcome.exit_code, mentions |-> m]}
  /\ runner' = "idle" /\ outcome' = Runner!NoOutcome
  /\ pc' = "job"
  /\ UNCHANGED <<processVars, events, findings, command, summary, after_stop, endVars,
                 stop_requested, elapsed, work, flapping_state, oomVars, worldVars, seen>>

\* The decimal digits of a code below 256 begin with 1.
BeginsWithOne(code) == \E power \in {1, 10, 100} : code \div power = 1

\* resultsToText: which of "exit=0" and "exit=1" are found in the text, be it
\* as the beginning of an exit code or in what a command printed.
resultsToText ==
  UNION {r.mentions
           \cup When(r.exit_code = 0, {"exit=0"})
           \cup When(BeginsWithOne(r.exit_code), {"exit=1"}) : r \in results}

\* Mutant of summarize: only a success is looked for.
summarize_optimistic(text) == IF "exit=0" \in text THEN "success" ELSE "review"

summarize(text) ==
  IF "exit=0" \in text /\ "exit=1" \notin text THEN "success" ELSE "review"

\* All commands were run, or the stop request ended the loop over them; what
\* was left out is not in the text.  Nothing is said when there are none.
JobEnds ==
  /\ At("job")
  /\ command = commands \/ stop_requested
  /\ summary' = IF commands = 0 THEN "none" ELSE summarize(resultsToText)
  /\ pc' = "rest"
  /\ UNCHANGED <<processVars, events, findings, command, results, runner, outcome, after_stop,
                 endVars, stop_requested, elapsed, work, flapping_state, oomVars, worldVars, seen>>

-------------------------------------------------------------------------------
(* Daemon::run, between iterations. *)

Exits ==
  /\ pc' = "exited"
  /\ exit_code' = {0}
  /\ UNCHANGED <<command, results, summary, elapsed>>

\* Mutant of Rests: the mode is not looked at.
Rests_in_any_mode ==
  /\ At("rest")
  /\ IF stop_requested
     THEN Exits
     ELSE /\ pc' = "sleep"
          /\ command' = 0 /\ results' = {} /\ summary' = "none"
          /\ elapsed' = 0
          /\ UNCHANGED exit_code
  /\ UNCHANGED <<processVars, events, findings, runner, outcome, after_stop, overall_status,
                 stop_requested, flapping_state, oomVars, worldVars, seen, work>>

Rests ==
  /\ At("rest")
  /\ IF mode = "once" \/ stop_requested
     THEN Exits
     ELSE /\ pc' = "sleep"
          /\ command' = 0 /\ results' = {} /\ summary' = "none"
          /\ elapsed' = 0
          /\ UNCHANGED exit_code
  /\ UNCHANGED <<processVars, events, findings, runner, outcome, after_stop, overall_status,
                 stop_requested, flapping_state, oomVars, worldVars, seen, work>>

\* The sleep is taken in steps of 100 ms, each of which looks at the flag.
Wakes ==
  /\ At("sleep")
  /\ IF stop_requested
     THEN Exits
     ELSE /\ elapsed = interval
          /\ pc' = "systemd"
          /\ elapsed' = 0
          /\ UNCHANGED <<exit_code, command, results, summary>>
  /\ UNCHANGED <<processVars, events, findings, runner, outcome, after_stop, overall_status,
                 stop_requested, flapping_state, oomVars, worldVars, seen, work>>

-------------------------------------------------------------------------------
(* The system (external). *)

TimeLimit ==
  CASE At("sleep")   -> interval
    [] IsRestarted   -> RestartSec
    [] At("running") /\ runner = "running" -> CommandTime
    [] OTHER -> 0

\* A second passes.  Of the dumps that left the window the reported and excused
\* are forgotten.
SecondPasses ==
  /\ Aged(1)
  /\ journal' = {d \in {[e EXCEPT !.age = IF @ > Window THEN @ ELSE @ + 1] : e \in journal} :
                   d.age <= Window \/ d.fate = "pending"}

\* A second of the sleep, of a command or of the time until a restart.
Tick ==
  /\ elapsed < TimeLimit
  /\ elapsed' = elapsed + 1
  /\ SecondPasses
  /\ UNCHANGED <<pc, processVars, events, findings, jobVars, endVars, stop_requested, work,
                 oomVars, units, oom_kill, seen>>

Alive == ~At("exited")

\* The process runs or is about to be started again.
InService == pc \notin {"exited", "failed"} \/ IsRestarted

\* A second of anything else: FilesystemScanner::scan, a collector, SQLite, the
\* constructor, and what the steps of a sleep or the start of a command take
\* beyond their time.
Works ==
  /\ InService
  /\ work < WorkTime
  /\ work' = work + 1
  /\ SecondPasses
  /\ UNCHANGED <<pc, processVars, events, findings, jobVars, endVars, stop_requested, elapsed,
                 oomVars, units, oom_kill, seen>>

UnitChanges ==
  /\ InService
  /\ \E u \in Units : units' = [units EXCEPT ![u] = IF @ = "failed" THEN "active" ELSE "failed"]
  /\ UNCHANGED <<pc, processVars, events, findings, jobVars, endVars, stop_requested, elapsed,
                 work, flapping_state, oomVars, journal, oom_kill, seen>>

ProcessDumps ==
  /\ InService
  /\ Cardinality(journal) < MaxDumps
  /\ \E u \in Units : journal' = journal \cup {[subject |-> u, age |-> 0, fate |-> "pending"]}
  /\ UNCHANGED <<pc, processVars, events, findings, jobVars, endVars, stop_requested, elapsed,
                 work, flapping_state, oomVars, units, oom_kill, seen>>

KernelKills ==
  /\ InService
  /\ oom_kill < MaxOom
  /\ oom_kill' = oom_kill + 1
  /\ UNCHANGED <<pc, processVars, events, findings, jobVars, endVars, stop_requested, elapsed,
                 work, flapping_state, oomVars, units, journal, seen>>

\* SIGINT or SIGTERM; a status check does not look at the flag.
handleSignal ==
  /\ Alive
  /\ Runner!StopRequested
  /\ UNCHANGED <<pc, processVars, events, findings, command, results, summary, after_stop,
                 endVars, elapsed, work, flapping_state, oomVars, worldVars, seen>>

-------------------------------------------------------------------------------
Init ==
  /\ pc = "starting"
  /\ mode \in Modes /\ commands \in CommandLists[mode]
  /\ rules_ = {} /\ events = {} /\ findings = {} /\ seen = Nothing
  /\ command = 0 /\ results = {} /\ summary = "none"
  /\ exit_code = {} /\ overall_status = "none"
  /\ runner = "idle" /\ outcome = Runner!NoOutcome /\ stop_requested = FALSE
  /\ after_stop = 0 /\ elapsed = 0 /\ work = 0
  /\ SystemdInit /\ MemoryInit
  /\ units = [u \in Units |-> "active"] /\ journal = {}
  /\ oom_kill = 1 /\ oom_reported = 0 /\ oom_lost = 0 /\ oom_first = {}

\* The statements that end by themselves.
Statements ==
  \/ Start \/ StartFails
  \/ CollectSystemd \/ SystemdFails \/ CollectStorage \/ StorageFails
  \/ CollectMemory \/ MemoryFails \/ CollectPacman \/ PacmanFails
  \/ StoreEvents \/ Diagnose \/ LogFindings \/ Report
  \/ RunCommand \/ Launch \/ TakeResult \/ JobEnds
  \/ Rests \/ Wakes

Process == Statements \/ CommandReturns \/ CommandThrows

System == Tick \/ Works \/ UnitChanges \/ ProcessDumps \/ KernelKills \/ handleSignal

Next == Process \/ Restart \/ System

\* The process runs, time passes while it sleeps, the service manager restarts
\* what failed, and the start does not fail for ever.  Nothing says that a
\* command ends: CommandRunner::run waits for every process that holds the pipe.
Fairness == WF_vars(Statements) /\ WF_vars(Tick) /\ WF_vars(Restart) /\ SF_vars(Start)

Spec == Init /\ [][Next]_vars /\ Fairness

-------------------------------------------------------------------------------
(* Properties. *)

\* Type correctness of the process, of the calls it makes and of what it watches.
TypeOK ==
  /\ pc \in {"starting", "systemd", "storage", "memory", "kmsg", "pacman", "store", "diagnose",
              "log", "report", "job", "launch", "running", "rest", "sleep", "exited", "failed"}
  /\ mode \in Modes /\ commands \in CommandLists[mode]
  /\ command \in 0..commands /\ after_stop \in Nat
  /\ summary \in {"none", "success", "review"}
  /\ exit_code \subseteq {0, 1} /\ overall_status \in {"none", "OK", "UNHEALTHY"}
  /\ runner \in {"idle", "running", "returned", "threw"}
  /\ outcome \in Runner!Outcomes \cup {Runner!NoOutcome}
  /\ stop_requested \in BOOLEAN /\ elapsed \in Nat /\ work \in Nat
  /\ units \in [Units -> {"active", "failed"}] /\ journal \subseteq Dump
  /\ flapping_state \in [Units -> SUBSET Nat]
  /\ {oom_kill, oom_reported, oom_lost} \subseteq Nat
  /\ baseline_oom_kill \subseteq Nat /\ oom_first \subseteq Nat

\* Every OOM kill between the first and the last good reading of the counter is
\* in exactly one event, whatever readings failed in between; only a collection
\* that fails after moving the baseline loses kills (parseVmstatOom).
OomKillsAreCountedOnce ==
  /\ oom_first = {} <=> baseline_oom_kill = {}
  /\ \A first \in oom_first, last \in baseline_oom_kill :
       oom_reported + oom_lost = last - first

\* The commands together with the sleep, or with a restart, fit the window and
\* leave room for the rest of an iteration: the default of 300 s for both the
\* interval and the window does not.
PollsFitWindow ==
  /\ ~KmsgBlocks
  /\ commands * CommandTime + interval + WorkTime <= Window
  /\ commands * CommandTime + RestartSec + WorkTime <= Window

\* Provided that the time between two polls fits the window (every command ends
\* within CommandTime, and the rest of an iteration takes at most WorkTime), the
\* service looks at the core dump of a unit that is not ignored before it leaves
\* the window, restarts after a thrown exception included.  A dump is excused
\* from being reported when a poll that had it in its window could not read the
\* journal or failed altogether, and when the process could not be started
\* again (collectCoredumpEvents, Daemon::run).
CoredumpsAreReported ==
  mode = "loop" /\ PollsFitWindow =>
    \A d \in journal : d.age > Window /\ ~isUnitIgnored(d.subject) => d.fate # "pending"

\* The time points kept for a unit do not pile up in a process that runs for
\* months: at most the polls of one window (pruneOldTimestamps).
FlappingStateIsBounded ==
  \A u \in Units : Cardinality(flapping_state[u]) <= Window \div interval + 1

Diagnosed == pc \in {"report", "log"}

Found(rule_id) == \E f \in findings : f.rule_id = rule_id

\* At a threshold of 0 whatever could be inspected is under pressure.
Under(used, of, threshold) == threshold = 0 \/ (of > 0 /\ 100 * used >= threshold * of)

\* A file system whose space or inodes are used to `threshold` percent was seen.
SawUsage(threshold) ==
  \E view \in seen.storage : \E path \in Targets(view) : \E s \in view.statvfs[path] :
    \/ Under(s.total - s.available, s.total, threshold)
    \/ Under(s.inodes - s.free_inodes, s.inodes, threshold)

\* The usage that RULE-STORAGE-001 asks for in docs/sdd/rule-engine/SPEC.md.
StorageTarget == 90

\* A kernel without its modules and a lock without an owner are diagnosed if and
\* only if the collector concerned saw them, and a file system that is as full
\* as both the rule's specification and the configured threshold ask for is,
\* one below the threshold is not, whatever failed beside it: another collector,
\* the store, a rule file, a file name in /etc that is not UTF-8
\* (collectAllEvents, runIteration, evaluate).  Between the threshold and the
\* target of 90 the code diagnoses it and the specification does not.
DiagnosesWhatItSaw ==
  Diagnosed =>
    /\ SawUsage(IF storage_warning > StorageTarget THEN storage_warning ELSE StorageTarget)
         => Found("RULE-STORAGE-001")
    /\ Found("RULE-STORAGE-001") => SawUsage(storage_warning)
    /\ Found("RULE-KERNEL-001") <=>
         \E view \in seen.pacman :
           /\ view.db_exists /\ "kernel" \in checks
           /\ \E k \in view.running_kernel, dirs \in view.modules : k \notin dirs
    /\ Found("RULE-PACMAN-001") <=>
         \E view \in seen.pacman :
           /\ view.db_exists /\ "locks" \in checks
           /\ view.lock_exists /\ view.lock_pid \cap view.processes = {}

\* "RuleEngine shall include built-in default diagnostic rules for [...] memory
\* pressure and OOM events, and systemd unit failures" (docs/sdd/rule-engine/
\* SPEC.md): what those collectors saw is diagnosed.
DiagnosesUnitsAndMemory ==
  Diagnosed =>
    /\ UNION seen.units # {} => Found("RULE-SYSTEMD-001")
    /\ (\E e \in events : e.category = "memory") => Found("RULE-MEMORY-001")

\* The rules of severity error or above that are satisfied.
ErrorRules ==
  {rule \in rules_ : rule.severity >= Error /\ rule.conditions # {} /\ Satisfied(rule, events)}

\* The ids of rule files with a condition whose operator is unknown.
Mistyped ==
  {id \in UNION {f.rule_id : f \in UNION RuleDirectories[mode]} :
     \E f \in UNION RuleDirectories[mode] :
       /\ id \in f.rule_id
       /\ \E item \in f.conditions : \E op \in item.value_operator : op \notin MatchOperator}

CollectorFailed == {} \in {seen.units, seen.storage, seen.memory, seen.pacman}

Reported == At("exited") /\ mode = "status"

\* The verdict a status report prints and the exit code it ends with are made by
\* different code and agree.  A satisfied rule of severity error or above makes
\* the report unhealthy, and nothing else does; an unhealthy report ends with 1,
\* and no other does (formatStatusReport, runStatusCheck).  Left open is what the
\* specifications ask for and the code does not do: exit code 1 when a collector
\* failed (REQ-F-008 of docs/sdd/daemon-status-cli/SPEC.md), and no rule with an
\* unknown operator (REQ-F-003 of docs/sdd/rule-engine/SPEC.md).
VerdictAndExitCodeAgree ==
  Reported =>
    /\ (\E rule \in ErrorRules : rule.rule_id \notin Mistyped) => overall_status = "UNHEALTHY"
    /\ overall_status = "UNHEALTHY" => ErrorRules # {} /\ exit_code = {1}
    /\ exit_code = {1} /\ ~CollectorFailed => overall_status = "UNHEALTHY"

\* The summary never claims success when a command was cancelled, timed out,
\* could not be started or was killed: their codes, and only by that 1 and the
\* codes up to 199, all begin with the digit it looks for (summarize).
SummaryReportsInterruption ==
  summary = "success" => \A r \in results : r.exit_code \notin {124, 125, 127} \cup 129..192

\* At most one command is started once a stop was requested, the one whose check
\* of the flag came before (HealthCheckJob::run).
AtMostOneCommandAfterStop == after_stop <= 1

Over == pc \in {"exited", "failed"}

\* No command keeps CommandRunner::run from returning for ever, which one with a
\* helper that ignores SIGTERM can, and no read of /proc/kmsg hangs.
Unhindered == []<>(runner # "running") /\ []<>~At("kmsg")

\* A process that is asked to stop, and one that was started for one pass, ends,
\* if nothing hinders it: neither the loops nor the sleep outlast the request
\* (Daemon::run, HealthCheckJob::run, main).
StopEndsProcess == Unhindered => ((stop_requested \/ mode # "loop") ~> Over)

\* If nothing hinders it, the service goes on polling until it is asked to stop.
\* An exception of a command does end the process, which REQ-NF-002 of
\* docs/sdd/daemon-status-cli/SPEC.md excludes: it is the service manager that
\* starts it again (Daemon::run, main, Restart=on-failure).
KeepsPolling ==
  mode = "loop" /\ Unhindered => []<>(At("systemd") \/ stop_requested)

================================================================================
