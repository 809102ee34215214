-------------------------- MODULE HealthDaemon_proofs --------------------------
(***************************************************************************)
(* Proofs about HealthDaemon, for any configuration, any views of the      *)
(* collectors, any rule files and commands, and any times.                 *)
(***************************************************************************)
EXTENDS HealthDaemon, FiniteSetTheorems, TLAPS

(***************************************************************************)
(* OOM kills (parseVmstatOom).                                             *)
(***************************************************************************)

\* Before the first good reading nothing is counted; after it the two readings
\* are numbers, and what lies between them is accounted for.
OomInv ==
  /\ oom_kill \in Nat /\ oom_reported \in Nat /\ oom_lost \in Nat
  /\ \/ oom_first = {} /\ baseline_oom_kill = {} /\ oom_reported = 0 /\ oom_lost = 0
     \/ \E first, last \in Nat : /\ oom_first = {first} /\ baseline_oom_kill = {last}
                                 /\ oom_reported + oom_lost = last - first

\* The kills of a reading are what the baseline moves by, whether the counter
\* could be read or not; the first reading counts none.
LEMMA ReadingCounts ==
  ASSUME OomInv, NEW counter \in Counter
  PROVE  /\ New(counter) \in Nat
         /\ \/ /\ Baseline(counter) = {} /\ FirstBaseline(counter) = {}
               /\ oom_reported = 0 /\ oom_lost = 0 /\ New(counter) = 0
            \/ \E first, last \in Nat :
                 /\ FirstBaseline(counter) = {first} /\ Baseline(counter) = {last}
                 /\ oom_reported + oom_lost + New(counter) = last - first
<1>1. CASE counter = {}
  <2>1. Delta(counter) = {}
    BY <1>1 DEF Delta
  <2>2. New(counter) = 0
    BY <2>1 DEF New
  <2>3. Baseline(counter) = baseline_oom_kill
    BY <1>1 DEF Baseline
  <2>4. FirstBaseline(counter) = oom_first
    BY <1>1 DEF FirstBaseline
  <2> QED BY <2>2, <2>3, <2>4 DEF OomInv
<1>2. CASE counter = {oom_kill}
  <2>1. CASE oom_first = {} /\ baseline_oom_kill = {} /\ oom_reported = 0 /\ oom_lost = 0
    <3>1. Delta(counter) = {}
      BY <2>1 DEF Delta
    <3>2. New(counter) = 0
      BY <3>1 DEF New
    <3>3. Baseline(counter) = {oom_kill} /\ FirstBaseline(counter) = {oom_kill}
      BY <1>2, <2>1 DEF Baseline, FirstBaseline
    <3> QED BY <2>1, <3>2, <3>3 DEF OomInv
  <2>2. CASE \E first, last \in Nat : /\ oom_first = {first} /\ baseline_oom_kill = {last}
                                      /\ oom_reported + oom_lost = last - first
    <3>1. PICK first \in Nat, last \in Nat :
                 /\ oom_first = {first} /\ baseline_oom_kill = {last}
                 /\ oom_reported + oom_lost = last - first
      BY <2>2
    <3>2. FirstBaseline(counter) = {first}
      BY <3>1 DEF FirstBaseline
    <3>3. oom_kill \in Nat /\ oom_reported \in Nat /\ oom_lost \in Nat
      BY DEF OomInv
    <3>4. CASE oom_kill < last
      <4>1. Delta(counter) = {}
        BY <1>2, <3>1, <3>3, <3>4 DEF Delta
      <4>2. New(counter) = 0
        BY <4>1 DEF New
      <4>3. Baseline(counter) = {last}
        BY <1>2, <3>1, <3>4 DEF Baseline
      <4> QED BY <3>1, <3>2, <3>3, <4>2, <4>3
    <3>5. CASE oom_kill >= last
      <4>1. Delta(counter) = {oom_kill - last}
        <5>1. {q \in counter \X baseline_oom_kill : q[1] >= q[2]} = {<<oom_kill, last>>}
          BY <1>2, <3>1, <3>5
        <5>2. <<oom_kill, last>>[1] = oom_kill /\ <<oom_kill, last>>[2] = last
          OBVIOUS
        <5>3. Delta(counter) = {p[1] - p[2] : p \in {<<oom_kill, last>>}}
          BY <5>1 DEF Delta
        <5> QED BY <5>2, <5>3
      <4>2. New(counter) = oom_kill - last
        BY <4>1 DEF New
      <4>3. Baseline(counter) = {oom_kill}
        BY <1>2, <3>1, <3>3, <3>5 DEF Baseline
      <4> QED BY <3>1, <3>2, <3>3, <3>5, <4>2, <4>3
    <3> QED BY <3>1, <3>3, <3>4, <3>5
  <2> QED BY <2>1, <2>2 DEF OomInv
<1> QED BY <1>1, <1>2 DEF Counter

\* Nothing but a collection and a restart touches the counts.
LEMMA NextOom == OomInv /\ [Next]_vars => OomInv'
<1> SUFFICES ASSUME OomInv, [Next]_vars PROVE OomInv'
  OBVIOUS
<1>1. CASE CollectMemory \/ MemoryFails
  <2>1. PICK counter \in Counter :
          /\ baseline_oom_kill' = Baseline(counter)
          /\ oom_first' = FirstBaseline(counter)
          /\ \/ oom_reported' = oom_reported + New(counter) /\ oom_lost' = oom_lost + 0
             \/ oom_reported' = oom_reported + 0 /\ oom_lost' = oom_lost + New(counter)
             \/ oom_reported' = oom_reported /\ oom_lost' = oom_lost + New(counter)
          /\ oom_kill' = oom_kill
    BY <1>1 DEF CollectMemory, MemoryFails, parseVmstatOom, worldVars
  <2>2. oom_reported \in Nat /\ oom_lost \in Nat /\ oom_kill \in Nat
    BY DEF OomInv
  <2> QED BY <2>1, <2>2, ReadingCounts DEF OomInv
<1>2. CASE Restart
  BY <1>2 DEF Restart, worldVars, OomInv
<1>3. CASE KernelKills
  BY <1>3 DEF KernelKills, oomVars, OomInv
<1>4. CASE UNCHANGED <<oomVars, oom_kill>>
  BY <1>4 DEF oomVars, OomInv
<1> QED
  BY <1>1, <1>2, <1>3, <1>4
  DEF Next, Process, Statements, System, vars, worldVars, Start, StartFails, CollectSystemd, SystemdFails,
      CollectStorage, StorageFails, CollectPacman, PacmanFails, StoreEvents, Diagnose,
      LogFindings, Report, RunCommand, Launch, CommandReturns, CommandThrows, TakeResult,
      JobEnds, Rests, Wakes, Tick, Works, UnitChanges, ProcessDumps, handleSignal

\* Every OOM kill between the first and the last good reading is reported in one
\* event, or was counted by a collection that failed after moving the baseline.
THEOREM OomKillsCounted == Spec => []OomKillsAreCountedOnce
<1>1. Init => OomInv
  BY DEF Init, MemoryInit, OomInv
<1>2. OomInv => OomKillsAreCountedOnce
  BY DEF OomInv, OomKillsAreCountedOnce
<1> QED BY <1>1, <1>2, NextOom, PTL DEF Spec

(***************************************************************************)
(* Commands after a stop request (HealthCheckJob::run).                    *)
(***************************************************************************)

\* A command that was not yet launched when the stop was requested is the first.
StopInv ==
  /\ after_stop \in {0, 1}
  /\ after_stop = 1 => stop_requested /\ pc # "launch"

LEMMA NextStop == StopInv /\ [Next]_vars => StopInv'
<1> SUFFICES ASSUME StopInv, [Next]_vars PROVE StopInv'
  OBVIOUS
<1>1. CASE RunCommand
  BY <1>1 DEF RunCommand, StopInv
<1>2. CASE Launch
  BY <1>2 DEF Launch, At, Runner!Launch, StopInv
<1>3. CASE handleSignal
  BY <1>3 DEF handleSignal, Runner!StopRequested, StopInv
<1>4. CASE /\ UNCHANGED <<after_stop, stop_requested>>
           /\ pc' # "launch" \/ UNCHANGED pc
  BY <1>4 DEF StopInv
<1> QED
  BY <1>1, <1>2, <1>3, <1>4
  DEF Next, Process, Statements, System, vars, jobVars, Start, StartFails, Collected, CollectSystemd,
      SystemdFails, CollectStorage, StorageFails, CollectMemory, MemoryFails, CollectPacman,
      PacmanFails, AfterCollecting, StoreEvents, Diagnose, LogFindings, Report,
      CommandReturns, CommandThrows, Runner!Return, Runner!Throw, TakeResult, JobEnds, Rests,
      Wakes, Exits, Restart, Tick, Works, UnitChanges, ProcessDumps, KernelKills

\* At most one command is launched after a stop request, however many are
\* configured: the one whose look at the flag came before.
THEOREM OneCommandAfterStop == Spec => []AtMostOneCommandAfterStop
<1>1. Init => StopInv
  BY DEF Init, StopInv
<1>2. StopInv => AtMostOneCommandAfterStop
  BY DEF StopInv, AtMostOneCommandAfterStop
<1> QED BY <1>1, <1>2, NextStop, PTL DEF Spec

(***************************************************************************)
(* The summary (resultsToText, LocalSummaryClient::summarize).             *)
(***************************************************************************)

\* There is a summary only after the commands, when results do not change.
SummaryInv ==
  /\ summary # "none" => pc \in {"rest", "exited"}
  /\ SummaryReportsInterruption

\* The codes of a timeout, a cancellation, a failed start and a fatal signal
\* begin with 1.
LEMMA InterruptionBeginsWithOne ==
  ASSUME NEW code \in {124, 125, 127} \cup 129..192
  PROVE  BeginsWithOne(code)
<1>1. code \div 100 = 1
  OBVIOUS
<1> QED BY <1>1 DEF BeginsWithOne

\* A text without "exit=1" has none of those codes.
LEMMA SuccessIsHonest ==
  ASSUME summarize(resultsToText) = "success", NEW r \in results
  PROVE  r.exit_code \notin {124, 125, 127} \cup 129..192
<1>1. "exit=1" \notin resultsToText
  BY DEF summarize
<1>2. ~BeginsWithOne(r.exit_code)
  BY <1>1 DEF resultsToText, When
<1> QED BY <1>2, InterruptionBeginsWithOne

LEMMA NextSummary == SummaryInv /\ [Next]_vars => SummaryInv'
<1> SUFFICES ASSUME SummaryInv, [Next]_vars PROVE SummaryInv'
  OBVIOUS
<1>1. CASE JobEnds
  <2>1. /\ summary' = IF commands = 0 THEN "none" ELSE summarize(resultsToText)
        /\ pc' = "rest" /\ results' = results
    BY <1>1 DEF JobEnds
  <2>2. CASE commands = 0
    BY <2>1, <2>2 DEF SummaryInv, SummaryReportsInterruption
  <2>3. CASE commands # 0
    <3>1. summary' = summarize(resultsToText)
      BY <2>1, <2>3
    <3>2. summary' = "success" =>
            \A r \in results : r.exit_code \notin {124, 125, 127} \cup 129..192
      BY <3>1, SuccessIsHonest
    <3> QED BY <2>1, <3>2 DEF SummaryInv, SummaryReportsInterruption
  <2> QED BY <2>2, <2>3
<1>2. CASE TakeResult
  BY <1>2 DEF TakeResult, At, SummaryInv, SummaryReportsInterruption
<1>3. CASE Restart
  BY <1>3 DEF Restart, SummaryInv, SummaryReportsInterruption
<1>4. CASE Rests
  BY <1>4 DEF Rests, Exits, SummaryInv, SummaryReportsInterruption
<1>5. CASE /\ UNCHANGED <<results, summary>>
           /\ pc \in {"rest", "exited"} => pc' \in {"rest", "exited"}
  BY <1>5 DEF SummaryInv, SummaryReportsInterruption
<1> QED
  BY <1>1, <1>2, <1>3, <1>4, <1>5
  DEF Next, Process, Statements, System, vars, jobVars, At, Start, StartFails, Collected, CollectSystemd,
      SystemdFails, CollectStorage, StorageFails, CollectMemory, MemoryFails, CollectPacman,
      PacmanFails, StoreEvents, Diagnose, LogFindings, Report, RunCommand, Launch,
      CommandReturns, CommandThrows, Wakes, Exits, Tick, Works, UnitChanges, ProcessDumps,
      KernelKills, handleSignal

\* No summary claims success when a command timed out, was cancelled, could not
\* be started or was killed, whatever the commands printed.
THEOREM SummaryIsHonest == Spec => []SummaryReportsInterruption
<1>1. Init => SummaryInv
  BY DEF Init, SummaryInv, SummaryReportsInterruption
<1>2. SummaryInv => SummaryReportsInterruption
  BY DEF SummaryInv
<1> QED BY <1>1, <1>2, NextSummary, PTL DEF Spec

(***************************************************************************)
(* Types.                                                                  *)
(***************************************************************************)

PlaceType ==
  /\ pc \in {"starting", "systemd", "storage", "memory", "kmsg", "pacman", "store", "diagnose",
              "log", "report", "job", "launch", "running", "rest", "sleep", "exited", "failed"}
  /\ summary \in {"none", "success", "review"}
  /\ exit_code \subseteq {0, 1} /\ overall_status \in {"none", "OK", "UNHEALTHY"}

CountType ==
  /\ mode \in Modes /\ commands \in CommandLists[mode]
  /\ command \in 0..commands /\ after_stop \in Nat
  /\ elapsed \in Nat /\ work \in Nat

RunnerType ==
  /\ runner \in {"idle", "running", "returned", "threw"}
  /\ outcome \in Runner!Outcomes \cup {Runner!NoOutcome}
  /\ stop_requested \in BOOLEAN

WorldType ==
  /\ units \in [Units -> {"active", "failed"}] /\ journal \subseteq Dump
  /\ flapping_state \in [Units -> SUBSET Nat]

LEMMA WindowType == Window \in Nat \ {0}
  BY SystemdAssumption DEF Window

LEMMA TypeParts == PlaceType /\ CountType /\ RunnerType /\ WorldType /\ OomInv => TypeOK
<1>1. OomInv => baseline_oom_kill \subseteq Nat /\ oom_first \subseteq Nat
  BY DEF OomInv
<1>2. OomInv => {oom_kill, oom_reported, oom_lost} \subseteq Nat
  BY DEF OomInv
<1> QED BY <1>1, <1>2 DEF TypeOK, PlaceType, CountType, RunnerType, WorldType

LEMMA NextPlaceType == PlaceType /\ [Next]_vars => PlaceType'
<1> SUFFICES ASSUME PlaceType, [Next]_vars PROVE PlaceType'
  OBVIOUS
<1>1. CASE JobEnds
  BY <1>1 DEF JobEnds, summarize, endVars, PlaceType
<1>2. CASE Rests
  BY <1>2 DEF Rests, Exits, PlaceType
<1>3. CASE Wakes
  BY <1>3 DEF Wakes, Exits, PlaceType
<1>4. CASE Report
  BY <1>4 DEF Report, jobVars, PlaceType
<1>5. CASE Restart
  BY <1>5 DEF Restart, PlaceType
<1>6. CASE Process
  BY <1>1, <1>2, <1>3, <1>4, <1>6
  DEF Process, Statements, jobVars, endVars, PlaceType, Start, StartFails, Collected, CollectSystemd,
      SystemdFails, CollectStorage, StorageFails, CollectMemory, MemoryFails, CollectPacman,
      PacmanFails, AfterCollecting, StoreEvents, Diagnose, LogFindings, RunCommand, Launch,
      CommandReturns, CommandThrows, TakeResult
<1>7. CASE UNCHANGED <<pc, summary, exit_code, overall_status>>
  BY <1>7 DEF PlaceType
<1> QED
  BY <1>5, <1>6, <1>7
  DEF Next, System, vars, jobVars, endVars, Tick, Works, UnitChanges, ProcessDumps, KernelKills,
      handleSignal

LEMMA CommandsType == CountType => commands \in Nat
  BY HealthAssumption DEF CountType

LEMMA NextCountType == CountType /\ [Next]_vars => CountType'
<1> SUFFICES ASSUME CountType, [Next]_vars PROVE CountType'
  OBVIOUS
<1>0. commands \in Nat
  BY CommandsType
<1>1. CASE RunCommand
  BY <1>0, <1>1 DEF RunCommand, processVars, CountType
<1>2. CASE Launch
  BY <1>2 DEF Launch, processVars, CountType
<1>3. CASE Tick \/ Works
  BY <1>3 DEF Tick, Works, processVars, jobVars, CountType
<1>4. CASE /\ UNCHANGED <<mode, commands, after_stop>>
           /\ work' = work \/ work' = 0
           /\ command' = command \/ command' = 0
           /\ elapsed' = elapsed \/ elapsed' = 0
  BY <1>0, <1>4 DEF CountType
<1> QED
  BY <1>1, <1>2, <1>3, <1>4
  DEF Next, Process, Statements, System, vars, processVars, jobVars, Start, StartFails, Collected,
      CollectSystemd, SystemdFails, CollectStorage, StorageFails, CollectMemory, MemoryFails,
      CollectPacman, PacmanFails, StoreEvents, Diagnose, LogFindings, Report, CommandReturns,
      CommandThrows, TakeResult, JobEnds, Rests, Wakes, Exits, Restart, UnitChanges,
      ProcessDumps, KernelKills, handleSignal

LEMMA NextRunnerType == RunnerType /\ [Next]_vars => RunnerType'
<1> SUFFICES ASSUME RunnerType, [Next]_vars PROVE RunnerType'
  OBVIOUS
<1>1. CASE Launch
  BY <1>1 DEF Launch, Runner!Launch, RunnerType
<1>2. CASE CommandReturns
  BY <1>2 DEF CommandReturns, Runner!Return, RunnerType
<1>3. CASE CommandThrows
  BY <1>3 DEF CommandThrows, Runner!Throw, RunnerType
<1>4. CASE handleSignal
  BY <1>4 DEF handleSignal, Runner!StopRequested, RunnerType
<1>5. CASE TakeResult \/ Restart
  BY <1>5 DEF TakeResult, Restart, RunnerType
<1>6. CASE UNCHANGED <<runner, outcome, stop_requested>>
  BY <1>6 DEF RunnerType
<1> QED
  BY <1>1, <1>2, <1>3, <1>4, <1>5, <1>6
  DEF Next, Process, Statements, System, vars, jobVars, Start, StartFails, CollectSystemd, SystemdFails,
      CollectStorage, StorageFails, CollectMemory, MemoryFails, CollectPacman, PacmanFails,
      StoreEvents, Diagnose, LogFindings, Report, RunCommand, JobEnds, Rests, Wakes, Tick, Works,
      UnitChanges, ProcessDumps, KernelKills

\* What becomes of the dumps keeps them dumps.
LEMMA FatedType ==
  ASSUME journal \subseteq Dump, NEW set, NEW fate \in {"reported", "excused"}
  PROVE  Fated(set, fate) \subseteq Dump
<1>1. ASSUME NEW d \in Dump PROVE [d EXCEPT !.fate = fate] \in Dump
  BY DEF Dump
<1> QED BY <1>1 DEF Fated

\* What a poll makes of the time points, when it reaches the bus and when not.
LEMMA PolledType ==
  ASSUME flapping_state \in [Units -> SUBSET Nat], NEW failed
  PROVE  /\ pruneOldTimestamps \in [Units -> SUBSET Nat]
         /\ Counted(failed) \in [Units -> SUBSET Nat]
         /\ \A u \in Units :
              /\ pruneOldTimestamps[u] = {age \in flapping_state[u] : age <= Window}
              /\ Counted(failed)[u] \subseteq pruneOldTimestamps[u] \cup {0}
  BY DEF pruneOldTimestamps, Counted, When

\* A poll does one of two things to the time points; it gives the dumps of the
\* window a fate.
LEMMA PollActs ==
  ASSUME CollectSystemd \/ SystemdFails
  PROVE  /\ pc = "systemd" /\ pc' = "storage"
         /\ \/ flapping_state' = pruneOldTimestamps
            \/ \E failed : flapping_state' = Counted(failed)
         /\ \E fate \in {"reported", "excused"} : journal' = Fated(Dumps(journal), fate)
         /\ work' = 0
         /\ UNCHANGED <<mode, commands, command, runner, stop_requested, elapsed, units>>
  BY DEF CollectSystemd, SystemdFails, At, processVars, jobVars

LEMMA NextWorldType == WorldType /\ [Next]_vars => WorldType'
<1> SUFFICES ASSUME WorldType, [Next]_vars PROVE WorldType'
  OBVIOUS
<1>1. CASE CollectSystemd \/ SystemdFails
  BY <1>1, PollActs, PolledType, FatedType DEF WorldType
<1>2. CASE StartFails
  BY <1>2, FatedType DEF StartFails, WorldType
<1>3. CASE Restart
  BY <1>3 DEF Restart, worldVars, WorldType
<1>4. CASE Tick \/ Works
  <2>0. SecondPasses /\ UNCHANGED units
    BY <1>4 DEF Tick, Works
  <2>1. ASSUME NEW e \in Dump
        PROVE  [e EXCEPT !.age = IF e.age > Window THEN e.age ELSE e.age + 1] \in Dump
    BY WindowType DEF Dump
  <2>2. journal' \subseteq Dump
    BY <2>0, <2>1 DEF SecondPasses, WorldType
  <2>3. flapping_state' \in [Units -> SUBSET Nat]
    BY <2>0 DEF SecondPasses, Aged, WorldType
  <2> QED BY <2>0, <2>2, <2>3 DEF WorldType
<1>5. CASE UnitChanges
  BY <1>5 DEF UnitChanges, WorldType
<1>6. CASE ProcessDumps
  <2>1. \A u \in Units : [subject |-> u, age |-> 0, fate |-> "pending"] \in Dump
    BY WindowType DEF Dump
  <2> QED BY <1>6, <2>1 DEF ProcessDumps, WorldType
<1>7. CASE UNCHANGED <<units, journal, flapping_state>>
  BY <1>7 DEF WorldType
<1> QED
  BY <1>1, <1>2, <1>3, <1>4, <1>5, <1>6, <1>7
  DEF Next, Process, Statements, System, vars, worldVars, Start, CollectStorage, StorageFails,
      CollectMemory, MemoryFails, CollectPacman, PacmanFails, StoreEvents, Diagnose,
      LogFindings, Report, RunCommand, Launch, CommandReturns, CommandThrows, TakeResult,
      JobEnds, Rests, Wakes, KernelKills, handleSignal

Typed == PlaceType /\ CountType /\ RunnerType /\ WorldType /\ OomInv

LEMMA TypedHolds == Spec => []Typed
<1>1. Init => Typed
  <2>1. Init => PlaceType
    BY DEF Init, PlaceType
  <2>5. Init => CountType
    <3>1. Init => mode \in Modes /\ commands \in CommandLists[mode] /\ commands \in Nat
      BY HealthAssumption DEF Init
    <3> QED BY <3>1 DEF Init, CountType
  <2>2. Init => RunnerType
    BY DEF Init, RunnerType
  <2>3. Init => WorldType
    BY DEF Init, SystemdInit, WorldType
  <2>4. Init => OomInv
    BY DEF Init, MemoryInit, OomInv
  <2> QED BY <2>1, <2>2, <2>3, <2>4, <2>5 DEF Typed
<1>2. Typed /\ [Next]_vars => Typed'
  BY NextPlaceType, NextCountType, NextRunnerType, NextWorldType, NextOom DEF Typed
<1> QED BY <1>1, <1>2, PTL DEF Spec

\* The process, the calls it makes and what it watches stay well-typed.
THEOREM TypeCorrect == Spec => []TypeOK
<1>1. Typed => TypeOK
  BY TypeParts DEF Typed
<1> QED BY <1>1, TypedHolds, PTL

================================================================================
