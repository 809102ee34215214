--------------------------- MODULE HealthTimes_proofs ---------------------------
(***************************************************************************)
(* Proofs about what HealthDaemon keeps and promises over time, for any    *)
(* window, interval, number and length of commands: the time points of a   *)
(* unit stay few, and no core dump leaves the window unreported.           *)
(***************************************************************************)
EXTENDS HealthDaemon_proofs

(***************************************************************************)
(* Division.                                                               *)
(***************************************************************************)

LEMMA QuotientAndRest ==
  ASSUME NEW a \in Nat, NEW n \in Nat \ {0}
  PROVE  a \div n \in Nat /\ a % n \in 0..(n - 1) /\ a = n * (a \div n) + (a % n)
  OBVIOUS

LEMMA QuotientGrows ==
  ASSUME NEW a \in Nat, NEW b \in Nat, NEW n \in Nat \ {0}, a <= b
  PROVE  a \div n <= b \div n
  BY QuotientAndRest

\* Numbers at least n apart have different quotients.
LEMMA QuotientsDiffer ==
  ASSUME NEW a \in Nat, NEW b \in Nat, NEW n \in Nat \ {0}, b - a >= n
  PROVE  a \div n # b \div n
<1> SUFFICES ASSUME a \div n = b \div n PROVE FALSE
  OBVIOUS
<1> DEFINE q == a \div n
<1>1. q \in Nat /\ a % n \in 0..(n - 1) /\ a = n * q + (a % n)
  BY QuotientAndRest
<1>2. b % n \in 0..(n - 1) /\ b = n * q + (b % n)
  BY QuotientAndRest
<1>3. n * q \in Nat
  <2> HIDE DEF q
  <2> QED BY <1>1
<1> QED BY <1>1, <1>2, <1>3

(***************************************************************************)
(* The time points of a unit (pruneOldTimestamps).                         *)
(***************************************************************************)

\* Time points as the polls leave them: at least a sleep apart.
Spaced(ages) == \A a, b \in ages : a < b => b - a >= interval

\* Time points that are a sleep apart and in the window are few: at most one
\* for each interval that begins in the window.
LEMMA SpacedAreFew ==
  ASSUME NEW ages \in SUBSET Nat, Spaced(ages), \A a \in ages : a <= Window
  PROVE  IsFiniteSet(ages) /\ Cardinality(ages) <= Window \div interval + 1
<1>0. interval \in Nat \ {0} /\ Window \in Nat
  BY HealthAssumption, WindowType
<1> DEFINE n  == Window \div interval
           f  == [a \in ages |-> a \div interval]
<1>1. n \in Nat
  BY <1>0, QuotientAndRest
<1>2. ASSUME NEW a \in ages PROVE a \div interval \in 0..n
  <2>1. a \div interval \in Nat
    BY <1>0, QuotientAndRest
  <2>2. a \div interval <= n
    BY <1>0, QuotientGrows
  <2> QED BY <1>1, <2>1, <2>2
<1>3. \A a, b \in ages : f[a] = f[b] => a = b
  <2> SUFFICES ASSUME NEW a \in ages, NEW b \in ages, a # b PROVE f[a] # f[b]
    OBVIOUS
  <2>1. CASE a < b
    BY <1>0, <2>1, QuotientsDiffer DEF Spaced
  <2>2. CASE b < a
    BY <1>0, <2>2, QuotientsDiffer DEF Spaced
  <2> QED BY <2>1, <2>2
<1>4. f \in Injection(ages, 0..n)
  <2>1. f \in [ages -> 0..n]
    BY <1>2
  <2> HIDE DEF f
  <2> QED BY <1>3, <2>1 DEF Injection, IsInjective
<1>5. IsFiniteSet(0..n) /\ Cardinality(0..n) = n + 1
  BY <1>1, FS_Interval
<1>6. IsFiniteSet(ages) /\ Cardinality(ages) <= Cardinality(0..n)
  <2> HIDE DEF f, n
  <2> QED BY <1>4, <1>5, FS_Injection
<1> QED BY <1>5, <1>6

\* What the passing of a second makes of the time points of a unit.
Later(ages) == {age + 1 : age \in ages}

LEMMA LaterAreAsMany ==
  ASSUME NEW ages \in SUBSET Nat, IsFiniteSet(ages)
  PROVE  IsFiniteSet(Later(ages)) /\ Cardinality(Later(ages)) <= Cardinality(ages)
<1> DEFINE f == [age \in ages |-> age + 1]
<1>1. f \in [ages -> Later(ages)] /\ \A t \in Later(ages) : \E s \in ages : f[s] = t
  BY DEF Later
<1>2. f \in Surjection(ages, Later(ages))
  <2> HIDE DEF f
  <2> QED BY <1>1 DEF Surjection
<1> QED BY <1>2, FS_Surjection

\* A unit's time points between two polls: few, spaced, and, where the next poll
\* adds one, old enough for it.
FewAges(ages) ==
  /\ IsFiniteSet(ages)
  /\ Cardinality(ages) <= Window \div interval + 1
  /\ Spaced(ages)

OldEnough(ages) ==
  /\ pc = "sleep"    => \A a \in ages : a >= elapsed
  /\ pc = "systemd"  => \A a \in ages : a >= interval
  /\ pc = "starting" => ages = {}

FlapInv == \A u \in Units : FewAges(flapping_state[u]) /\ OldEnough(flapping_state[u])

LEMMA NoneAreFew == FewAges({})
<1>1. Window \div interval \in Nat
  BY HealthAssumption, WindowType, QuotientAndRest
<1> QED BY <1>1, FS_EmptySet DEF FewAges, Spaced

LEMMA NextFlap == Typed /\ FlapInv /\ [Next]_vars => FlapInv'
<1> SUFFICES ASSUME Typed, FlapInv, [Next]_vars PROVE FlapInv'
  OBVIOUS
<1>0. /\ interval \in Nat \ {0} /\ Window \in Nat /\ elapsed \in Nat
      /\ flapping_state \in [Units -> SUBSET Nat]
  BY HealthAssumption, WindowType DEF Typed, CountType, WorldType
<1>1. CASE CollectSystemd \/ SystemdFails
  <2>1. pc = "systemd" /\ pc' = "storage"
    BY <1>1, PollActs
  <2> SUFFICES ASSUME NEW u \in Units PROVE FewAges(flapping_state'[u])
    BY <2>1 DEF FlapInv, FewAges, OldEnough, Spaced
  <2>2. flapping_state'[u] \subseteq {age \in flapping_state[u] : age <= Window} \cup {0}
    BY <1>0, <1>1, PollActs, PolledType
  <2>3. flapping_state'[u] \in SUBSET Nat /\ \A a \in flapping_state'[u] : a <= Window
    BY <1>0, <2>2
  <2>4. \A a \in flapping_state[u] : a >= interval
    BY <2>1 DEF FlapInv, OldEnough
  <2>5. Spaced(flapping_state'[u])
    BY <1>0, <2>2, <2>4 DEF FlapInv, FewAges, Spaced
  <2> QED BY <2>3, <2>5, SpacedAreFew DEF FewAges
<1>2. CASE Tick \/ Works
  <2> SUFFICES ASSUME NEW u \in Units
               PROVE  FewAges(flapping_state'[u]) /\ OldEnough(flapping_state[u])'
    BY DEF FlapInv, FewAges, Spaced
  <2>1. flapping_state'[u] = Later(flapping_state[u])
    BY <1>2 DEF Tick, Works, SecondPasses, Aged, Later
  <2>2. FewAges(flapping_state[u]) /\ OldEnough(flapping_state[u])
    BY DEF FlapInv
  <2>3. Spaced(flapping_state'[u])
    BY <1>0, <2>1, <2>2 DEF FewAges, Spaced, Later
  <2>4. FewAges(flapping_state'[u])
    <3>1. /\ IsFiniteSet(flapping_state'[u])
          /\ Cardinality(flapping_state'[u]) <= Cardinality(flapping_state[u])
      BY <1>0, <2>1, <2>2, LaterAreAsMany DEF FewAges
    <3>2. Cardinality(flapping_state'[u]) \in Nat /\ Cardinality(flapping_state[u]) \in Nat
      BY <2>2, <3>1, FS_CardinalityType DEF FewAges
    <3>3. Window \div interval \in Nat
      BY <1>0, QuotientAndRest
    <3> QED BY <2>2, <2>3, <3>1, <3>2, <3>3 DEF FewAges
  <2>5. OldEnough(flapping_state[u])'
    <3>1. pc' = pc /\ (elapsed' = elapsed \/ elapsed' = elapsed + 1)
      BY <1>2 DEF Tick, Works
    <3> QED BY <1>0, <2>1, <2>2, <3>1 DEF OldEnough, Later
  <2> QED BY <2>4, <2>5
<1>3. CASE Restart
  <2>1. pc' = "starting" /\ \A u \in Units : flapping_state'[u] = {}
    BY <1>3 DEF Restart
  <2>2. \A u \in Units : Spaced(flapping_state'[u]) /\ OldEnough(flapping_state[u])'
    BY <2>1 DEF Spaced, OldEnough
  <2> SUFFICES ASSUME NEW u \in Units
               PROVE  FewAges(flapping_state'[u]) /\ OldEnough(flapping_state[u])'
    BY DEF FlapInv, FewAges, Spaced
  <2>3. FewAges(flapping_state'[u])
    BY <2>1, NoneAreFew
  <2> QED BY <2>2, <2>3
<1>4. CASE Wakes
  BY <1>0, <1>4 DEF Wakes, At, Exits, FlapInv, FewAges, Spaced, OldEnough
<1>5. CASE Start
  BY <1>0, <1>5 DEF Start, At, FlapInv, FewAges, Spaced, OldEnough
<1>6. CASE Rests
  BY <1>0, <1>6 DEF Rests, At, Exits, FlapInv, FewAges, Spaced, OldEnough
<1>7. CASE /\ UNCHANGED flapping_state
           /\ pc' \notin {"sleep", "systemd", "starting"} \/ UNCHANGED <<pc, elapsed>>
  BY <1>7 DEF FlapInv, FewAges, Spaced, OldEnough
<1> QED
  BY <1>1, <1>2, <1>3, <1>4, <1>5, <1>6, <1>7
  DEF Next, Process, Statements, System, vars, StartFails, Collected, CollectStorage, StorageFails,
      CollectMemory, MemoryFails, CollectPacman, PacmanFails, AfterCollecting, StoreEvents,
      Diagnose, LogFindings, Report, RunCommand, Launch, CommandReturns, CommandThrows,
      TakeResult, JobEnds, UnitChanges, ProcessDumps, KernelKills, handleSignal

\* However long the process runs and however often a unit is found failed, the
\* time points kept for it are at most the polls of one window: each poll drops
\* what left the window, and the sleep keeps the polls apart.
THEOREM FlappingStateStaysSmall == Spec => []FlappingStateIsBounded
<1>1. Init => FlapInv
  <2> SUFFICES ASSUME Init, NEW u \in Units
               PROVE  FewAges(flapping_state[u]) /\ OldEnough(flapping_state[u])
    BY DEF FlapInv
  <2>1. flapping_state[u] = {} /\ pc = "starting"
    BY DEF Init, SystemdInit
  <2> QED BY <2>1, NoneAreFew DEF OldEnough
<1>2. FlapInv => FlappingStateIsBounded
  BY DEF FlapInv, FewAges, FlappingStateIsBounded
<1> QED BY <1>1, <1>2, NextFlap, TypedHolds, PTL DEF Spec

(***************************************************************************)
(* The age of the core dumps that no poll has looked at.                   *)
(***************************************************************************)

\* Where the time of a process goes: to a command, a sleep or a restart, and to
\* all the rest.
TimeInv ==
  /\ work <= WorkTime
  /\ pc = "running" => elapsed <= CommandTime
  /\ pc = "sleep"   => elapsed <= interval
  /\ pc = "failed"  => elapsed <= RestartSec
  /\ pc \in {"launch", "running"} => command >= 1

LEMMA TimePasses ==
  ASSUME Tick, elapsed \in Nat
  PROVE  /\ \/ pc = "sleep" /\ elapsed < interval
            \/ pc = "failed" /\ elapsed < RestartSec
            \/ pc = "running" /\ elapsed < CommandTime
         /\ elapsed' = elapsed + 1
         /\ UNCHANGED <<pc, mode, commands, command, work>>
<1>1. elapsed < TimeLimit
  BY DEF Tick
<1>2. elapsed' = elapsed + 1 /\ UNCHANGED <<pc, mode, commands, command, work>>
  BY DEF Tick, processVars, jobVars
<1>3. CASE pc = "sleep"
  BY <1>1, <1>2, <1>3 DEF TimeLimit, At, IsRestarted
<1>4. CASE IsRestarted
  BY <1>1, <1>2, <1>4 DEF TimeLimit, At, IsRestarted
<1>5. CASE pc = "running" /\ runner = "running"
  BY <1>1, <1>2, <1>5 DEF TimeLimit, At, IsRestarted
<1> QED BY <1>1, <1>3, <1>4, <1>5 DEF TimeLimit, At

LEMMA WorkPasses ==
  ASSUME Works
  PROVE  /\ work < WorkTime /\ work' = work + 1 /\ pc # "exited"
         /\ UNCHANGED <<pc, mode, commands, command, elapsed>>
  BY DEF Works, InService, IsRestarted, At, processVars, jobVars

LEMMA NextTime == Typed /\ TimeInv /\ [Next]_vars => TimeInv'
<1> SUFFICES ASSUME Typed, TimeInv, [Next]_vars PROVE TimeInv'
  OBVIOUS
<1>0. /\ {interval, CommandTime, RestartSec, WorkTime} \subseteq Nat
      /\ elapsed \in Nat /\ command \in Nat /\ work \in Nat
  BY HealthAssumption, CommandsType DEF Typed, CountType
<1>1. CASE Tick
  BY <1>0, <1>1, TimePasses DEF TimeInv
<1>7. CASE Works
  BY <1>0, <1>7, WorkPasses DEF TimeInv
<1>2. CASE RunCommand
  BY <1>0, <1>2 DEF RunCommand, TimeInv
<1>3. CASE Launch \/ CommandThrows \/ StartFails
  BY <1>0, <1>3 DEF Launch, CommandThrows, StartFails, At, TimeInv
<1>4. CASE Rests \/ Wakes
  BY <1>0, <1>4 DEF Rests, Wakes, Exits, At, TimeInv
<1>5. CASE pc' \notin {"launch", "running", "sleep", "failed"} /\ work' \in {work, 0}
  BY <1>0, <1>5 DEF TimeInv
<1>6. CASE UNCHANGED <<pc, elapsed, work, command>>
  BY <1>6 DEF TimeInv
<1> QED
  BY <1>1, <1>2, <1>3, <1>4, <1>5, <1>6, <1>7
  DEF Next, Process, Statements, System, vars, jobVars, Start, CollectSystemd, SystemdFails, Collected,
      CollectStorage, StorageFails, CollectMemory, MemoryFails, CollectPacman, PacmanFails,
      AfterCollecting, StoreEvents, Diagnose, LogFindings, Report, CommandReturns, TakeResult,
      JobEnds, Restart, UnitChanges, ProcessDumps, KernelKills, handleSignal

\* The longest that n commands take.
Spent(n) == n * CommandTime

LEMMA SpentGrows ==
  ASSUME NEW m \in Nat, NEW n \in Nat, m <= n
  PROVE  Spent(m) \in Nat /\ Spent(m) <= Spent(n)
<1>1. CommandTime \in Nat
  BY HealthAssumption
<1> QED BY <1>1 DEF Spent

LEMMA OneMoreCommand ==
  ASSUME NEW n \in Nat \ {0}
  PROVE  Spent(n - 1) + CommandTime = Spent(n)
  BY HealthAssumption DEF Spent

\* The dumps that a poll would report and none has looked at.
Undecided == {d \in journal : d.fate = "pending" /\ ~isUnitIgnored(d.subject)}

Young(limit) == \A d \in Undecided : d.age <= limit

\* Between a poll and the commands.
Polled == {"storage", "memory", "kmsg", "pacman", "store", "diagnose", "log", "report"}

\* The longest wait between two iterations.
Wait == IF interval >= RestartSec THEN interval ELSE RestartSec

\* An undecided dump happened since the last poll: it is no older than what the
\* commands, the sleep or the restart, and the rest have taken since.
DumpAges ==
  /\ pc \in Polled   => Young(work)
  /\ pc = "job"      => Young(Spent(command) + work)
  /\ pc = "launch"   => Young(Spent(command - 1) + work)
  /\ pc = "running"  => Young(Spent(command - 1) + elapsed + work)
  /\ pc = "rest"     => Young(Spent(commands) + work)
  /\ pc \in {"sleep", "failed"} => Young(Spent(commands) + elapsed + work)
  /\ pc \in {"starting", "systemd"} => Young(Spent(commands) + Wait + work)
  /\ pc = "exited"   => Young(Window)

DumpInv == mode = "loop" /\ PollsFitWindow => DumpAges

\* Nobody is left undecided by a poll or a failing start, if none was too old.
LEMMA FatedDecides ==
  ASSUME Young(Window), NEW set, Dumps(journal) \subseteq set,
         NEW fate \in {"reported", "excused"}, journal' = Fated(set, fate),
         journal \subseteq Dump
  PROVE  Undecided' = {}
<1> SUFFICES ASSUME NEW e \in journal', e.fate = "pending", ~isUnitIgnored(e.subject)
             PROVE  FALSE
  BY DEF Undecided
<1>1. PICK d \in journal :
        e = IF d \in set /\ d.fate = "pending" THEN [d EXCEPT !.fate = fate] ELSE d
  BY DEF Fated
<1>2. CASE d \in set /\ d.fate = "pending"
  BY <1>1, <1>2 DEF Dump
<1>3. CASE ~(d \in set /\ d.fate = "pending")
  <2>1. e = d
    BY <1>1, <1>3
  <2>2. d \in Undecided
    BY <2>1 DEF Undecided
  <2>3. d \in Dumps(journal)
    BY <2>1, <2>2 DEF Dumps, Young
  <2> QED BY <1>3, <2>1, <2>3
<1> QED BY <1>2, <1>3

\* A second makes every dump at most a second older.
LEMMA SecondAges ==
  ASSUME SecondPasses, Typed, NEW limit \in Nat, Young(limit)
  PROVE  \A d \in Undecided' : d.age <= limit + 1
<1> SUFFICES ASSUME NEW d \in journal', d.fate = "pending", ~isUnitIgnored(d.subject)
             PROVE  d.age <= limit + 1
  BY DEF Undecided
<1>1. PICK e \in journal :
        d = [e EXCEPT !.age = IF e.age > Window THEN e.age ELSE e.age + 1]
  BY DEF SecondPasses
<1>2. e \in Dump /\ e.age \in Nat
  BY WindowType DEF Typed, WorldType, Dump
<1>3. e \in Undecided
  BY <1>1, <1>2 DEF Undecided, Dump
<1>4. d.age = e.age \/ d.age = e.age + 1
  BY <1>1, <1>2 DEF Dump
<1> QED BY <1>2, <1>3, <1>4 DEF Young

LEMMA NextDump == Typed /\ TimeInv /\ DumpInv /\ [Next]_vars => DumpInv'
<1>a. ASSUME Typed, TimeInv, DumpInv, [Next]_vars PROVE UNCHANGED <<mode, commands>>
  BY <1>a
  DEF Next, Process, Statements, System, vars, processVars, Start, StartFails, CollectSystemd,
      SystemdFails, CollectStorage, StorageFails, CollectMemory, MemoryFails, CollectPacman,
      PacmanFails, StoreEvents, Diagnose, LogFindings, Report, RunCommand, Launch,
      CommandReturns, CommandThrows, TakeResult, JobEnds, Rests, Wakes, Restart, Tick, Works,
      UnitChanges, ProcessDumps, KernelKills, handleSignal
<1> SUFFICES ASSUME Typed, TimeInv, DumpAges, mode = "loop", PollsFitWindow, [Next]_vars,
                    UNCHANGED <<mode, commands>>
             PROVE  DumpAges'
  BY <1>a DEF DumpInv, PollsFitWindow
<1> DEFINE busy == Spent(commands)
<1>0. /\ {interval, CommandTime, RestartSec, WorkTime, Window, Wait} \subseteq Nat
      /\ elapsed \in Nat /\ work \in Nat /\ commands \in Nat /\ command \in 0..commands
      /\ journal \subseteq Dump /\ \A d \in Undecided : d.age \in Nat
      /\ interval <= Wait /\ RestartSec <= Wait /\ work <= WorkTime
  BY HealthAssumption, WindowType, CommandsType
  DEF Typed, CountType, WorldType, Dump, Undecided, Wait, TimeInv
<1>1. /\ busy \in Nat /\ Spent(command) \in Nat /\ Spent(command) <= busy
      /\ busy + Wait + WorkTime <= Window
  BY <1>0, SpentGrows DEF PollsFitWindow, Spent, Wait
<1>2. pc \in {"launch", "running"} => /\ Spent(command - 1) \in Nat
                                      /\ Spent(command - 1) + CommandTime = Spent(command)
  <2>1. pc \in {"launch", "running"} => command - 1 \in Nat /\ command \in Nat \ {0}
    BY <1>0 DEF TimeInv
  <2> QED BY <2>1, OneMoreCommand, SpentGrows
<1> HIDE DEF busy
<1>3. CASE Tick
  <2>0. SecondPasses
    BY <1>3 DEF Tick
  <2>1. CASE pc \in {"sleep", "failed"}
    <3>1. Young(busy + elapsed + work)
      BY <2>1 DEF DumpAges, busy
    <3>2. \A d \in Undecided' : d.age <= busy + (elapsed + 1) + work
      BY <1>0, <1>1, <2>0, <3>1, SecondAges
    <3> QED BY <1>0, <1>3, <2>1, <3>2, TimePasses DEF DumpAges, Young, Polled, busy
  <2>2. CASE pc = "running"
    <3>1. Young(Spent(command - 1) + elapsed + work)
      BY <2>2 DEF DumpAges
    <3>2. \A d \in Undecided' : d.age <= Spent(command - 1) + (elapsed + 1) + work
      BY <1>0, <1>2, <2>0, <2>2, <3>1, SecondAges
    <3> QED BY <1>0, <1>3, <2>2, <3>2, TimePasses DEF DumpAges, Young, Polled
  <2> QED BY <1>0, <1>3, <2>1, <2>2, TimePasses
<1>8. CASE Works
  <2>0. SecondPasses /\ work' = work + 1 /\ pc' = pc /\ pc # "exited"
        /\ UNCHANGED <<command, elapsed>>
    BY <1>8, WorkPasses DEF Works
  <2>1. ASSUME NEW limit \in Nat, Young(limit + work)
        PROVE  \A d \in Undecided' : d.age <= limit + (work + 1)
    BY <1>0, <2>0, <2>1, SecondAges
  <2>2. CASE pc \in Polled
    <3>1. Young(0 + work)
      BY <1>0, <2>2 DEF DumpAges, Young
    <3>2. \A d \in Undecided' : d.age <= 0 + (work + 1)
      BY <2>1, <3>1
    <3> QED BY <1>0, <2>0, <2>2, <3>2 DEF DumpAges, Young, Polled
  <2>3. CASE pc = "job"
    <3>1. \A d \in Undecided' : d.age <= Spent(command) + (work + 1)
      BY <1>1, <2>1, <2>3 DEF DumpAges
    <3> QED BY <2>0, <2>3, <3>1 DEF DumpAges, Young, Polled
  <2>4. CASE pc = "launch"
    <3>1. \A d \in Undecided' : d.age <= Spent(command - 1) + (work + 1)
      BY <1>2, <2>1, <2>4 DEF DumpAges
    <3> QED BY <2>0, <2>4, <3>1 DEF DumpAges, Young, Polled
  <2>5. CASE pc = "running"
    <3>1. Spent(command - 1) + elapsed \in Nat
      BY <1>0, <1>2, <2>5
    <3>2. \A d \in Undecided' : d.age <= Spent(command - 1) + elapsed + (work + 1)
      BY <2>1, <2>5, <3>1 DEF DumpAges
    <3> QED BY <2>0, <2>5, <3>2 DEF DumpAges, Young, Polled
  <2>6. CASE pc = "rest"
    <3>1. \A d \in Undecided' : d.age <= busy + (work + 1)
      BY <1>1, <2>1, <2>6 DEF DumpAges, busy
    <3> QED BY <2>0, <2>6, <3>1 DEF DumpAges, Young, Polled, busy
  <2>7. CASE pc \in {"sleep", "failed"}
    <3>1. busy + elapsed \in Nat
      BY <1>0, <1>1
    <3>2. \A d \in Undecided' : d.age <= busy + elapsed + (work + 1)
      BY <2>1, <2>7, <3>1 DEF DumpAges, busy
    <3> QED BY <2>0, <2>7, <3>2 DEF DumpAges, Young, Polled, busy
  <2>8. CASE pc \in {"starting", "systemd"}
    <3>1. busy + Wait \in Nat
      BY <1>0, <1>1
    <3>2. \A d \in Undecided' : d.age <= busy + Wait + (work + 1)
      BY <2>1, <2>8, <3>1 DEF DumpAges, busy
    <3> QED BY <2>0, <2>8, <3>2 DEF DumpAges, Young, Polled, busy
  <2> QED
    BY <2>0, <2>2, <2>3, <2>4, <2>5, <2>6, <2>7, <2>8 DEF Typed, PlaceType, Polled
<1>4. CASE CollectSystemd \/ SystemdFails
  <2>1. pc = "systemd" /\ pc' = "storage"
        /\ \E fate \in {"reported", "excused"} : journal' = Fated(Dumps(journal), fate)
    BY <1>4, PollActs
  <2>2. Young(Window)
    BY <1>0, <1>1, <2>1 DEF DumpAges, Young, busy
  <2>3. Undecided' = {}
    BY <1>0, <2>1, <2>2, FatedDecides
  <2> QED BY <2>1, <2>3 DEF DumpAges, Polled, Young
<1>5. CASE StartFails
  <2>1. pc = "starting" /\ pc' = "failed" /\ journal' = Fated(journal, "excused")
    BY <1>5 DEF StartFails, At
  <2>2. Young(Window)
    BY <1>0, <1>1, <2>1 DEF DumpAges, Young, busy
  <2>3. Undecided' = {}
    BY <1>0, <2>1, <2>2, FatedDecides DEF Dumps
  <2> QED BY <2>1, <2>3 DEF DumpAges, Polled, Young
<1>6. CASE ProcessDumps
  <2>1. /\ UNCHANGED <<pc, command, elapsed, work>>
        /\ pc # "exited"
        /\ \E u \in Units : journal' = journal \cup {[subject |-> u, age |-> 0, fate |-> "pending"]}
    BY <1>6 DEF ProcessDumps, InService, IsRestarted, At, jobVars
  <2>2. \A d \in Undecided' : d \in Undecided \/ d.age = 0
    BY <2>1 DEF Undecided
  <2>3. ASSUME NEW limit \in Nat, Young(limit)
        PROVE  \A d \in Undecided' : d.age <= limit
    BY <2>2, <2>3 DEF Young
  <2>4. /\ Spent(command) + work \in Nat /\ busy + work \in Nat
        /\ busy + elapsed + work \in Nat /\ busy + Wait + work \in Nat
        /\ pc \in {"launch", "running"} =>
             Spent(command - 1) + work \in Nat /\ Spent(command - 1) + elapsed + work \in Nat
    BY <1>0, <1>1, <1>2
  <2> QED BY <1>0, <2>1, <2>3, <2>4 DEF DumpAges, Young, Polled, busy
<1>7. CASE UNCHANGED journal
  <2>0. Undecided' = Undecided
    BY <1>7 DEF Undecided
  <2>1. CASE Start
    BY <1>0, <1>1, <2>0, <2>1 DEF Start, At, DumpAges, Young, Polled, busy
  <2>2. CASE LogFindings
    BY <1>0, <1>1, <2>0, <2>2 DEF LogFindings, jobVars, At, DumpAges, Young, Polled
  <2>3. CASE RunCommand
    <3>1. command' - 1 = command /\ work' = work /\ pc = "job" /\ pc' = "launch"
      BY <1>0, <2>3 DEF RunCommand, At
    <3> QED BY <2>0, <3>1 DEF DumpAges, Young, Polled
  <2>4. CASE Launch
    BY <1>0, <1>2, <2>0, <2>4 DEF Launch, At, DumpAges, Young, Polled
  <2>5. CASE CommandThrows
    BY <1>0, <1>1, <1>2, <2>0, <2>5 DEF CommandThrows, At, DumpAges, Young, Polled, TimeInv, busy
  <2>6. CASE TakeResult
    BY <1>0, <1>1, <1>2, <2>0, <2>6 DEF TakeResult, At, DumpAges, Young, Polled, TimeInv
  <2>7. CASE JobEnds
    BY <1>0, <1>1, <2>0, <2>7 DEF JobEnds, At, DumpAges, Young, Polled, busy
  <2>8. CASE Rests
    BY <1>0, <1>1, <2>0, <2>8 DEF Rests, Exits, At, DumpAges, Young, Polled, busy
  <2>9. CASE Wakes
    BY <1>0, <1>1, <2>0, <2>9 DEF Wakes, Exits, At, DumpAges, Young, Polled, TimeInv, busy
  <2>10. CASE Restart
    BY <1>0, <1>1, <2>0, <2>10 DEF Restart, IsRestarted, At, DumpAges, Young, Polled, busy
  <2>11. CASE UNCHANGED <<pc, command, elapsed, work>>
    BY <2>0, <2>11 DEF DumpAges, Young
  <2>12. CASE pc \in Polled /\ pc' \in Polled \cup {"exited"} /\ work' = work
    BY <1>0, <1>1, <2>0, <2>12 DEF DumpAges, Young, Polled, busy
  <2> QED
    BY <1>3, <1>4, <1>5, <1>6, <1>8, <2>1, <2>2, <2>3, <2>4, <2>5, <2>6, <2>7, <2>8, <2>9, <2>10,
       <2>11, <2>12
    DEF Next, Process, Statements, System, vars, jobVars, At, Polled, CollectStorage, StorageFails,
        Collected, CollectMemory, MemoryFails, CollectPacman, PacmanFails, AfterCollecting,
        StoreEvents, Diagnose, Report, CommandReturns, UnitChanges, KernelKills, handleSignal
<1> QED
  BY <1>3, <1>4, <1>5, <1>6, <1>7, <1>8
  DEF Next, Process, Statements, System, vars, worldVars, Start, CollectStorage, StorageFails,
      CollectMemory, MemoryFails, CollectPacman, PacmanFails, StoreEvents, Diagnose,
      LogFindings, Report, RunCommand, Launch, CommandReturns, CommandThrows, TakeResult,
      JobEnds, Rests, Wakes, Restart, UnitChanges, KernelKills, handleSignal

\* Where the dumps are young no undecided one has left the window.
LEMMA YoungAreReported == Typed /\ TimeInv /\ DumpInv => CoredumpsAreReported
<1> SUFFICES ASSUME Typed, TimeInv, DumpAges, mode = "loop", PollsFitWindow,
                    NEW d \in journal, d.age > Window, ~isUnitIgnored(d.subject),
                    d.fate = "pending"
             PROVE  FALSE
  BY DEF DumpInv, CoredumpsAreReported
<1>1. d \in Undecided /\ d.age \in Nat
  BY WindowType DEF Undecided, Typed, WorldType, Dump
<1>2. /\ {interval, CommandTime, RestartSec, WorkTime, Window, Wait} \subseteq Nat
      /\ elapsed \in Nat /\ work \in Nat /\ commands \in Nat /\ command \in 0..commands
      /\ interval <= Wait /\ RestartSec <= Wait /\ work <= WorkTime
  BY HealthAssumption, WindowType, CommandsType DEF Typed, CountType, Wait, TimeInv
<1>3. /\ Spent(commands) \in Nat /\ Spent(command) \in Nat /\ Spent(command) <= Spent(commands)
      /\ Spent(commands) + Wait + WorkTime <= Window
  BY <1>2, SpentGrows DEF PollsFitWindow, Spent, Wait
<1>4. pc \in {"launch", "running"} => /\ Spent(command - 1) \in Nat
                                      /\ Spent(command - 1) + CommandTime = Spent(command)
  <2>1. pc \in {"launch", "running"} => command - 1 \in Nat /\ command \in Nat \ {0}
    BY <1>2 DEF TimeInv
  <2> QED BY <2>1, OneMoreCommand, SpentGrows
<1> QED
  BY <1>1, <1>2, <1>3, <1>4 DEF DumpAges, Young, Polled, TimeInv, Typed, PlaceType

\* Provided that the commands, the sleep or the restart, and WorkTime for all the
\* rest of an iteration fit the window, no core dump of a unit that is not
\* ignored leaves the window before a poll has looked at it or the process could
\* not be started, whenever it happens and wherever the time is spent, for any
\* number and length of commands and any number of restarts.
THEOREM NoCoredumpIsMissed == Spec => []CoredumpsAreReported
<1>1. Init => TimeInv
  BY HealthAssumption DEF Init, TimeInv
<1>2. Init => DumpInv
  BY DEF Init, DumpInv, DumpAges, Undecided, Young
<1> QED BY <1>1, <1>2, NextTime, NextDump, YoungAreReported, TypedHolds, PTL DEF Spec

================================================================================
