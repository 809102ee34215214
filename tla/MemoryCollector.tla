---------------------------- MODULE MemoryCollector ----------------------------
(***************************************************************************)
(* libs/health/MemoryCollector.cpp: pressure, usage, and the kernel's      *)
(* count of OOM kills, of which the collector keeps the value of its last  *)
(* successful reading.  A view is what the files under /proc say.          *)
(***************************************************************************)
EXTENDS ObservationEvents

CONSTANTS                    \* percentages: doubles in options_, whole numbers here
  some_warning_threshold,
  full_critical_threshold,
  meminfo_warning_threshold

VARIABLE baseline_oom_kill   \* the counter's value at the last good reading

MemoryInit == baseline_oom_kill = {}

-------------------------------------------------------------------------------
(* The readings. *)

\* /proc/pressure/memory: the two averages; neither when it cannot be read.
parsePsi(view) == [some |-> view.psi_some, full |-> view.psi_full,
                   success |-> view.psi_some \cup view.psi_full # {}]

\* /proc/meminfo: the percentage in use.  Without MemAvailable it is all.
parseMeminfo(view) ==
  {LET available == IF view.available = {} THEN 0 ELSE CHOOSE a \in view.available : TRUE
   IN  IF total >= available THEN ((total - available) * 100) \div total ELSE 0 :
     total \in {t \in view.total : t > 0}}

\* Mutant of Baseline: what could not be read is forgotten.
Baseline_forgets(counter) ==
  IF \E old \in baseline_oom_kill, val \in counter : val < old
  THEN baseline_oom_kill ELSE counter

\* The baseline after a reading: kept when the counter could not be read, and
\* when it went down.
Baseline(counter) ==
  IF counter = {} \/ \E old \in baseline_oom_kill, val \in counter : val < old
  THEN baseline_oom_kill ELSE counter

\* The kills since the last good reading; none at the first.
Delta(counter) ==
  {p[1] - p[2] : p \in {q \in counter \X baseline_oom_kill : q[1] >= q[2]}}

\* parseVmstatOom moves the baseline before the victim is looked up and before
\* the event exists: a failure after it loses the kills.
parseVmstatOom(counter) == baseline_oom_kill' = Baseline(counter)

-------------------------------------------------------------------------------
(* The events. *)

MemoryEvent(subject, signal, value, severity) ==
  ObservationEvent("memory_collector", "memory", subject, signal, value, severity)

PsiEvents(psi) ==
  {MemoryEvent("psi", "memory_pressure_some", Double(a), Warning) :
     a \in {b \in psi.some : b >= some_warning_threshold}}
  \cup
  {MemoryEvent("psi", "memory_pressure_full", Double(a), Critical) :
     a \in {b \in psi.full : b >= full_critical_threshold}}

MeminfoEvents(percent_used) ==
  {MemoryEvent("meminfo", "memory_used_high", Double(p), Warning) :
     p \in {q \in percent_used : q >= meminfo_warning_threshold}}

OomEvents(delta) ==
  {MemoryEvent("oom_killer", "oom_killer_invoked", Double(d), Error) :
     d \in delta \ {0}}

\* /proc/meminfo is read only when the pressure is not known.
MemoryEvents(view, counter) ==
  (IF parsePsi(view).success THEN PsiEvents(parsePsi(view))
                             ELSE MeminfoEvents(parseMeminfo(view)))
    \cup OomEvents(Delta(counter))

================================================================================
