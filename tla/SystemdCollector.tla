---------------------------- MODULE SystemdCollector ----------------------------
(***************************************************************************)
(* libs/health/SystemdCollector.cpp: failed units, the polls at which each *)
(* was found failed, and the core dumps the journal has of late.           *)
(*                                                                         *)
(* A time point is kept as its age, now - time point, which Aged advances  *)
(* with the clock; `timepoint < now - window` is then `age > window`.  The *)
(* polls of a process are at least a second apart, so that no two time     *)
(* points of a unit have the same age and a set of ages loses none.        *)
(***************************************************************************)
EXTENDS ObservationEvents, FiniteSets

CONSTANTS
  Units,
  ignore_units,              \* units and executables that are not reported
  flapping_threshold,
  flapping_window_seconds

ASSUME SystemdAssumption == flapping_threshold \in Int /\ flapping_window_seconds \in Int

VARIABLE flapping_state   \* recent_starts of each unit, as ages

SystemdInit == flapping_state = [u \in Units |-> {}]

\* Non-positive options fall back to the defaults.
Threshold == IF flapping_threshold <= 0 THEN 3 ELSE flapping_threshold
Window    == IF flapping_window_seconds <= 0 THEN 300 ELSE flapping_window_seconds

\* `seconds` pass.
Aged(seconds) ==
  flapping_state' = [u \in Units |-> {age + seconds : age \in flapping_state[u]}]

isUnitIgnored(subject) == subject \in ignore_units

\* Mutant of pruneOldTimestamps: nothing is dropped.
pruneOldTimestamps_keeps == flapping_state

pruneOldTimestamps ==
  [u \in Units |-> {age \in flapping_state[u] : age <= Window}]

SystemdEvent(category, subject, signal, value, severity) ==
  ObservationEvent("systemd", category, subject, signal, value, severity)

\* The units of the reply, as far as it could be read, that have failed.
Failed(listed, units) == {u \in listed : units[u] = "failed" /\ ~isUnitIgnored(u)}

\* The poll itself is what is counted, whether or not the unit was restarted
\* since the last one.
Counted(failed) ==
  [u \in Units |-> pruneOldTimestamps[u] \cup When(u \in failed, {0})]

collectUnitEvents(failed) ==
  UNION {{SystemdEvent("systemd.unit", u, "unit_failed", Word("failed"), Error)}
           \cup When(Cardinality(Counted(failed)[u]) >= Threshold,
                     {SystemdEvent("systemd.unit", u, "unit_flapping",
                                   Int64(Cardinality(Counted(failed)[u])), Warning)}) :
         u \in failed}

\* Mutant of Dumps: the end of the window is left out.
Dumps_before(journal) ==
  {d \in journal : d.age < Window /\ ~isUnitIgnored(d.subject)}

\* The dumps since the start of the window, whether or not an earlier poll has
\* reported them.
Dumps(journal) == {d \in journal : d.age <= Window /\ ~isUnitIgnored(d.subject)}

collectCoredumpEvents(journal) ==
  {SystemdEvent("systemd.coredump", d.subject, "coredump", Word(d.subject), Error) :
     d \in Dumps(journal)}

================================================================================
