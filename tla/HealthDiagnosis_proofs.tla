------------------------- MODULE HealthDiagnosis_proofs -------------------------
(***************************************************************************)
(* Proofs about what HealthDaemon makes of what its collectors saw, for    *)
(* any views, thresholds, enabled checks and rule files: what is diagnosed *)
(* of storage and packages is what was seen, and a status report's         *)
(* verdict, its exit code and the rules agree.                             *)
(***************************************************************************)
EXTENDS HealthDaemon_proofs

(***************************************************************************)
(* The rules in force.                                                     *)
(***************************************************************************)

Loaded(files) == rules_ = registerBuiltInRules \cup loadRulesFromDirectory(files)

RulesInv ==
  pc \notin {"starting", "failed"} => \E files \in RuleDirectories[mode] : Loaded(files)

LEMMA NextRules == RulesInv /\ [Next]_vars => RulesInv'
<1> SUFFICES ASSUME RulesInv, [Next]_vars PROVE RulesInv'
  OBVIOUS
<1>1. CASE Start
  BY <1>1 DEF Start, RulesInv, Loaded
<1>2. CASE pc' \in {"starting", "failed"}
  BY <1>2 DEF RulesInv
<1>3. CASE UNCHANGED <<mode, rules_>> /\ pc \notin {"starting", "failed"}
  BY <1>3 DEF RulesInv, Loaded
<1>4. CASE UNCHANGED <<pc, mode, rules_>>
  BY <1>4 DEF RulesInv, Loaded
<1> QED
  BY <1>1, <1>2, <1>3, <1>4
  DEF Next, Process, Statements, System, vars, processVars, At, StartFails, Collected, CollectSystemd,
      SystemdFails, CollectStorage, StorageFails, CollectMemory, MemoryFails, CollectPacman,
      PacmanFails, StoreEvents, Diagnose, LogFindings, Report, RunCommand, Launch,
      CommandReturns, CommandThrows, TakeResult, JobEnds, Rests, Wakes, Restart, Tick, Works,
      UnitChanges, ProcessDumps, KernelKills, handleSignal

(***************************************************************************)
(* What was seen, and the events it became (collectAllEvents).             *)
(***************************************************************************)

\* A pass starts with nothing seen; each collector adds its own view once.
SeenInv ==
  /\ seen = [units |-> seen.units, storage |-> seen.storage, memory |-> seen.memory,
             pacman |-> seen.pacman]
  /\ seen.storage \subseteq StorageViews[mode] /\ seen.pacman \subseteq PacmanViews[mode]
  /\ pc \notin {"memory", "kmsg", "pacman", "store", "diagnose", "log", "report", "exited",
                "failed"} => seen.storage = {}
  /\ pc \notin {"store", "diagnose", "log", "report", "exited", "failed"} => seen.pacman = {}

LEMMA NextSeen == PlaceType /\ SeenInv /\ [Next]_vars => SeenInv'
<1> SUFFICES ASSUME PlaceType, SeenInv, [Next]_vars PROVE SeenInv'
  OBVIOUS
<1>1. CASE CollectSystemd \/ SystemdFails
  BY <1>1 DEF CollectSystemd, SystemdFails, At, processVars, SeenInv
<1>2. CASE CollectStorage \/ StorageFails
  <2>1. /\ pc = "storage" /\ pc' = "memory" /\ mode' = mode
        /\ \E new \in SUBSET StorageViews[mode] : seen' = [seen EXCEPT !.storage = new]
    BY <1>2 DEF CollectStorage, StorageFails, Collected, At, processVars
  <2> QED BY <2>1 DEF SeenInv
<1>3. CASE CollectMemory \/ MemoryFails
  <2>1. /\ pc = "memory" /\ pc' \in {"kmsg", "pacman"} /\ mode' = mode
        /\ \E new : seen' = [seen EXCEPT !.memory = new]
    BY <1>3 DEF CollectMemory, MemoryFails, Collected, At, processVars
  <2> QED BY <2>1 DEF SeenInv
<1>4. CASE CollectPacman \/ PacmanFails
  <2>1. /\ pc = "pacman" /\ pc' \in {"diagnose", "store"} /\ mode' = mode
        /\ \E new \in SUBSET PacmanViews[mode] : seen' = [seen EXCEPT !.pacman = new]
    BY <1>4 DEF CollectPacman, PacmanFails, Collected, AfterCollecting, At, processVars
  <2> QED BY <2>1 DEF SeenInv
<1>5. CASE LogFindings \/ Restart
  BY <1>5 DEF LogFindings, Restart, Nothing, SeenInv
<1>6. CASE UNCHANGED <<seen, mode>> /\ (UNCHANGED pc \/ pc' \in {"exited", "failed"})
  BY <1>6 DEF SeenInv
<1>7. CASE /\ UNCHANGED <<seen, mode>>
           /\ \/ pc \in {"starting", "job", "launch", "running", "rest", "sleep"}
              \/ pc' \in {"store", "diagnose", "log", "report"}
  BY <1>7 DEF SeenInv, PlaceType
<1> QED
  BY <1>1, <1>2, <1>3, <1>4, <1>5, <1>6, <1>7
  DEF Next, Process, Statements, System, vars, processVars, At, Start, StartFails, StoreEvents, Diagnose,
      Report, RunCommand, Launch, CommandReturns, CommandThrows, TakeResult, JobEnds, Rests,
      Wakes, Exits, Tick, Works, UnitChanges, ProcessDumps, KernelKills, handleSignal

Of(category) == {e \in events : e.category = category}

\* The events of the two categories are those of the views.
EventsInv ==
  /\ Of("storage") = UNION {StorageEvents(view) : view \in seen.storage}
  /\ Of("package") = UNION {PacmanEvents(view) : view \in seen.pacman}

\* Each collector has a category of its own.
LEMMA Categories ==
  /\ \A view : \A e \in StorageEvents(view) : e.category = "storage"
  /\ \A view : \A e \in PacmanEvents(view) : e.category = "package"
  /\ \A view, counter : \A e \in MemoryEvents(view, counter) : e.category = "memory"
  /\ \A failed : \A e \in collectUnitEvents(failed) : e.category = "systemd.unit"
  /\ \A e \in collectCoredumpEvents(journal) : e.category = "systemd.coredump"
<1>1. ASSUME NEW view, NEW e \in StorageEvents(view) PROVE e.category = "storage"
  <2>1. PICK path : e \in eventsFromMetrics(path, view.statvfs[path])
    BY <1>1 DEF StorageEvents
  <2>2. CASE view.statvfs[path] = {}
    BY <2>1, <2>2 DEF eventsFromMetrics, StorageEvent, ObservationEvent
  <2>3. CASE view.statvfs[path] # {}
    <3>1. PICK metrics : e \in MetricsEvents(path, metrics)
      BY <2>1, <2>3 DEF eventsFromMetrics
    <3> QED BY <3>1 DEF MetricsEvents, PressureEvents, When, StorageEvent, ObservationEvent
  <2> QED BY <2>2, <2>3
<1>2. ASSUME NEW view, NEW e \in PacmanEvents(view) PROVE e.category = "package"
  BY <1>2
  DEF PacmanEvents, KernelEvents, LockEvents, OrphanEvents, TransactionEvents, When,
      PacmanEvent, ObservationEvent
<1>3. ASSUME NEW view, NEW counter, NEW e \in MemoryEvents(view, counter)
      PROVE  e.category = "memory"
  BY <1>3
  DEF MemoryEvents, PsiEvents, MeminfoEvents, OomEvents, MemoryEvent, ObservationEvent
<1>4. ASSUME NEW failed, NEW e \in collectUnitEvents(failed)
      PROVE  e.category = "systemd.unit"
  BY <1>4 DEF collectUnitEvents, When, SystemdEvent, ObservationEvent
<1>5. ASSUME NEW e \in collectCoredumpEvents(journal)
      PROVE  e.category = "systemd.coredump"
  BY <1>5 DEF collectCoredumpEvents, SystemdEvent, ObservationEvent
<1> QED BY <1>1, <1>2, <1>3, <1>4, <1>5

LEMMA NextEvents == SeenInv /\ EventsInv /\ [Next]_vars => EventsInv'
<1> SUFFICES ASSUME SeenInv, EventsInv, [Next]_vars PROVE EventsInv'
  OBVIOUS
<1>1. CASE CollectSystemd \/ SystemdFails
  <2>1. seen'.storage = seen.storage /\ seen'.pacman = seen.pacman
    BY <1>1 DEF CollectSystemd, SystemdFails, SeenInv
  <2>2. \A e \in events' : e \in events \/ e.category \in {"systemd.unit", "systemd.coredump"}
    BY <1>1, Categories DEF CollectSystemd, SystemdFails, When
  <2>3. events \subseteq events'
    BY <1>1 DEF CollectSystemd, SystemdFails
  <2>4. Of("storage")' = Of("storage") /\ Of("package")' = Of("package")
    BY <2>2, <2>3 DEF Of
  <2> QED BY <2>1, <2>4 DEF EventsInv
<1>2. CASE CollectStorage \/ StorageFails
  <2>1. seen.storage = {} /\ seen'.pacman = seen.pacman
    BY <1>2 DEF CollectStorage, StorageFails, Collected, At, SeenInv
  <2>2. Of("storage") = {}
    BY <2>1 DEF EventsInv
  <2>3. CASE StorageFails
    <3>1. seen'.storage = {} /\ events' = events
      BY <2>3 DEF StorageFails, Collected, SeenInv
    <3> QED BY <2>1, <3>1 DEF EventsInv, Of
  <2>4. CASE CollectStorage
    <3>1. PICK view : events' = events \cup StorageEvents(view) /\ seen'.storage = {view}
      BY <2>4 DEF CollectStorage, Collected, SeenInv
    <3>2. Of("storage")' = StorageEvents(view) /\ Of("package")' = Of("package")
      BY <2>2, <3>1, Categories DEF Of
    <3> QED BY <2>1, <3>1, <3>2 DEF EventsInv
  <2> QED BY <1>2, <2>3, <2>4
<1>3. CASE CollectMemory \/ MemoryFails
  <2>1. seen'.storage = seen.storage /\ seen'.pacman = seen.pacman
    BY <1>3 DEF CollectMemory, MemoryFails, Collected, SeenInv
  <2>2. \A e \in events' : e \in events \/ e.category = "memory"
    BY <1>3, Categories DEF CollectMemory, MemoryFails, Collected, When
  <2>3. events \subseteq events'
    BY <1>3 DEF CollectMemory, MemoryFails, Collected
  <2>4. Of("storage")' = Of("storage") /\ Of("package")' = Of("package")
    BY <2>2, <2>3 DEF Of
  <2> QED BY <2>1, <2>4 DEF EventsInv
<1>4. CASE CollectPacman \/ PacmanFails
  <2>1. seen.pacman = {} /\ seen'.storage = seen.storage
    BY <1>4 DEF CollectPacman, PacmanFails, Collected, At, SeenInv
  <2>2. Of("package") = {}
    BY <2>1 DEF EventsInv
  <2>3. CASE PacmanFails
    <3>1. seen'.pacman = {} /\ events' = events
      BY <2>3 DEF PacmanFails, Collected, SeenInv
    <3> QED BY <2>1, <3>1 DEF EventsInv, Of
  <2>4. CASE CollectPacman
    <3>1. PICK view : events' = events \cup PacmanEvents(view) /\ seen'.pacman = {view}
      BY <2>4 DEF CollectPacman, Collected, SeenInv
    <3>2. Of("package")' = PacmanEvents(view) /\ Of("storage")' = Of("storage")
      BY <2>2, <3>1, Categories DEF Of
    <3> QED BY <2>1, <3>1, <3>2 DEF EventsInv
  <2> QED BY <1>4, <2>3, <2>4
<1>5. CASE LogFindings \/ Restart
  BY <1>5 DEF LogFindings, Restart, Nothing, EventsInv, Of
<1>6. CASE UNCHANGED <<events, seen>>
  BY <1>6 DEF EventsInv, Of
<1> QED
  BY <1>1, <1>2, <1>3, <1>4, <1>5, <1>6
  DEF Next, Process, Statements, System, vars, Start, StartFails, StoreEvents, Diagnose, Report,
      RunCommand, Launch, CommandReturns, CommandThrows, TakeResult, JobEnds, Rests, Wakes,
      Tick, Works, UnitChanges, ProcessDumps, KernelKills, handleSignal

\* A diagnosis is of the present rules and events.
FindingsInv == Diagnosed => findings = evaluate(rules_, events)

LEMMA NextFindings == FindingsInv /\ [Next]_vars => FindingsInv'
<1> SUFFICES ASSUME FindingsInv, [Next]_vars PROVE FindingsInv'
  OBVIOUS
<1>1. CASE Diagnose
  BY <1>1 DEF Diagnose, processVars, FindingsInv
<1>2. CASE ~Diagnosed'
  BY <1>2 DEF FindingsInv
<1>3. CASE UNCHANGED <<pc, rules_, events, findings>>
  BY <1>3 DEF FindingsInv, Diagnosed
<1> QED
  BY <1>1, <1>2, <1>3
  DEF Next, Process, Statements, System, vars, processVars, Diagnosed, At, Start, StartFails, Collected,
      CollectSystemd, SystemdFails, CollectStorage, StorageFails, CollectMemory, MemoryFails,
      CollectPacman, PacmanFails, AfterCollecting, StoreEvents, LogFindings, Report,
      RunCommand, Launch, CommandReturns, CommandThrows, TakeResult, JobEnds, Rests, Wakes,
      Exits, Restart, Tick, Works, UnitChanges, ProcessDumps, KernelKills, handleSignal

(***************************************************************************)
(* The built-in rules (evaluate, registerBuiltInRules).                    *)
(***************************************************************************)

ExactIds == {"RULE-KERNEL-001", "RULE-PACMAN-001", "RULE-STORAGE-001"}

\* No rule file takes the id of one of these rules.  The code does not look: the
\* findings of such a file could not be told from theirs.
IdsAreTheirOwn ==
  \A m \in Modes : \A files \in RuleDirectories[m] : \A f \in files :
    f.rule_id \cap ExactIds = {}

Fires(rule) == rule.conditions # {} /\ Satisfied(rule, events)

LEMMA EvaluateFinds ==
  /\ \A f \in evaluate(rules_, events) :
       \E r \in rules_ : Fires(r) /\ f.rule_id = r.rule_id /\ f.severity = r.severity
  /\ \A r \in rules_ : Fires(r) =>
       \E f \in evaluate(rules_, events) : f.rule_id = r.rule_id /\ f.severity = r.severity
<1> DEFINE finding(r) ==
             [rule_id |-> r.rule_id, severity |-> r.severity,
              matched_events |-> UNION {Matching(c, events) : c \in r.conditions}]
<1>1. evaluate(rules_, events) = {finding(r) : r \in {q \in rules_ : Fires(q)}}
  BY DEF evaluate, Fires
<1>2. \A r : finding(r).rule_id = r.rule_id /\ finding(r).severity = r.severity
  OBVIOUS
<1> HIDE DEF finding
<1> QED BY <1>1, <1>2

LEMMA LoadedIds ==
  ASSUME NEW files, NEW r \in loadRulesFromDirectory(files)
  PROVE  \E f \in files : r.rule_id \in f.rule_id
<1>1. PICK f \in files : r \in loadRuleFromJson(f)
  BY DEF loadRulesFromDirectory
<1>2. PICK id \in f.rule_id : \E severity, logic, conditions :
        r = DiagnosticRule(id, severity, logic, conditions)
  BY <1>1 DEF loadRuleFromJson
<1>3. r.rule_id = id
  BY <1>2 DEF DiagnosticRule
<1> QED BY <1>2, <1>3

KernelRule  == DiagnosticRule("RULE-KERNEL-001", Warning, "all",
                 {Expects("package", {"kernel"}, "pacman.kernel_mismatch")})
LockRule    == DiagnosticRule("RULE-PACMAN-001", Warning, "all",
                 {Expects("package", {"pacman_db"}, "pacman.stale_lock")})
StorageRule == DiagnosticRule("RULE-STORAGE-001", Warning, "any",
                 {Expects("storage", {}, "space_pressure"),
                  Expects("storage", {}, "inode_pressure")})

\* With ids of their own the findings of the three rules are theirs.
LEMMA FoundFires ==
  ASSUME IdsAreTheirOwn, CountType, RulesInv, FindingsInv, Diagnosed
  PROVE  /\ Found("RULE-KERNEL-001")  <=> Fires(KernelRule)
         /\ Found("RULE-PACMAN-001")  <=> Fires(LockRule)
         /\ Found("RULE-STORAGE-001") <=> Fires(StorageRule)
<1>1. PICK files \in RuleDirectories[mode] : Loaded(files)
  BY DEF RulesInv, Diagnosed
<1>2. ASSUME NEW id \in ExactIds
      PROVE  Found(id) <=> \E r \in registerBuiltInRules : r.rule_id = id /\ Fires(r)
  <2>1. Found(id) <=> \E r \in rules_ : r.rule_id = id /\ Fires(r)
    BY EvaluateFinds DEF Found, FindingsInv
  <2>2. \A r \in loadRulesFromDirectory(files) : r.rule_id # id
    BY LoadedIds DEF IdsAreTheirOwn, CountType
  <2> QED BY <1>1, <2>1, <2>2 DEF Loaded
<1>3. \A r \in registerBuiltInRules :
        /\ r.rule_id = "RULE-KERNEL-001"  <=> r = KernelRule
        /\ r.rule_id = "RULE-PACMAN-001"  <=> r = LockRule
        /\ r.rule_id = "RULE-STORAGE-001" <=> r = StorageRule
  BY DEF registerBuiltInRules, KernelRule, LockRule, StorageRule, DiagnosticRule
<1>4. {KernelRule, LockRule, StorageRule} \subseteq registerBuiltInRules
  BY DEF registerBuiltInRules, KernelRule, LockRule, StorageRule
<1> QED BY <1>2, <1>3, <1>4 DEF ExactIds

\* What a condition of a built-in rule looks at.
LEMMA ExpectsMatches ==
  ASSUME NEW category, NEW subject, NEW signal, NEW e
  PROVE  matchEventToCondition(e, Expects(category, subject, signal)) <=>
           /\ e.category = category /\ subject \subseteq {e.subject}
           /\ e.signal = signal /\ e.severity >= Warning
  BY DEF matchEventToCondition, Expects, AnyEvent

LEMMA FiresMeans ==
  /\ Fires(KernelRule) <=>
       \E e \in Of("package") : /\ e.subject = "kernel" /\ e.signal = "pacman.kernel_mismatch"
                                /\ e.severity >= Warning
  /\ Fires(LockRule) <=>
       \E e \in Of("package") : /\ e.subject = "pacman_db" /\ e.signal = "pacman.stale_lock"
                                /\ e.severity >= Warning
  /\ Fires(StorageRule) <=>
       \E e \in Of("storage") : /\ e.signal \in {"space_pressure", "inode_pressure"}
                                /\ e.severity >= Warning
<1>1. Fires(KernelRule) <=>
        \E e \in events : matchEventToCondition(e, Expects("package", {"kernel"}, "pacman.kernel_mismatch"))
  BY DEF Fires, KernelRule, DiagnosticRule, Satisfied, evaluateAllLogic, Matching
<1>2. Fires(LockRule) <=>
        \E e \in events : matchEventToCondition(e, Expects("package", {"pacman_db"}, "pacman.stale_lock"))
  BY DEF Fires, LockRule, DiagnosticRule, Satisfied, evaluateAllLogic, Matching
<1>3. Fires(StorageRule) <=>
        \E e \in events :
          \/ matchEventToCondition(e, Expects("storage", {}, "space_pressure"))
          \/ matchEventToCondition(e, Expects("storage", {}, "inode_pressure"))
  BY DEF Fires, StorageRule, DiagnosticRule, Satisfied, evaluateAnyLogic, Matching
<1>4. Fires(KernelRule) <=>
        \E e \in Of("package") : /\ e.subject = "kernel" /\ e.signal = "pacman.kernel_mismatch"
                                 /\ e.severity >= Warning
  BY <1>1, ExpectsMatches DEF Of
<1>5. Fires(LockRule) <=>
        \E e \in Of("package") : /\ e.subject = "pacman_db" /\ e.signal = "pacman.stale_lock"
                                 /\ e.severity >= Warning
  BY <1>2, ExpectsMatches DEF Of
<1>6. Fires(StorageRule) <=>
        \E e \in Of("storage") : /\ e.signal \in {"space_pressure", "inode_pressure"}
                                 /\ e.severity >= Warning
  BY <1>3, ExpectsMatches DEF Of
<1> QED BY <1>4, <1>5, <1>6

(***************************************************************************)
(* The collectors' events against what they saw.                           *)
(***************************************************************************)

\* A truncated percentage reaches a threshold when the exact one does.
LEMMA PercentReaches ==
  ASSUME NEW part \in Nat, NEW whole \in Nat, NEW threshold \in Nat
  PROVE  Percent(part, whole) \in Nat /\
         (Percent(part, whole) >= threshold <=>
            threshold = 0 \/ (whole > 0 /\ 100 * part >= threshold * whole))
<1>1. CASE whole = 0
  BY <1>1 DEF Percent
<1>2. CASE whole > 0
  <2> DEFINE n == 100 * part
  <2>1. n \in Nat
    OBVIOUS
  <2> HIDE DEF n
  <2>2. n \div whole \in Nat /\ n % whole \in 0..(whole - 1) /\ n = whole * (n \div whole) + (n % whole)
    BY <1>2, <2>1
  <2>3. n \div whole >= threshold <=> n >= threshold * whole
    BY <1>2, <2>1, <2>2
  <2>4. Percent(part, whole) = n \div whole
    BY <1>2 DEF Percent, n
  <2>5. threshold = 0 => n \div whole >= threshold
    BY <2>2
  <2> QED BY <1>2, <2>2, <2>3, <2>4, <2>5 DEF n
<1> QED BY <1>1, <1>2

\* What reaches a threshold reaches a lower one.
LEMMA LowerThreshold ==
  ASSUME NEW used \in Int, NEW of \in Nat, NEW high \in Nat, NEW low \in Nat, low <= high,
         Under(used, of, high)
  PROVE  Under(used, of, low)
<1>1. CASE high = 0
  BY <1>1 DEF Under
<1>2. CASE of > 0 /\ 100 * used >= high * of
  <2>1. high * of \in Nat /\ low * of \in Nat /\ low * of <= high * of
    <3>1. (high - low) * of \in Nat /\ high * of = low * of + (high - low) * of
      OBVIOUS
    <3>2. high * of \in Nat /\ low * of \in Nat
      OBVIOUS
    <3> QED BY <3>1, <3>2
  <2> QED BY <1>2, <2>1 DEF Under
<1> QED BY <1>1, <1>2 DEF Under

IsPressure(e) == e.signal \in {"space_pressure", "inode_pressure"} /\ e.severity >= Warning

LEMMA PressureShows ==
  ASSUME NEW path, NEW signal \in {"space_pressure", "inode_pressure"}, NEW percent \in Nat
  PROVE  (\E e \in PressureEvents(path, signal, percent) : IsPressure(e))
           <=> percent >= storage_warning
<1> DEFINE severity == IF percent >= storage_critical THEN Critical ELSE Warning
           event    == StorageEvent(path, signal, Double(percent), severity)
<1>1. severity >= Warning
  BY DEF Critical, Warning
<1>2. event.signal = signal /\ event.severity = severity
  BY DEF StorageEvent, ObservationEvent
<1>3. PressureEvents(path, signal, percent) = IF percent >= storage_warning THEN {event} ELSE {}
  BY DEF PressureEvents, When
<1> HIDE DEF severity, event
<1> QED BY <1>1, <1>2, <1>3 DEF IsPressure

IsFull(stat) ==
  \/ Under(stat.total - stat.available, stat.total, storage_warning)
  \/ Under(stat.inodes - stat.free_inodes, stat.inodes, storage_warning)

\* One file system: pressure is reported when space or inodes reach the warning
\* threshold, more free inodes than inodes included.
LEMMA StatShows ==
  ASSUME NEW path, NEW stat,
         {stat.total, stat.available, stat.inodes, stat.free_inodes} \subseteq Nat,
         stat.available <= stat.total
  PROVE  (\E e \in MetricsEvents(path, inspectMountMetrics(stat)) : IsPressure(e))
           <=> IsFull(stat)
<1> DEFINE space  == Percent(stat.total - stat.available, stat.total)
           inodes == Percent(IF stat.inodes > stat.free_inodes
                             THEN stat.inodes - stat.free_inodes ELSE 0, stat.inodes)
<1>0. storage_warning \in Nat
  BY StorageAssumption
<1>1. /\ space \in Nat
      /\ space >= storage_warning <=>
           Under(stat.total - stat.available, stat.total, storage_warning)
  <2>1. stat.total - stat.available \in Nat /\ stat.total \in Nat
    OBVIOUS
  <2> QED BY <1>0, <2>1, PercentReaches DEF Under
<1>2. /\ inodes \in Nat
      /\ inodes >= storage_warning <=>
           Under(stat.inodes - stat.free_inodes, stat.inodes, storage_warning)
  <2>1. CASE stat.inodes > stat.free_inodes
    <3>1. stat.inodes - stat.free_inodes \in Nat /\ stat.inodes \in Nat
      BY <2>1
    <3> QED BY <1>0, <2>1, <3>1, PercentReaches DEF Under
  <2>2. CASE ~(stat.inodes > stat.free_inodes)
    <3>1. inodes = Percent(0, stat.inodes)
      BY <2>2
    <3>2. /\ Percent(0, stat.inodes) \in Nat
          /\ Percent(0, stat.inodes) >= storage_warning <=>
               storage_warning = 0 \/ (stat.inodes > 0 /\ 100 * 0 >= storage_warning * stat.inodes)
      BY <1>0, PercentReaches
    <3>3. storage_warning # 0 /\ stat.inodes > 0 => storage_warning * stat.inodes > 0
      BY <1>0
    <3>4. storage_warning # 0 /\ stat.inodes > 0 =>
            ~(100 * (stat.inodes - stat.free_inodes) >= storage_warning * stat.inodes)
      <4>1. 100 * (stat.inodes - stat.free_inodes) <= 0
        BY <2>2
      <4>2. storage_warning * stat.inodes \in Nat
        BY <1>0
      <4> QED BY <3>3, <4>1, <4>2
    <3> QED BY <1>0, <3>1, <3>2, <3>3, <3>4 DEF Under
  <2> QED BY <2>1, <2>2
<1>3. /\ inspectMountMetrics(stat).percent_used = space
      /\ inspectMountMetrics(stat).inode_percent_used = inodes
  BY DEF inspectMountMetrics
<1> HIDE DEF space, inodes
<1>4. \A e \in When(inspectMountMetrics(stat).is_read_only,
                    {StorageEvent(path, "read_only_filesystem", NoValue, Error)}) : ~IsPressure(e)
  BY DEF When, StorageEvent, ObservationEvent, IsPressure
<1>5. (\E e \in PressureEvents(path, "space_pressure", space) : IsPressure(e))
        <=> space >= storage_warning
  BY <1>1, PressureShows
<1>6. (\E e \in PressureEvents(path, "inode_pressure", inodes) : IsPressure(e))
        <=> inodes >= storage_warning
  BY <1>2, PressureShows
<1>7. \A e : e \in MetricsEvents(path, inspectMountMetrics(stat)) <=>
        \/ e \in When(inspectMountMetrics(stat).is_read_only,
                      {StorageEvent(path, "read_only_filesystem", NoValue, Error)})
        \/ e \in PressureEvents(path, "space_pressure", space)
        \/ e \in PressureEvents(path, "inode_pressure", inodes)
  BY <1>3 DEF MetricsEvents
<1> QED BY <1>1, <1>2, <1>4, <1>5, <1>6, <1>7 DEF IsFull

LEMMA StorageShows ==
  ASSUME mode \in Modes, NEW view \in StorageViews[mode]
  PROVE  (\E e \in StorageEvents(view) : IsPressure(e)) <=>
           \E path \in Targets(view) : \E stat \in view.statvfs[path] : IsFull(stat)
<1>1. ASSUME NEW path \in Targets(view)
      PROVE  (\E e \in eventsFromMetrics(path, view.statvfs[path]) : IsPressure(e)) <=>
               \E stat \in view.statvfs[path] : IsFull(stat)
  <2>1. CASE view.statvfs[path] = {}
    <3>1. \A e \in eventsFromMetrics(path, view.statvfs[path]) : ~IsPressure(e)
      BY <2>1 DEF eventsFromMetrics, StorageEvent, ObservationEvent, IsPressure
    <3> QED BY <2>1, <3>1
  <2>2. CASE view.statvfs[path] # {}
    <3>1. \A e : e \in eventsFromMetrics(path, view.statvfs[path]) <=>
            \E stat \in view.statvfs[path] : e \in MetricsEvents(path, inspectMountMetrics(stat))
      BY <2>2 DEF eventsFromMetrics
    <3>2. \A stat \in view.statvfs[path] :
            /\ {stat.total, stat.available, stat.inodes, stat.free_inodes} \subseteq Nat
            /\ stat.available <= stat.total
      BY ViewAssumption
    <3>3. \A stat \in view.statvfs[path] :
            (\E e \in MetricsEvents(path, inspectMountMetrics(stat)) : IsPressure(e)) <=> IsFull(stat)
      BY <3>2, StatShows
    <3> QED BY <3>1, <3>3
  <2> QED BY <2>1, <2>2
<1>2. \A e : e \in StorageEvents(view) <=>
        \E path \in Targets(view) : e \in eventsFromMetrics(path, view.statvfs[path])
  BY DEF StorageEvents
<1> QED BY <1>1, <1>2

IsMismatch(e) ==
  e.subject = "kernel" /\ e.signal = "pacman.kernel_mismatch" /\ e.severity >= Warning

IsStaleLock(e) ==
  e.subject = "pacman_db" /\ e.signal = "pacman.stale_lock" /\ e.severity >= Warning

\* The kernel and the lock are reported whatever becomes of the orphans after
\* them; a pid of 0 has no process.
LEMMA PacmanShows ==
  ASSUME mode \in Modes, NEW view \in PacmanViews[mode]
  PROVE  /\ (\E e \in PacmanEvents(view) : IsMismatch(e)) <=>
              /\ view.db_exists /\ "kernel" \in checks
              /\ \E k \in view.running_kernel, dirs \in view.modules : k \notin dirs
         /\ (\E e \in PacmanEvents(view) : IsStaleLock(e)) <=>
              /\ view.db_exists /\ "locks" \in checks
              /\ view.lock_exists /\ view.lock_pid \cap view.processes = {}
<1> DEFINE later == When(~(view.unprintable /\ OrphanEvents(view) # {}),
                         OrphanEvents(view) \cup TransactionEvents(view))
<1>0. view.processes \subseteq Nat \ {0}
  BY ViewAssumption
<1>1. \A e \in later : ~IsMismatch(e) /\ ~IsStaleLock(e)
  <2>1. \A e \in OrphanEvents(view) : e.signal = "pacman.pacnew_files"
    BY DEF OrphanEvents, When, PacmanEvent, ObservationEvent
  <2>2. \A e \in TransactionEvents(view) : e.signal = "pacman.interrupted_transaction"
    BY DEF TransactionEvents, When, PacmanEvent, ObservationEvent
  <2> QED BY <2>1, <2>2 DEF When, IsMismatch, IsStaleLock
<1>2. (\E e \in KernelEvents(view) : IsMismatch(e)) <=>
        "kernel" \in checks /\ evaluateKernelState(view)
  <2> DEFINE event == PacmanEvent("kernel", "pacman.kernel_mismatch", True, Warning)
  <2>1. IsMismatch(event)
    BY DEF PacmanEvent, ObservationEvent, IsMismatch, Warning
  <2>2. KernelEvents(view) = IF "kernel" \in checks /\ evaluateKernelState(view)
                             THEN {event} ELSE {}
    BY DEF KernelEvents, When
  <2> HIDE DEF event
  <2> QED BY <2>1, <2>2
<1>3. \A e \in KernelEvents(view) : ~IsStaleLock(e)
  BY DEF KernelEvents, When, PacmanEvent, ObservationEvent, IsStaleLock
<1>4. \A e \in LockEvents(view) : ~IsMismatch(e)
  BY DEF LockEvents, When, PacmanEvent, ObservationEvent, IsMismatch
<1>5. evaluateLockState(view).is_active <=> view.lock_pid \cap view.processes # {}
  BY <1>0 DEF evaluateLockState
<1>6. (\E e \in LockEvents(view) : IsStaleLock(e)) <=>
        "locks" \in checks /\ view.lock_exists /\ ~evaluateLockState(view).is_active
  <2> DEFINE lock == evaluateLockState(view)
             value == Int64(IF lock.pid = {} THEN 0 ELSE CHOOSE p \in lock.pid : TRUE)
             active == PacmanEvent("pacman_db", "pacman.active_lock", value, Info)
             stale  == PacmanEvent("pacman_db", "pacman.stale_lock", value, Warning)
  <2>1. ~IsStaleLock(active) /\ IsStaleLock(stale)
    BY DEF PacmanEvent, ObservationEvent, IsStaleLock, Warning
  <2>2. LockEvents(view) = IF "locks" \in checks /\ lock.exists
                           THEN {IF lock.is_active THEN active ELSE stale} ELSE {}
    BY DEF LockEvents, When
  <2>3. lock.exists = view.lock_exists
    BY DEF evaluateLockState
  <2> HIDE DEF active, stale
  <2> QED BY <2>1, <2>2, <2>3
<1>7. \A e : e \in PacmanEvents(view) <=>
        /\ view.db_exists
        /\ e \in KernelEvents(view) \/ e \in LockEvents(view) \/ e \in later
  BY DEF PacmanEvents, When
<1> HIDE DEF later
<1>8. (\E e \in PacmanEvents(view) : IsMismatch(e)) <=>
        view.db_exists /\ "kernel" \in checks /\ evaluateKernelState(view)
  BY <1>1, <1>2, <1>4, <1>7
<1>9. (\E e \in PacmanEvents(view) : IsStaleLock(e)) <=>
        view.db_exists /\ "locks" \in checks /\ view.lock_exists /\ ~evaluateLockState(view).is_active
  BY <1>1, <1>3, <1>6, <1>7
<1> QED BY <1>5, <1>8, <1>9 DEF evaluateKernelState

Diagnosis == RulesInv /\ SeenInv /\ EventsInv /\ FindingsInv

LEMMA DiagnosisHolds == Spec => []Diagnosis
<1>1. Init => Diagnosis
  <2>1. Init => RulesInv /\ FindingsInv
    BY DEF Init, RulesInv, FindingsInv, Diagnosed
  <2>2. Init => SeenInv
    BY DEF Init, Nothing, SeenInv
  <2>3. Init => EventsInv
    BY DEF Init, Nothing, EventsInv, Of
  <2> QED BY <2>1, <2>2, <2>3 DEF Diagnosis
<1>2. Typed /\ Diagnosis /\ [Next]_vars => Diagnosis'
  BY NextRules, NextSeen, NextEvents, NextFindings DEF Typed, Diagnosis
<1> QED BY <1>1, <1>2, TypedHolds, PTL DEF Spec

\* Whatever the rule files, views and thresholds, and whatever else failed in the
\* pass, a kernel without its modules and a lock without an owner are diagnosed
\* exactly when their collector saw them; a file system used to the threshold
\* and to the rule's 90 percent is, and one below the threshold is not.
THEOREM DiagnosisIsExact ==
  ASSUME IdsAreTheirOwn
  PROVE  Spec => []DiagnosesWhatItSaw
<1>1. Typed /\ Diagnosis => DiagnosesWhatItSaw
  <2> SUFFICES ASSUME CountType, RulesInv, SeenInv, EventsInv, FindingsInv, Diagnosed
               PROVE  DiagnosesWhatItSaw
    BY DEF Typed, Diagnosis, DiagnosesWhatItSaw
  <2>0. mode \in Modes
    BY DEF CountType
  <2>1. Found("RULE-STORAGE-001") <=>
          \E view \in seen.storage : \E e \in StorageEvents(view) : IsPressure(e)
    BY FoundFires, FiresMeans DEF EventsInv, IsPressure
  <2>2. Found("RULE-KERNEL-001") <=>
          \E view \in seen.pacman : \E e \in PacmanEvents(view) : IsMismatch(e)
    BY FoundFires, FiresMeans DEF EventsInv, IsMismatch
  <2>3. Found("RULE-PACMAN-001") <=>
          \E view \in seen.pacman : \E e \in PacmanEvents(view) : IsStaleLock(e)
    BY FoundFires, FiresMeans DEF EventsInv, IsStaleLock
  <2>4. \A view \in seen.storage : view \in StorageViews[mode]
    BY DEF SeenInv
  <2>5. \A view \in seen.pacman : view \in PacmanViews[mode]
    BY DEF SeenInv
  <2>6. Found("RULE-STORAGE-001") <=> SawUsage(storage_warning)
    <3>1. Found("RULE-STORAGE-001") <=>
            \E view \in seen.storage : \E path \in Targets(view) :
              \E s \in view.statvfs[path] : IsFull(s)
      BY <2>0, <2>1, <2>4, StorageShows
    <3> QED BY <3>1 DEF SawUsage, IsFull
  <2>7. Found("RULE-KERNEL-001") <=>
          \E view \in seen.pacman :
            /\ view.db_exists /\ "kernel" \in checks
            /\ \E k \in view.running_kernel, dirs \in view.modules : k \notin dirs
    BY <2>0, <2>2, <2>5, PacmanShows
  <2>8. Found("RULE-PACMAN-001") <=>
          \E view \in seen.pacman :
            /\ view.db_exists /\ "locks" \in checks
            /\ view.lock_exists /\ view.lock_pid \cap view.processes = {}
    BY <2>0, <2>3, <2>5, PacmanShows
  <2> DEFINE high == IF storage_warning > StorageTarget THEN storage_warning ELSE StorageTarget
  <2>9. SawUsage(high) => SawUsage(storage_warning)
    <3>1. storage_warning \in Nat /\ high \in Nat /\ storage_warning <= high
      BY StorageAssumption DEF StorageTarget
    <3> HIDE DEF high
    <3>2. ASSUME NEW view \in seen.storage, NEW path \in Targets(view), NEW s \in view.statvfs[path]
          PROVE  /\ Under(s.total - s.available, s.total, high) =>
                      Under(s.total - s.available, s.total, storage_warning)
                 /\ Under(s.inodes - s.free_inodes, s.inodes, high) =>
                      Under(s.inodes - s.free_inodes, s.inodes, storage_warning)
      <4>1. {s.total, s.available, s.inodes, s.free_inodes} \subseteq Nat
        BY <2>0, <2>4, <3>2, ViewAssumption
      <4>2. s.total - s.available \in Int /\ s.inodes - s.free_inodes \in Int
        BY <4>1
      <4> QED BY <3>1, <4>1, <4>2, LowerThreshold
    <3> QED BY <3>2 DEF SawUsage
  <2> QED BY <2>6, <2>7, <2>8, <2>9 DEF DiagnosesWhatItSaw
<1> QED BY <1>1, DiagnosisHolds, TypedHolds, PTL

(***************************************************************************)
(* The verdict of a status report (formatStatusReport, runStatusCheck).    *)
(***************************************************************************)

\* A set that a function maps a finite set onto is finite.
LEMMA ImageIsFinite ==
  ASSUME NEW S, IsFiniteSet(S), NEW T, NEW f \in [S -> T], \A t \in T : \E s \in S : f[s] = t
  PROVE  IsFiniteSet(T)
<1>1. f \in Surjection(S, T)
  BY DEF Surjection
<1> QED BY <1>1, FS_Surjection

LEMMA FileRulesAreFinite ==
  ASSUME NEW file, IsFiniteSet(file.rule_id)
  PROVE  IsFiniteSet(loadRuleFromJson(file))
<1> DEFINE ids == {i \in file.rule_id :
                     /\ file.parses
                     /\ file.has_title /\ file.has_category
                     /\ \A s \in file.severity : severityFromString(s) # {}
                     /\ \A s \in file.condition_logic : logicOperatorFromString(s) # {}}
           rule(id) == DiagnosticRule(id,
              OrDefault(UNION {severityFromString(s) : s \in file.severity}, Warning),
              OrDefault(UNION {logicOperatorFromString(s) : s \in file.condition_logic}, "all"),
              {parseConditionItem(item) : item \in file.conditions})
           f == [id \in ids |-> rule(id)]
<1>1. IsFiniteSet(ids)
  BY FS_Subset
<1>2. loadRuleFromJson(file) = {rule(id) : id \in ids}
  BY DEF loadRuleFromJson
<1> HIDE DEF ids, rule
<1>3. /\ f \in [ids -> loadRuleFromJson(file)]
      /\ \A r \in loadRuleFromJson(file) : \E id \in ids : f[id] = r
  BY <1>2
<1> HIDE DEF f
<1> QED BY <1>1, <1>3, ImageIsFinite

LEMMA DirectoryRulesAreFinite ==
  ASSUME NEW files, IsFiniteSet(files), \A f \in files : IsFiniteSet(f.rule_id)
  PROVE  IsFiniteSet(loadRulesFromDirectory(files))
<1> DEFINE visited == {g \in files : g.json}
           parts == {loadRuleFromJson(f) : f \in visited}
           f == [file \in visited |-> loadRuleFromJson(file)]
<1>1. IsFiniteSet(visited)
  BY FS_Subset
<1>2. f \in [visited -> parts] /\ \A p \in parts : \E file \in visited : f[file] = p
  OBVIOUS
<1>3. IsFiniteSet(parts)
  <2> HIDE DEF f, visited, parts
  <2> QED BY <1>1, <1>2, ImageIsFinite
<1>4. \A p \in parts : IsFiniteSet(p)
  BY FileRulesAreFinite
<1>5. loadRulesFromDirectory(files) = UNION parts
  BY DEF loadRulesFromDirectory
<1> HIDE DEF parts
<1> QED BY <1>3, <1>4, <1>5, FS_UNION

LEMMA SeverityNames ==
  ASSUME NEW str
  PROVE  severityFromString(str) \subseteq Severity
  BY DEF severityFromString, Severity, Debug, Info, Warning, Error, Critical

\* Every rule in force has one of the five severities, and there are finitely
\* many rules.
LEMMA RulesAreSound ==
  ASSUME CountType, RulesInv, pc \notin {"starting", "failed"}
  PROVE  IsFiniteSet(rules_) /\ \A r \in rules_ : r.severity \in Severity
<1>1. PICK files \in RuleDirectories[mode] : Loaded(files)
  BY DEF RulesInv
<1>2. IsFiniteSet(files) /\ \A f \in files : IsFiniteSet(f.rule_id)
  BY ViewAssumption DEF CountType
<1>3. IsFiniteSet(loadRulesFromDirectory(files))
  BY <1>2, DirectoryRulesAreFinite
<1>4. IsFiniteSet(registerBuiltInRules)
  <2> DEFINE a == DiagnosticRule("RULE-MEMORY-001", Error, "any",
                    {Expects("memory", {}, "oom_kill"), Expects("memory", {}, "memory_pressure")})
             b == DiagnosticRule("RULE-SYSTEMD-001", Error, "all",
                    {Expects("systemd", {}, "unit_failed")})
  <2>1. registerBuiltInRules =
          (({KernelRule} \cup {LockRule}) \cup {StorageRule}) \cup ({a} \cup {b})
    BY DEF registerBuiltInRules, KernelRule, LockRule, StorageRule
  <2> HIDE DEF a, b
  <2>2. IsFiniteSet({KernelRule} \cup {LockRule})
    BY FS_Singleton, FS_Union
  <2>3. IsFiniteSet(({KernelRule} \cup {LockRule}) \cup {StorageRule})
    BY <2>2, FS_Singleton, FS_Union
  <2>4. IsFiniteSet({a} \cup {b})
    BY FS_Singleton, FS_Union
  <2> QED BY <2>1, <2>3, <2>4, FS_Union
<1>5. IsFiniteSet(rules_)
  BY <1>1, <1>3, <1>4, FS_Union DEF Loaded
<1>6. \A r \in registerBuiltInRules : r.severity \in Severity
  BY DEF registerBuiltInRules, DiagnosticRule, Severity, Debug, Warning, Error, Critical
<1>7. ASSUME NEW r \in loadRulesFromDirectory(files) PROVE r.severity \in Severity
  <2>1. PICK f \in files : r \in loadRuleFromJson(f)
    BY <1>7 DEF loadRulesFromDirectory
  <2> DEFINE named == UNION {severityFromString(s) : s \in f.severity}
  <2>2. \E id, logic, conditions : r = DiagnosticRule(id, OrDefault(named, Warning), logic, conditions)
    BY <2>1 DEF loadRuleFromJson
  <2>3. r.severity = OrDefault(named, Warning)
    BY <2>2 DEF DiagnosticRule
  <2>4. named \subseteq Severity
    BY SeverityNames
  <2>5. Warning \in Severity
    BY DEF Severity, Debug, Warning, Critical
  <2> HIDE DEF named
  <2> QED BY <2>3, <2>4, <2>5 DEF OrDefault
<1> QED BY <1>1, <1>5, <1>6, <1>7 DEF Loaded

LEMMA FindingsAreFinite ==
  ASSUME IsFiniteSet(rules_), findings = evaluate(rules_, events)
  PROVE  IsFiniteSet(findings)
<1> DEFINE finding(r) ==
             [rule_id |-> r.rule_id, severity |-> r.severity,
              matched_events |-> UNION {Matching(c, events) : c \in r.conditions}]
           firing == {q \in rules_ : Fires(q)}
           f == [r \in firing |-> finding(r)]
<1>1. findings = {finding(r) : r \in firing}
  BY DEF evaluate, Fires
<1>2. IsFiniteSet(firing)
  BY FS_Subset
<1> HIDE DEF finding, firing
<1>3. f \in [firing -> findings] /\ \A t \in findings : \E s \in firing : f[s] = t
  BY <1>1
<1> HIDE DEF f
<1> QED BY <1>2, <1>3, ImageIsFinite

LEMMA CountsFindings ==
  ASSUME IsFiniteSet(findings), NEW severity
  PROVE  countFindingSeverities(severity) > 0 <=> \E f \in findings : f.severity = severity
<1> DEFINE these == {f \in findings : f.severity = severity}
<1>1. IsFiniteSet(these)
  BY FS_Subset
<1>2. Cardinality(these) \in Nat /\ (Cardinality(these) = 0 <=> these = {})
  BY <1>1, FS_CardinalityType, FS_EmptySet
<1>3. Cardinality(these) > 0 <=> these # {}
  BY <1>2
<1> QED BY <1>3 DEF countFindingSeverities

\* A status check ends only with its report, whose verdict and exit code are
\* those of the rules, whatever the operators they were written with.
VerdictInv ==
  /\ mode = "status" => pc \notin {"store", "log", "job", "launch", "running", "rest", "sleep"}
  /\ Reported => /\ overall_status = "UNHEALTHY" <=> ErrorRules # {}
                 /\ exit_code = {1} <=> ErrorRules # {}

LEMMA NextVerdict ==
  CountType /\ RulesInv /\ FindingsInv /\ VerdictInv /\ [Next]_vars => VerdictInv'
<1> SUFFICES ASSUME CountType, RulesInv, FindingsInv, VerdictInv, [Next]_vars PROVE VerdictInv'
  OBVIOUS
<1>1. CASE Report
  <2> DEFINE bad == \E f \in findings : f.severity \in {Error, Critical}
  <2>1. /\ pc = "report" /\ pc' = "exited"
        /\ overall_status' = IF is_unhealthy THEN "UNHEALTHY" ELSE "OK"
        /\ exit_code' = {IF bad THEN 1 ELSE 0}
        /\ UNCHANGED <<rules_, events>>
    BY <1>1 DEF Report, At, processVars
  <2>2. findings = evaluate(rules_, events)
    BY <2>1 DEF FindingsInv, Diagnosed
  <2>3. IsFiniteSet(rules_) /\ \A r \in rules_ : r.severity \in Severity
    BY <2>1, RulesAreSound
  <2>4. is_unhealthy <=> bad
    BY <2>2, <2>3, FindingsAreFinite, CountsFindings DEF is_unhealthy
  <2>5. bad <=> \E r \in rules_ : r.severity \in {Error, Critical} /\ Fires(r)
    BY <2>2, EvaluateFinds
  <2>6. \A r \in rules_ : r.severity \in {Error, Critical} <=> r.severity >= Error
    BY <2>3 DEF Severity, Debug, Error, Critical
  <2>7. bad <=> ErrorRules # {}
    BY <2>5, <2>6 DEF Fires, ErrorRules
  <2> HIDE DEF bad
  <2>8. /\ exit_code' = {1} <=> bad
        /\ overall_status' = "UNHEALTHY" <=> bad
    BY <2>1, <2>4
  <2>9. ErrorRules' = ErrorRules
    BY <2>1 DEF ErrorRules
  <2> QED BY <1>1, <2>1, <2>7, <2>8, <2>9 DEF Report, processVars, VerdictInv
<1>2. CASE UNCHANGED <<pc, mode, exit_code, overall_status, rules_, events>>
  BY <1>2 DEF VerdictInv, Reported, ErrorRules, At
<1>3. CASE Diagnose \/ CollectPacman \/ PacmanFails
  BY <1>3 DEF Diagnose, CollectPacman, PacmanFails, Collected, AfterCollecting, processVars, At,
              VerdictInv, Reported
<1>4. CASE /\ UNCHANGED mode
           /\ pc' \in {"starting", "systemd", "storage", "memory", "kmsg", "pacman", "failed"}
  BY <1>4 DEF VerdictInv, Reported, At
<1>5. CASE /\ UNCHANGED mode
           /\ pc \in {"store", "log", "job", "launch", "running", "rest", "sleep"}
  BY <1>5 DEF VerdictInv, Reported
<1> QED
  BY <1>1, <1>2, <1>3, <1>4, <1>5
  DEF Next, Process, Statements, System, vars, processVars, endVars, At, Start, StartFails, Collected,
      CollectSystemd, SystemdFails, CollectStorage, StorageFails, CollectMemory, MemoryFails,
      StoreEvents, LogFindings, RunCommand, Launch, CommandReturns, CommandThrows,
      TakeResult, JobEnds, Rests, Wakes, Restart, Tick, Works, UnitChanges, ProcessDumps,
      KernelKills, handleSignal

\* A status report says unhealthy, and its process ends with 1, when a rule of
\* severity error or above, built in or from a file, was satisfied; it says so
\* for no other reason, and without a failed collector the process ends with 1
\* for no other reason.
THEOREM VerdictIsHonest == Spec => []VerdictAndExitCodeAgree
<1>1. Init => VerdictInv
  BY DEF Init, VerdictInv, Reported, At
<1>2. Typed /\ Diagnosis /\ VerdictInv /\ [Next]_vars => VerdictInv'
  BY NextVerdict DEF Typed, Diagnosis
<1>3. VerdictInv => VerdictAndExitCodeAgree
  BY DEF VerdictInv, VerdictAndExitCodeAgree
<1> QED BY <1>1, <1>2, <1>3, DiagnosisHolds, TypedHolds, PTL DEF Spec

================================================================================
