---------------------------- MODULE StorageCollector ----------------------------
(***************************************************************************)
(* libs/health/StorageCollector.cpp: which mounts are inspected, and the   *)
(* events their usage gives rise to.  The collector keeps nothing between  *)
(* polls; a view is what /proc/mounts and statvfs say at one.              *)
(***************************************************************************)
EXTENDS ObservationEvents

CONSTANTS
  mount_points,         \* the configured paths; empty: discover them
  storage_warning,      \* options_.warning_threshold, a percentage (a double there,
                        \* a whole number here)
  storage_critical      \* options_.critical_threshold, not below it

ASSUME StorageAssumption ==
  storage_warning \in 0..100 /\ storage_critical \in storage_warning..100

\* A line of /proc/mounts: a virtual or network type, and the removable paths,
\* are not inspected unless they are configured.
discoverMounts(mounts) ==
  {m.mount_path : m \in {n \in mounts : n.fstype = "local" /\ ~n.removable}}

Targets(view) ==
  IF mount_points # {} THEN mount_points ELSE discoverMounts(view.mounts)

\* A percentage, 0 of nothing.  Blocks reserved for root count as used.
Percent(part, whole) == IF whole > 0 THEN (100 * part) \div whole ELSE 0

\* What one statvfs says.  Free inodes may exceed the total on some systems.
inspectMountMetrics(stat) ==
  [percent_used |-> Percent(stat.total - stat.available, stat.total),
   inode_percent_used |->
     Percent(IF stat.inodes > stat.free_inodes THEN stat.inodes - stat.free_inodes ELSE 0,
             stat.inodes),
   is_read_only |-> stat.read_only]

StorageEvent(path, signal, value, severity) ==
  ObservationEvent("storage_collector", "storage", path, signal, value, severity)

PressureEvents(path, signal, percent) ==
  When(percent >= storage_warning,
       {StorageEvent(path, signal, Double(percent),
                     IF percent >= storage_critical THEN Critical ELSE Warning)})

MetricsEvents(path, metrics) ==
  When(metrics.is_read_only, {StorageEvent(path, "read_only_filesystem", NoValue, Error)})
    \cup PressureEvents(path, "space_pressure", metrics.percent_used)
    \cup PressureEvents(path, "inode_pressure", metrics.inode_percent_used)

\* A path that cannot be inspected gives that event and no other.
eventsFromMetrics(path, statvfs) ==
  IF statvfs = {}
  THEN {StorageEvent(path, "stat_failure", NoValue, Error)}
  ELSE UNION {MetricsEvents(path, inspectMountMetrics(stat)) : stat \in statvfs}

StorageEvents(view) ==
  UNION {eventsFromMetrics(path, view.statvfs[path]) : path \in Targets(view)}

================================================================================
