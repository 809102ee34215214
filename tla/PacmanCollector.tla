---------------------------- MODULE PacmanCollector ----------------------------
(***************************************************************************)
(* libs/health/PacmanCollector.cpp: the state of the package database and  *)
(* of the running kernel.  The collector keeps nothing between polls; a    *)
(* view is what it finds in the file system at one.                        *)
(***************************************************************************)
EXTENDS ObservationEvents

CONSTANTS
  checks,            \* the enabled ones of kernel, locks, orphans, transactions
  pacnew_warning     \* options_.warning_threshold, a number of files

\* The running kernel's modules are gone.  Nothing is said when its release
\* cannot be read (osrelease, then version) or there is no modules directory.
evaluateKernelState(view) ==
  \E running \in view.running_kernel, dirs \in view.modules : running \notin dirs

\* What db.lck says: [exists, active, pid].  The file is looked at three times,
\* for its existence, its content and its owner, and each answer is of its own
\* moment.  An empty, unreadable or malformed file counts as stale.
evaluateLockState(view) ==
  [exists    |-> view.lock_exists,
   is_active |-> \E pid \in view.lock_pid : pid > 0 /\ pid \in view.processes,
   pid       |-> view.lock_pid]

\* The .pacnew and .pacsave files down to max_depth.
evaluateOrphanConfigs(view) == view.orphans

\* Temporary files in the local database.
evaluateTransactions(view) == view.artifacts

PacmanEvent(subject, signal, value, severity) ==
  ObservationEvent("pacman_collector", "package", subject, signal, value, severity)

KernelEvents(view) ==
  When("kernel" \in checks /\ evaluateKernelState(view),
       {PacmanEvent("kernel", "pacman.kernel_mismatch", True, Warning)})

LockEvents(view) ==
  LET lock  == evaluateLockState(view)
      value == Int64(IF lock.pid = {} THEN 0 ELSE CHOOSE p \in lock.pid : TRUE)
  IN  When("locks" \in checks /\ lock.exists,
           {IF lock.is_active
            THEN PacmanEvent("pacman_db", "pacman.active_lock", value, Info)
            ELSE PacmanEvent("pacman_db", "pacman.stale_lock", value, Warning)})

OrphanEvents(view) ==
  LET total_orphans == evaluateOrphanConfigs(view)
  IN  When("orphans" \in checks /\ total_orphans > 0,
           {PacmanEvent("config_files", "pacman.pacnew_files", Int64(total_orphans),
                        IF total_orphans >= pacnew_warning THEN Warning ELSE Info)})

TransactionEvents(view) ==
  When("transactions" \in checks /\ evaluateTransactions(view),
       {PacmanEvent("pacman_db", "pacman.interrupted_transaction", True, Warning)})

\* Mutant of PacmanEvents: a name that cannot be written as JSON loses all.
PacmanEvents_all_or_nothing(view) ==
  When(view.db_exists /\ ~(view.unprintable /\ OrphanEvents(view) # {}),
       KernelEvents(view) \cup LockEvents(view) \cup OrphanEvents(view)
         \cup TransactionEvents(view))

\* Nothing without a database.  A file name that is not UTF-8 makes the list of
\* orphans fail: its event is lost and the one after it, the earlier ones stay.
PacmanEvents(view) ==
  When(view.db_exists,
       KernelEvents(view) \cup LockEvents(view)
         \cup When(~(view.unprintable /\ OrphanEvents(view) # {}),
                   OrphanEvents(view) \cup TransactionEvents(view)))

================================================================================
