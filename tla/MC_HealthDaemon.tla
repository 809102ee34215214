---------------------------- MODULE MC_HealthDaemon ----------------------------
(***************************************************************************)
(* The inputs of HealthDaemon for TLC: in loop mode a quiet system and a   *)
(* full one; in the modes of one pass every combination of what the views  *)
(* can tell apart.                                                         *)
(***************************************************************************)
EXTENDS HealthDaemon

Stat(used, used_inodes, read_only) ==
  [total |-> 20, available |-> 20 - used, inodes |-> 20, free_inodes |-> 20 - used_inodes,
   read_only |-> read_only]

Mounts == {[mount_path |-> "root", fstype |-> "local", removable |-> FALSE],
           [mount_path |-> "proc", fstype |-> "virtual", removable |-> FALSE],
           [mount_path |-> "stick", fstype |-> "local", removable |-> TRUE]}

\* Only the root is inspected; the others are full.
StorageView(statvfs) ==
  [mounts |-> Mounts,
   statvfs |-> [path \in {"root", "proc", "stick"} |->
                  IF path = "root" THEN statvfs ELSE {Stat(20, 20, TRUE)}]]

\* 85 % is 17 of 20, 95 % is 19; a file system may have no inodes.
Stats == {Stat(16, 16, FALSE), Stat(17, 0, FALSE), Stat(19, 16, TRUE), Stat(0, 17, FALSE),
          [Stat(16, 0, TRUE) EXCEPT !.inodes = 0, !.free_inodes = 0]}

PassStorage == {StorageView({})} \cup {StorageView({s}) : s \in Stats}
LoopStorage == {StorageView({Stat(17, 0, FALSE)})}

MemoryView(some, full, total, available) ==
  [psi_some |-> some, psi_full |-> full, total |-> total, available |-> available]

Calm       == MemoryView({9}, {0}, {100}, {90})
PassMemory == {Calm, MemoryView({10}, {25}, {100}, {90}), MemoryView({}, {}, {100}, {15}),
               MemoryView({}, {}, {}, {}), MemoryView({}, {}, {100}, {})}
LoopMemory == {Calm}

PacmanView(kernel, modules, lock_exists, lock_pid, orphans, unprintable, artifacts) ==
  [db_exists |-> TRUE, running_kernel |-> kernel, modules |-> modules,
   lock_exists |-> lock_exists, lock_pid |-> lock_pid, processes |-> {7},
   orphans |-> orphans, unprintable |-> unprintable, artifacts |-> artifacts]

Tidy       == PacmanView({"k1"}, {{"k1"}}, FALSE, {}, 0, FALSE, FALSE)
PassPacman ==
  {[Tidy EXCEPT !.db_exists = FALSE, !.lock_exists = TRUE], Tidy,
   [Tidy EXCEPT !.running_kernel = {}, !.lock_exists = TRUE, !.lock_pid = {7}],
   [Tidy EXCEPT !.modules = {}, !.lock_exists = TRUE, !.lock_pid = {0}, !.orphans = 4],
   [Tidy EXCEPT !.modules = {{"k2"}}, !.orphans = 5, !.artifacts = TRUE],
   [Tidy EXCEPT !.lock_exists = TRUE, !.lock_pid = {8}, !.orphans = 4, !.unprintable = TRUE]}
LoopPacman == {PacmanView({"k1"}, {{"k2"}}, TRUE, {}, 6, TRUE, TRUE)}

MC_CommandLists == [loop |-> {1}, once |-> {0, 2}, status |-> {1}]
MC_StorageViews == [loop |-> LoopStorage, once |-> LoopStorage, status |-> PassStorage]
MC_MemoryViews  == [loop |-> LoopMemory, once |-> LoopMemory, status |-> PassMemory]
MC_PacmanViews  == [loop |-> LoopPacman, once |-> LoopPacman, status |-> PassPacman]

-------------------------------------------------------------------------------
(* Rule files. *)

Item == [source |-> {}, category |-> {}, subject |-> {}, signal |-> {},
         min_severity |-> {}, target_value |-> {}, value_operator |-> {}]

File(id, severity, logic, conditions) ==
  [json |-> TRUE, parses |-> TRUE, rule_id |-> id, has_title |-> TRUE, has_category |-> TRUE,
   severity |-> severity, condition_logic |-> logic, conditions |-> conditions]

\* Critical above 90 %, by number; an error for any event, its operator and its
\* severity being unknown; a rule without conditions; files that are rejected.
AboveNinety == File({"CUSTOM-1"}, {"critical"}, {"any"},
  {[Item EXCEPT !.signal = {"space_pressure"}, !.value_operator = {"greater_than"},
                !.target_value = {Int64(90)}]})
Anything    == File({"CUSTOM-2"}, {"error"}, {"all"},
  {[Item EXCEPT !.value_operator = {"above"}, !.min_severity = {"severe"}],
   [Item EXCEPT !.category = {"package"}, !.value_operator = {"not_equals"},
                !.target_value = {Int64(7)}]})
Empty       == File({"CUSTOM-3"}, {}, {}, {})
Rejected    == {File({}, {}, {}, {Item}), File({"CUSTOM-4"}, {"fatal"}, {}, {Item}),
                [File({"CUSTOM-5"}, {}, {}, {Item}) EXCEPT !.json = FALSE]}

Directories == {{AboveNinety} \cup Rejected, {Anything, Empty}}

MC_RuleDirectories ==
  [loop |-> {{AboveNinety}}, once |-> {Rejected}, status |-> Directories]

================================================================================
