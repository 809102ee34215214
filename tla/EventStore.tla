------------------------------ MODULE EventStore ------------------------------
(***************************************************************************)
(* libs/storage/EventStore.cpp: the SQLite table of observation events, its*)
(* batch insertion and its age and capacity pruning.                       *)
(*                                                                         *)
(* db_mutex serialises the operations, so that `op` is the one in progress *)
(* or none; what is interleaved with its statements are failures and the   *)
(* end of the process.  Of SQLite (external) the model keeps what the code *)
(* relies on: a statement outside a transaction commits by itself, one     *)
(* inside it is visible to this connection only, and the file keeps the    *)
(* pages that a DELETE frees.  A row takes one page of one byte.  Of an    *)
(* event the severity rank and the timestamp matter.                       *)
(***************************************************************************)
EXTENDS Integers, FiniteSetsExt

CONSTANTS
  Ranks,        \* severity ranks, 0 (debug) to 4 (critical)
  Timestamps,   \* timestamp_us values
  CountLimits,  \* values of max_events, 0 for no limit
  ByteLimits,   \* values of max_bytes, 0 for no limit
  PruneBatch,   \* rows a DELETE takes when the file is too large, 100 in the code
  WalAnswers,   \* whether PRAGMA journal_mode=WAL takes effect, the file system decides
  MaxBatch,     \* bound: events in a batch
  MaxRowId      \* bound: rows ever inserted

ASSUME StoreAssumption ==
  /\ Ranks \subseteq Nat /\ Timestamps \subseteq Nat
  /\ CountLimits \subseteq Nat /\ ByteLimits \subseteq Nat
  /\ PruneBatch \in Nat \ {0}
  /\ WalAnswers \subseteq BOOLEAN
  /\ MaxBatch \in Nat /\ MaxRowId \in Nat

VARIABLES
  db,           \* the committed database
  view,         \* the database as this connection sees it
  in_txn,       \* a transaction is open
  op,           \* the operation that holds db_mutex
  wal,          \* the database is in WAL mode
  acked         \* ids reported as stored and not deleted since

vars == <<db, view, in_txn, op, wal, acked>>

Event == [severity : Ranks, timestamp : Timestamps]
Row   == [id : 1..MaxRowId, severity : Ranks, timestamp : Timestamps]

\* seq is the AUTOINCREMENT counter.
Database == [rows : SUBSET Row, pages : 0..MaxRowId, seq : 0..MaxRowId]

None    == [kind |-> "none"]
Batch   == [kind : {"batch"}, size : 0..MaxBatch, left : 0..MaxBatch]
Pruning == [kind : {"prune"}, max_bytes : ByteLimits, max_events : CountLimits,
            before : SUBSET Row]

Free == op = None

RowIds(rows) == {r.id : r \in rows}

-------------------------------------------------------------------------------
(* SQLite statements. *)

Stored(v, event) ==
  LET row == [id |-> v.seq + 1, severity |-> event.severity,
              timestamp |-> event.timestamp]
  IN  [rows  |-> v.rows \cup {row},
       pages |-> Max({v.pages, Cardinality(v.rows) + 1}),
       seq   |-> v.seq + 1]

Without(v, rows) == [v EXCEPT !.rows = @ \ rows]

Exec(v) ==
  /\ view' = v
  /\ db' = IF in_txn THEN db ELSE v

Begin == ~in_txn /\ in_txn' = TRUE

Rollback == view' = db /\ in_txn' = FALSE

Commit == db' = view /\ in_txn' = FALSE

-------------------------------------------------------------------------------
(* Insertion.  A statement that fails outside a transaction changes nothing  *)
(* and the operation just reports it: no action stands for that.  If SQLite  *)
(* rolls a transaction back because of it, the state is the one after Reopen.*)

insert(event) ==
  /\ Free
  /\ view.seq < MaxRowId
  /\ Exec(Stored(view, event))
  /\ acked' = acked \cup {view.seq + 1}
  /\ UNCHANGED <<in_txn, op, wal>>

\* Mutant of BatchBegins: no transaction, every INSERT commits by itself.
BatchBegins_autocommit(n) ==
  /\ Free
  /\ view.seq + n <= MaxRowId
  /\ op' = [kind |-> "batch", size |-> n, left |-> n]
  /\ UNCHANGED <<db, view, in_txn, acked, wal>>

\* insertBatch begins its transaction; it fails at once if one is open.
BatchBegins(n) ==
  /\ Free
  /\ view.seq + n <= MaxRowId
  /\ Begin
  /\ op' = [kind |-> "batch", size |-> n, left |-> n]
  /\ UNCHANGED <<db, view, acked, wal>>

InBatch == op.kind = "batch"

\* Mutant of BatchInserts: the loop runs once too often.
BatchInserts_one_more(event) ==
  /\ InBatch
  /\ op.left >= 0
  /\ Exec(Stored(view, event))
  /\ op' = [op EXCEPT !.left = @ - 1]
  /\ UNCHANGED <<in_txn, acked, wal>>

BatchInserts(event) ==
  /\ InBatch
  /\ op.left > 0
  /\ Exec(Stored(view, event))
  /\ op' = [op EXCEPT !.left = @ - 1]
  /\ UNCHANGED <<in_txn, acked, wal>>

\* Mutant of BatchInsertFails: the error path forgets its ROLLBACK.
BatchInsertFails_no_rollback ==
  /\ InBatch
  /\ op' = None
  /\ UNCHANGED <<db, view, in_txn, acked, wal>>

\* Preparing or running the INSERT fails: everything is rolled back.
BatchInsertFails ==
  /\ InBatch
  /\ Rollback
  /\ op' = None
  /\ UNCHANGED <<db, acked, wal>>

BatchCommits ==
  /\ InBatch
  /\ op.left = 0
  /\ Commit
  /\ op' = None
  /\ acked' = acked \cup (RowIds(view.rows) \ RowIds(db.rows))
  /\ UNCHANGED <<view, wal>>

\* COMMIT fails and SQLite has rolled back.
BatchCommitFails ==
  /\ InBatch
  /\ op.left = 0
  /\ Rollback
  /\ op' = None
  /\ UNCHANGED <<db, acked, wal>>

\* COMMIT fails because a reader is active, which only a rollback journal
\* knows: SQLite keeps the transaction open, and so does insertBatch.
BatchCommitBusy ==
  /\ InBatch
  /\ op.left = 0 /\ op.size > 0
  /\ ~wal
  /\ op' = None
  /\ UNCHANGED <<db, view, in_txn, acked, wal>>

-------------------------------------------------------------------------------
(* Pruning. *)

Deletes(rows) ==
  /\ Exec(Without(view, rows))
  /\ acked' = acked \ RowIds(rows)

pruneEvents(older_than) ==
  /\ Free
  /\ Deletes({r \in view.rows : r.timestamp < older_than})
  /\ UNCHANGED <<in_txn, op, wal>>

Target(limit) == (limit * 9) \div 10

Count == Cardinality(view.rows)

getSizeBytes == view.pages

\* pruneEventsByCapacity returns at once when neither limit is exceeded.
CapacityPruneBegins(max_bytes, max_events) ==
  /\ Free
  /\ \/ max_events > 0 /\ Count > max_events
     \/ max_bytes > 0 /\ getSizeBytes > max_bytes
  /\ op' = [kind |-> "prune", max_bytes |-> max_bytes, max_events |-> max_events,
            before |-> view.rows]
  /\ UNCHANGED <<db, view, in_txn, acked, wal>>

InPrune == op.kind = "prune"

\* Mutant of ToDelete: rows always go in full batches.
ToDelete_in_batches ==
  IF op.max_events > 0 /\ Count > Target(op.max_events)
  THEN Min({PruneBatch, Count}) ELSE 0

\* How many rows the next DELETE of the loop takes; 0 ends the loop.
ToDelete ==
  CASE Count = 0 -> 0
    [] op.max_events > 0 /\ Count > Target(op.max_events) ->
         Count - Target(op.max_events)
    [] op.max_bytes > 0 /\ getSizeBytes > Target(op.max_bytes) ->
         Min({PruneBatch, Count})
    [] OTHER -> 0

\* ORDER BY severity rank, then timestamp; SQL leaves ties open.
NotAfter(r, s) ==
  \/ r.severity < s.severity
  \/ r.severity = s.severity /\ r.timestamp <= s.timestamp

\* Mutant of FirstRows: ORDER BY timestamp alone.
FirstRows_by_age(n) ==
  {rows \in kSubset(n, view.rows) :
     \A r \in rows, s \in view.rows \ rows : r.timestamp <= s.timestamp}

\* The sets of rows that ORDER BY ... LIMIT n may select.
FirstRows(n) ==
  {rows \in kSubset(n, view.rows) :
     \A r \in rows, s \in view.rows \ rows : NotAfter(r, s)}

CapacityDeletes ==
  /\ InPrune
  /\ ToDelete > 0
  /\ \E rows \in FirstRows(ToDelete) : Deletes(rows)
  /\ UNCHANGED <<in_txn, op, wal>>

\* Mutant of CapacityPruneEnds: the loop ends only when the table is empty.
CapacityPruneEnds_when_empty ==
  /\ InPrune
  /\ Count = 0
  /\ op' = None
  /\ UNCHANGED <<db, view, in_txn, acked, wal>>

CapacityPruneEnds ==
  /\ InPrune
  /\ ToDelete = 0
  /\ op' = None
  /\ UNCHANGED <<db, view, in_txn, acked, wal>>

\* A DELETE fails: what the earlier ones deleted stays deleted.
CapacityDeleteFails ==
  /\ InPrune
  /\ ToDelete > 0
  /\ op' = None
  /\ UNCHANGED <<db, view, in_txn, acked, wal>>

-------------------------------------------------------------------------------
\* The process ends, in the middle of an operation or not, and the store is
\* opened again: what was not committed is gone.  The constructor does not read
\* the answer to its PRAGMA, and the mode of the file does not change.
Reopen ==
  /\ Rollback
  /\ op' = None
  /\ UNCHANGED <<db, acked, wal>>

Init ==
  /\ db = [rows |-> {}, pages |-> 0, seq |-> 0]
  /\ view = db
  /\ in_txn = FALSE
  /\ op = None
  /\ wal \in WalAnswers
  /\ acked = {}

Insertion ==
  \/ \E event \in Event : insert(event) \/ BatchInserts(event)
  \/ \E n \in 0..MaxBatch : BatchBegins(n)
  \/ BatchInsertFails
  \/ BatchCommits
  \/ BatchCommitFails
  \/ BatchCommitBusy

CapacityLoop == CapacityDeletes \/ CapacityPruneEnds

Retention ==
  \/ \E older_than \in Timestamps : pruneEvents(older_than)
  \/ \E max_bytes \in ByteLimits, max_events \in CountLimits :
       CapacityPruneBegins(max_bytes, max_events)
  \/ CapacityLoop
  \/ CapacityDeleteFails

Next == Insertion \/ Retention \/ Reopen

\* An operation that has begun keeps running: it holds the mutex and waits for
\* nobody.
Fairness == WF_vars(CapacityLoop)

Spec == Init /\ [][Next]_vars /\ Fairness

-------------------------------------------------------------------------------
(* Properties. *)

\* Type correctness of the database and of the operation in progress.
TypeOK ==
  /\ db \in Database /\ view \in Database
  /\ in_txn \in BOOLEAN /\ wal \in BOOLEAN
  /\ op \in Batch \cup Pruning \cup {None}
  /\ acked \subseteq 1..MaxRowId

\* A batch reaches the database whole or not at all, and takes nothing with it,
\* wherever it fails or the process ends (insertBatch).
BatchIsAtomic ==
  [][InBatch => /\ Cardinality(db'.rows \ db.rows) \in {0, op.size}
                /\ db.rows \subseteq db'.rows]_vars

\* What insert and insertBatch reported as stored is in the committed database
\* until a prune removes it: it survives the end of the process (in WAL mode,
\* which is what the constructor asks for).
AckedIsDurable == wal => acked \subseteq RowIds(db.rows)

\* At every point of a capacity prune, also where it is cut short, no surviving
\* event ranks below one it has deleted (severity first, then age).
EvictsLeastImportant ==
  InPrune =>
    \A gone \in op.before \ view.rows, kept \in view.rows : NotAfter(gone, kept)

\* "Prunes events down to 90% of capacity limits" (EventStore.h): a prune that
\* deletes stops at a target, or within one DELETE of it where it counts bytes,
\* measured in the events that are left (one byte each).
PrunesDownToTarget ==
  InPrune /\ view.rows # op.before =>
    \/ op.max_events > 0 /\ Count >= Target(op.max_events)
    \/ op.max_bytes > 0 /\ Count > Target(op.max_bytes) - PruneBatch

\* The same for the limit on the number of events alone: the prune deletes down
\* to 90% of max_events and not one event more.
CountPruneStopsAtTarget ==
  InPrune /\ op.max_bytes = 0 /\ view.rows # op.before =>
    Count = Target(op.max_events)

\* A capacity prune comes to an end.
PruneTerminates == InPrune ~> ~InPrune

===============================================================================
