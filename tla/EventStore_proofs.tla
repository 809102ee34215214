-------------------------- MODULE EventStore_proofs --------------------------
(***************************************************************************)
(* Proofs about EventStore, for any numbers of rows, batch sizes, limits,  *)
(* severities and timestamps, with and without WAL.                        *)
(***************************************************************************)
EXTENDS EventStore, FiniteSetTheorems, TLAPS

(***************************************************************************)
(* Statements.                                                             *)
(***************************************************************************)

\* The AUTOINCREMENT counter is ahead of every id and of the number of rows.
Sound(v) ==
  /\ IsFiniteSet(v.rows)
  /\ Cardinality(v.rows) <= v.seq
  /\ \A r \in v.rows : r.id <= v.seq

LEMMA MaxOfTwo ==
  ASSUME NEW a \in Nat, NEW b \in Nat
  PROVE  Max({a, b}) \in {a, b}
<1>1. \E x \in {a, b} : \A y \in {a, b} : x >= y
  OBVIOUS
<1> QED BY <1>1 DEF Max

\* An INSERT adds one row that was not there.
LEMMA StoredAddsOne ==
  ASSUME NEW v \in Database, Sound(v), v.seq < MaxRowId, NEW event \in Event
  PROVE  /\ Stored(v, event) \in Database
         /\ Sound(Stored(v, event))
         /\ Stored(v, event).seq = v.seq + 1
         /\ \E row \in Row : /\ row.id = v.seq + 1
                             /\ row \notin v.rows
                             /\ Stored(v, event).rows = v.rows \cup {row}
<1> DEFINE row == [id |-> v.seq + 1, severity |-> event.severity,
                   timestamp |-> event.timestamp]
           w   == Stored(v, event)
<1>1. v.seq \in Nat /\ v.seq <= MaxRowId /\ v.pages \in 0..MaxRowId /\ v.rows \subseteq Row
  BY StoreAssumption DEF Database
<1>2. row \in Row /\ row.id = v.seq + 1
  BY <1>1, StoreAssumption DEF Row, Event
<1>3. row \notin v.rows
  BY <1>1, <1>2 DEF Sound
<1>4. Cardinality(v.rows) \in Nat /\ Cardinality(v.rows) <= v.seq /\ IsFiniteSet(v.rows)
  BY FS_CardinalityType DEF Sound
<1>5. /\ w.rows = v.rows \cup {row} /\ w.seq = v.seq + 1
      /\ w.pages = Max({v.pages, Cardinality(v.rows) + 1})
      /\ w = [rows |-> w.rows, pages |-> w.pages, seq |-> w.seq]
  BY DEF Stored
<1>6. w.pages \in 0..MaxRowId
  <2>1. Max({v.pages, Cardinality(v.rows) + 1}) \in {v.pages, Cardinality(v.rows) + 1}
    BY <1>1, <1>4, MaxOfTwo, StoreAssumption
  <2> QED BY <1>1, <1>4, <1>5, <2>1, StoreAssumption
<1>7. w \in Database
  BY <1>1, <1>2, <1>5, <1>6, StoreAssumption DEF Database
<1>8. Sound(w)
  <2>1. IsFiniteSet(w.rows) /\ Cardinality(w.rows) = Cardinality(v.rows) + 1
    BY <1>3, <1>4, <1>5, FS_AddElement
  <2>2. \A r \in w.rows : r.id <= w.seq
    BY <1>1, <1>2, <1>5 DEF Sound, Row
  <2> QED BY <1>1, <1>4, <1>5, <2>1, <2>2 DEF Sound
<1> QED BY <1>2, <1>3, <1>5, <1>7, <1>8

\* A DELETE leaves a part of the rows.
LEMMA WithoutIsPart ==
  ASSUME NEW v \in Database, Sound(v), NEW rows
  PROVE  /\ Without(v, rows) \in Database
         /\ Sound(Without(v, rows))
         /\ Without(v, rows).seq = v.seq
         /\ Without(v, rows).rows = v.rows \ rows
<1>1. Without(v, rows).rows = v.rows \ rows /\ Without(v, rows).seq = v.seq
  BY DEF Without, Database
<1>2. Without(v, rows) \in Database
  BY DEF Without, Database
<1>3. IsFiniteSet(v.rows \ rows) /\ Cardinality(v.rows \ rows) <= Cardinality(v.rows)
  BY FS_Subset DEF Sound
<1>4. Cardinality(v.rows) \in Nat /\ Cardinality(v.rows \ rows) \in Nat /\ v.seq \in Int
  BY <1>3, FS_CardinalityType DEF Sound, Database
<1> QED BY <1>1, <1>2, <1>3, <1>4 DEF Sound

(***************************************************************************)
(* The inductive invariant.                                                *)
(***************************************************************************)

\* Outside a transaction the connection sees what is committed.  In WAL mode
\* only a batch has a transaction open.
Isolated ==
  /\ ~in_txn => view = db
  /\ in_txn /\ wal => InBatch

\* A batch under way has added the rows it has inserted so far, of which nothing
\* is committed, and there is room for those that are left.
BatchUnderWay ==
  InBatch =>
    /\ in_txn
    /\ op.left <= op.size
    /\ view.seq + op.left <= MaxRowId
    /\ db.rows \subseteq view.rows
    /\ Cardinality(view.rows \ db.rows) = op.size - op.left

IInv ==
  /\ TypeOK /\ Sound(db) /\ Sound(view) /\ Isolated /\ BatchUnderWay
  /\ AckedIsDurable /\ EvictsLeastImportant /\ CountPruneStopsAtTarget

LEMMA OpKinds ==
  ASSUME TypeOK
  PROVE  /\ InBatch <=> op \in Batch
         /\ InPrune <=> op \in Pruning
         /\ Free => ~InBatch /\ ~InPrune
         /\ ~(InBatch /\ InPrune)
  BY DEF TypeOK, InBatch, InPrune, Free, None, Batch, Pruning

LEMMA InitIInv == Init => IInv
<1> SUFFICES ASSUME Init PROVE IInv
  OBVIOUS
<1>1. db.rows = {} /\ db.seq = 0 /\ db \in Database /\ view = db
  BY StoreAssumption DEF Init, Database
<1>2. Sound(db) /\ Sound(view)
  BY <1>1, FS_EmptySet DEF Sound
<1>3. TypeOK
  BY <1>1, StoreAssumption DEF Init, TypeOK
<1>4. ~InBatch /\ ~InPrune
  BY DEF Init, None, InBatch, InPrune
<1>5. AckedIsDurable
  BY DEF Init, AckedIsDurable
<1> QED
  BY <1>1, <1>2, <1>3, <1>4, <1>5
  DEF IInv, Init, Isolated, BatchUnderWay, EvictsLeastImportant, CountPruneStopsAtTarget

\* The parts of the invariant that are about an operation hold when there is none.
LEMMA NoOperation ==
  ASSUME op' = None
  PROVE  /\ ~InBatch' /\ ~InPrune'
         /\ BatchUnderWay' /\ EvictsLeastImportant' /\ CountPruneStopsAtTarget'
<1>1. ~InBatch' /\ ~InPrune'
  BY DEF InBatch, InPrune, None
<1> QED BY <1>1 DEF BatchUnderWay, EvictsLeastImportant, CountPruneStopsAtTarget

\* insert: outside a transaction the row is committed at once.
LEMMA InsertKeepsIInv ==
  ASSUME IInv, NEW event \in Event, insert(event)
  PROVE  IInv'
<1>1. /\ op = None /\ view.seq < MaxRowId
      /\ view' = Stored(view, event)
      /\ db' = IF in_txn THEN db ELSE Stored(view, event)
      /\ acked' = acked \cup {view.seq + 1}
      /\ UNCHANGED <<in_txn, op, wal>>
  BY DEF insert, Free, Exec
<1>2. PICK row \in Row : /\ row.id = view.seq + 1
                         /\ Stored(view, event).rows = view.rows \cup {row}
  BY <1>1, StoredAddsOne DEF IInv, TypeOK
<1>3. Stored(view, event) \in Database /\ Sound(Stored(view, event))
  BY <1>1, StoredAddsOne DEF IInv, TypeOK
<1>4. db' \in Database /\ Sound(db') /\ view' \in Database /\ Sound(view')
  <2>1. db \in Database /\ Sound(db)
    BY DEF IInv, TypeOK
  <2> QED BY <1>1, <1>3, <2>1
<1>5. TypeOK'
  <2>1. view.seq + 1 \in 1..MaxRowId
    BY <1>2 DEF Row
  <2> QED BY <1>1, <1>4, <2>1 DEF IInv, TypeOK
<1>6. ~InBatch /\ ~InPrune
  BY <1>1 DEF InBatch, InPrune, None
<1>7. Isolated'
  BY <1>1, <1>6 DEF IInv, Isolated, InBatch
<1>8. AckedIsDurable'
  <2> SUFFICES ASSUME wal' PROVE acked' \subseteq RowIds(db'.rows)
    BY DEF AckedIsDurable
  <2>1. ~in_txn /\ view = db
    BY <1>1, <1>6 DEF IInv, Isolated
  <2>2. db'.rows = db.rows \cup {row}
    BY <1>1, <1>2, <2>1
  <2>3. acked \subseteq RowIds(db.rows)
    BY <1>1 DEF IInv, AckedIsDurable
  <2> QED BY <1>1, <1>2, <2>1, <2>2, <2>3 DEF RowIds
<1> QED BY <1>1, <1>4, <1>5, <1>7, <1>8, NoOperation DEF IInv, Sound

\* insertBatch begins: nothing is inserted yet.
LEMMA BatchBeginsKeepsIInv ==
  ASSUME IInv, NEW n \in 0..MaxBatch, BatchBegins(n)
  PROVE  IInv'
<1>1. /\ op = None /\ view.seq + n <= MaxRowId
      /\ ~in_txn /\ in_txn' = TRUE
      /\ op' = [kind |-> "batch", size |-> n, left |-> n]
      /\ UNCHANGED <<db, view, acked, wal>>
  BY DEF BatchBegins, Free, Begin
<1>2. op' \in Batch /\ op'.kind = "batch" /\ op'.size = n /\ op'.left = n
  BY <1>1 DEF Batch
<1>3. TypeOK'
  BY <1>1, <1>2 DEF IInv, TypeOK
<1>4. view = db
  BY <1>1 DEF IInv, Isolated
<1>5. BatchUnderWay'
  <2>1. Cardinality(view.rows \ db.rows) = 0
    BY <1>4, FS_EmptySet
  <2> QED BY <1>1, <1>2, <1>4, <2>1, StoreAssumption DEF BatchUnderWay
<1>6. InBatch' /\ ~InPrune'
  BY <1>2 DEF InBatch, InPrune
<1> QED
  BY <1>1, <1>3, <1>5, <1>6
  DEF IInv, Isolated, AckedIsDurable, EvictsLeastImportant, CountPruneStopsAtTarget

\* The next INSERT of a batch: one row more in the transaction, one fewer left.
LEMMA BatchInsertsKeepsIInv ==
  ASSUME IInv, NEW event \in Event, BatchInserts(event)
  PROVE  IInv'
<1>1. /\ InBatch /\ op \in Batch /\ op.left > 0
      /\ op' = [op EXCEPT !.left = op.left - 1]
      /\ view' = Stored(view, event)
      /\ UNCHANGED <<in_txn, acked, wal>>
  BY OpKinds DEF BatchInserts, Exec, IInv
<1>2. /\ in_txn /\ op.left <= op.size /\ view.seq + op.left <= MaxRowId
      /\ db.rows \subseteq view.rows
      /\ Cardinality(view.rows \ db.rows) = op.size - op.left
  BY <1>1 DEF IInv, BatchUnderWay
<1>3. db' = db
  BY <1>2 DEF BatchInserts, Exec
<1>4. /\ op' \in Batch /\ op'.kind = "batch"
      /\ op'.size = op.size /\ op'.left = op.left - 1
      /\ op.left \in Nat /\ op.size \in Nat
  BY <1>1, StoreAssumption DEF Batch
<1>5. view \in Database /\ Sound(view) /\ view.seq \in Nat /\ view.seq < MaxRowId
  BY <1>1, <1>2, <1>4, StoreAssumption DEF IInv, TypeOK, Database
<1>6. PICK row \in Row : row \notin view.rows /\ view'.rows = view.rows \cup {row}
  BY <1>1, <1>5, StoredAddsOne
<1>7. view' \in Database /\ Sound(view') /\ view'.seq = view.seq + 1
  BY <1>1, <1>5, StoredAddsOne
<1>8. TypeOK'
  BY <1>1, <1>3, <1>4, <1>7 DEF IInv, TypeOK
<1>9. BatchUnderWay'
  <2>1. view'.rows \ db.rows = (view.rows \ db.rows) \cup {row} /\ row \notin view.rows \ db.rows
    BY <1>2, <1>6
  <2>2. IsFiniteSet(view.rows \ db.rows)
    BY <1>5, FS_Difference DEF Sound
  <2>3. Cardinality(view'.rows \ db.rows) = Cardinality(view.rows \ db.rows) + 1
    BY <2>1, <2>2, FS_AddElement
  <2>4. Cardinality(view'.rows \ db'.rows) = op'.size - op'.left
    BY <1>2, <1>3, <1>4, <2>3
  <2> QED BY <1>1, <1>2, <1>3, <1>4, <1>5, <1>6, <1>7, <2>4, StoreAssumption DEF BatchUnderWay
<1>10. InBatch' /\ ~InPrune'
  BY <1>4 DEF InBatch, InPrune
<1> QED
  BY <1>1, <1>2, <1>3, <1>7, <1>8, <1>9, <1>10
  DEF IInv, Isolated, AckedIsDurable, EvictsLeastImportant, CountPruneStopsAtTarget, Sound

\* COMMIT: what the transaction saw is the database, and is acknowledged.
LEMMA BatchCommitsKeepsIInv ==
  ASSUME IInv, BatchCommits
  PROVE  IInv'
<1>1. /\ InBatch /\ op' = None
      /\ db' = view /\ in_txn' = FALSE
      /\ acked' = acked \cup (RowIds(view.rows) \ RowIds(db.rows))
      /\ UNCHANGED <<view, wal>>
  BY DEF BatchCommits, Commit
<1>2. TypeOK'
  <2>1. RowIds(view.rows) \subseteq 1..MaxRowId
    BY DEF IInv, TypeOK, Database, RowIds, Row
  <2> QED BY <1>1, <2>1 DEF IInv, TypeOK
<1>3. AckedIsDurable'
  <2>1. db.rows \subseteq view.rows
    BY <1>1 DEF IInv, BatchUnderWay
  <2>2. RowIds(db.rows) \subseteq RowIds(view.rows)
    BY <2>1 DEF RowIds
  <2> QED BY <1>1, <2>2 DEF IInv, AckedIsDurable
<1> QED BY <1>1, <1>2, <1>3, NoOperation DEF IInv, Isolated, Sound

\* An error with its ROLLBACK, and the end of the process: the connection sees
\* what is committed, and no operation is under way.
LEMMA RollbackKeepsIInv ==
  ASSUME IInv, BatchInsertFails \/ BatchCommitFails \/ Reopen
  PROVE  IInv'
<1>1. op' = None /\ view' = db /\ in_txn' = FALSE /\ UNCHANGED <<db, acked, wal>>
  BY DEF BatchInsertFails, BatchCommitFails, Reopen, Rollback
<1>2. TypeOK'
  BY <1>1 DEF IInv, TypeOK
<1> QED BY <1>1, <1>2, NoOperation DEF IInv, Isolated, AckedIsDurable, Sound

\* COMMIT is refused without WAL, and the end of a prune: the operation is over
\* and its statements stay as they are.
LEMMA ReturnKeepsIInv ==
  ASSUME IInv, BatchCommitBusy \/ CapacityPruneEnds \/ CapacityDeleteFails
  PROVE  IInv'
<1>1. op' = None /\ UNCHANGED <<db, view, in_txn, acked, wal>>
  BY DEF BatchCommitBusy, CapacityPruneEnds, CapacityDeleteFails
<1>2. TypeOK'
  BY <1>1 DEF IInv, TypeOK
<1>3. ~(in_txn /\ wal)
  <2>1. CASE BatchCommitBusy
    BY <2>1 DEF BatchCommitBusy
  <2>2. CASE InPrune
    BY <2>2, OpKinds DEF IInv, Isolated
  <2> QED BY <2>1, <2>2 DEF CapacityPruneEnds, CapacityDeleteFails
<1> QED BY <1>1, <1>2, <1>3, NoOperation DEF IInv, Isolated, AckedIsDurable, Sound

\* A DELETE outside a batch.  What it takes is no longer acknowledged; the rest
\* of what was is still there.
LEMMA DeletesKeeps ==
  ASSUME IInv, ~InBatch, NEW rows, Deletes(rows), UNCHANGED <<in_txn, op, wal>>
  PROVE  /\ TypeOK' /\ Sound(db)' /\ Sound(view)' /\ Isolated' /\ BatchUnderWay'
         /\ AckedIsDurable'
         /\ view'.rows = view.rows \ rows
<1>1. /\ view' = Without(view, rows)
      /\ db' = IF in_txn THEN db ELSE Without(view, rows)
      /\ acked' = acked \ RowIds(rows)
  BY DEF Deletes, Exec
<1>2. view \in Database /\ Sound(view) /\ db \in Database /\ Sound(db)
  BY DEF IInv, TypeOK
<1>3. /\ Without(view, rows) \in Database /\ Sound(Without(view, rows))
      /\ Without(view, rows).rows = view.rows \ rows
  BY <1>2, WithoutIsPart
<1>4. db' \in Database /\ Sound(db') /\ view' \in Database /\ Sound(view')
  BY <1>1, <1>2, <1>3
<1>5. TypeOK'
  BY <1>1, <1>4 DEF IInv, TypeOK
<1>6. ~InBatch'
  BY DEF InBatch
<1>7. Isolated' /\ BatchUnderWay'
  BY <1>1, <1>6 DEF IInv, Isolated, BatchUnderWay
<1>8. AckedIsDurable'
  <2> SUFFICES ASSUME wal', NEW id \in acked' PROVE id \in RowIds(db'.rows)
    BY DEF AckedIsDurable
  <2>1. ~in_txn /\ view = db
    BY DEF IInv, Isolated
  <2>2. id \in RowIds(db.rows) /\ id \notin RowIds(rows)
    BY <1>1 DEF IInv, AckedIsDurable
  <2>3. PICK r \in db.rows : r.id = id
    BY <2>2 DEF RowIds
  <2>4. r \in db'.rows
    BY <1>1, <1>3, <2>1, <2>2, <2>3 DEF RowIds
  <2> QED BY <2>3, <2>4 DEF RowIds
<1> QED BY <1>1, <1>3, <1>4, <1>5, <1>7, <1>8 DEF Sound

LEMMA PruneEventsKeepsIInv ==
  ASSUME IInv, NEW older_than \in Timestamps, pruneEvents(older_than)
  PROVE  IInv'
<1>1. op = None /\ UNCHANGED <<in_txn, op, wal>>
  BY DEF pruneEvents, Free
<1>2. ~InBatch
  BY <1>1 DEF InBatch, None
<1>3. Deletes({r \in view.rows : r.timestamp < older_than})
  BY DEF pruneEvents
<1>4. op' = None
  BY <1>1
<1> QED BY <1>1, <1>2, <1>3, <1>4, DeletesKeeps, NoOperation DEF IInv

\* A capacity prune begins with nothing deleted.
LEMMA PruneBeginsKeepsIInv ==
  ASSUME IInv, NEW max_bytes \in ByteLimits, NEW max_events \in CountLimits,
         CapacityPruneBegins(max_bytes, max_events)
  PROVE  IInv'
<1>1. /\ op = None
      /\ op' = [kind |-> "prune", max_bytes |-> max_bytes, max_events |-> max_events,
                before |-> view.rows]
      /\ UNCHANGED <<db, view, in_txn, acked, wal>>
  BY DEF CapacityPruneBegins, Free
<1>2. op' \in Pruning /\ op'.kind = "prune" /\ op'.before = view.rows
  BY <1>1 DEF IInv, TypeOK, Database, Pruning
<1>3. ~InBatch /\ ~InBatch'
  BY <1>1, <1>2 DEF InBatch, None
<1>4. TypeOK'
  BY <1>1, <1>2 DEF IInv, TypeOK
<1>5. EvictsLeastImportant' /\ CountPruneStopsAtTarget'
  BY <1>1, <1>2 DEF EvictsLeastImportant, CountPruneStopsAtTarget
<1> QED
  BY <1>1, <1>3, <1>4, <1>5 DEF IInv, Isolated, BatchUnderWay, AckedIsDurable, Sound

\* The 90% target is a whole number below any positive limit.
LEMMA TargetType ==
  ASSUME NEW limit \in Nat
  PROVE  Target(limit) \in Nat /\ (limit > 0 => Target(limit) < limit)
  BY DEF Target

\* A DELETE of the loop takes the least important rows; if only the number of
\* events is limited it takes the surplus over the target at once.
LEMMA CapacityDeletesKeepsIInv ==
  ASSUME IInv, CapacityDeletes
  PROVE  IInv'
<1>1. PICK rows \in FirstRows(ToDelete) : Deletes(rows)
  BY DEF CapacityDeletes
<1>2. InPrune /\ ToDelete > 0 /\ UNCHANGED <<in_txn, op, wal>>
  BY DEF CapacityDeletes
<1>3. op \in Pruning /\ ~InBatch
  BY <1>2, OpKinds DEF IInv
<1>4. /\ TypeOK' /\ Sound(db)' /\ Sound(view)' /\ Isolated' /\ BatchUnderWay'
      /\ AckedIsDurable'
      /\ view'.rows = view.rows \ rows
  BY <1>1, <1>2, <1>3, DeletesKeeps
<1>5. /\ rows \subseteq view.rows /\ Cardinality(rows) = ToDelete
      /\ \A r \in rows, s \in view.rows \ rows : NotAfter(r, s)
  BY <1>1 DEF FirstRows, kSubset
<1>6. EvictsLeastImportant'
  <2> SUFFICES ASSUME NEW gone \in op.before \ view'.rows, NEW kept \in view'.rows
               PROVE  NotAfter(gone, kept)
    BY <1>2 DEF EvictsLeastImportant, NotAfter
  <2>1. CASE gone \in rows
    BY <1>4, <1>5, <2>1
  <2>2. CASE gone \notin view.rows
    BY <1>2, <1>4, <2>2 DEF IInv, EvictsLeastImportant
  <2> QED BY <1>4, <2>1, <2>2
<1>7. CountPruneStopsAtTarget'
  <2> SUFFICES ASSUME op.max_bytes = 0 PROVE Count' = Target(op.max_events)
    BY <1>2 DEF CountPruneStopsAtTarget, Target
  <2>1. IsFiniteSet(view.rows) /\ Cardinality(view.rows) \in Nat
    BY FS_CardinalityType DEF IInv, Sound
  <2>2. op.max_events \in Nat /\ op.max_bytes \in Nat
    BY <1>3, StoreAssumption DEF Pruning
  <2>3. Target(op.max_events) \in Nat
    BY <2>2, TargetType
  <2>4. ToDelete = Count - Target(op.max_events)
    BY <1>2, <2>1, <2>2, <2>3 DEF ToDelete, Count
  <2>5. Cardinality(view.rows \ rows) = Cardinality(view.rows) - Cardinality(rows)
    <3>1. view.rows \cap rows = rows
      BY <1>5
    <3> QED BY <2>1, <3>1, FS_Difference
  <2> QED BY <1>4, <1>5, <2>1, <2>3, <2>4, <2>5 DEF Count
<1> QED BY <1>4, <1>6, <1>7 DEF IInv

LEMMA NextIInv == IInv /\ [Next]_vars => IInv'
<1> SUFFICES ASSUME IInv, [Next]_vars PROVE IInv'
  OBVIOUS
<1>1. CASE Insertion
  BY <1>1, InsertKeepsIInv, BatchInsertsKeepsIInv, BatchBeginsKeepsIInv, RollbackKeepsIInv,
     BatchCommitsKeepsIInv, ReturnKeepsIInv
  DEF Insertion
<1>2. CASE Retention
  BY <1>2, PruneEventsKeepsIInv, PruneBeginsKeepsIInv, CapacityDeletesKeepsIInv,
     ReturnKeepsIInv
  DEF Retention, CapacityLoop
<1>3. CASE Reopen
  BY <1>3, RollbackKeepsIInv
<1>4. CASE UNCHANGED vars
  BY <1>4
  DEF vars, IInv, TypeOK, Sound, Isolated, BatchUnderWay, InBatch, InPrune, AckedIsDurable,
      EvictsLeastImportant, CountPruneStopsAtTarget, Count
<1> QED BY <1>1, <1>2, <1>3, <1>4 DEF Next

(***************************************************************************)
(* The theorems.                                                           *)
(***************************************************************************)

\* The invariant that ties what is committed, what the connection sees, what was
\* acknowledged and the operation under way together holds in every behaviour.
THEOREM IInvHolds == Spec => []IInv
  BY InitIInv, NextIInv, PTL DEF Spec

\* The database and the operation in progress stay well-typed.
THEOREM TypeCorrect == Spec => []TypeOK
<1>1. IInv => TypeOK
  BY DEF IInv
<1> QED BY <1>1, IInvHolds, PTL

\* In WAL mode what insert and insertBatch reported as stored is in the committed
\* database until a prune takes it, wherever the process ends (EventStore.cpp).
THEOREM AcknowledgedSurvives == Spec => []AckedIsDurable
<1>1. IInv => AckedIsDurable
  BY DEF IInv
<1> QED BY <1>1, IInvHolds, PTL

\* At every point of a capacity prune, no surviving event ranks below one it has
\* deleted (pruneEventsByCapacity).
THEOREM LeastImportantGoFirst == Spec => []EvictsLeastImportant
<1>1. IInv => EvictsLeastImportant
  BY DEF IInv
<1> QED BY <1>1, IInvHolds, PTL

\* A prune to a number of events deletes down to 90% of it and not one event
\* more, for every limit (pruneEventsByCapacity).
THEOREM CountPruneIsExact == Spec => []CountPruneStopsAtTarget
<1>1. IInv => CountPruneStopsAtTarget
  BY DEF IInv
<1> QED BY <1>1, IInvHolds, PTL

\* During a batch the database changes only by all of its rows at once, if at
\* all, and loses nothing (insertBatch).
THEOREM BatchesAreAtomic == Spec => BatchIsAtomic
<1> DEFINE Whole == InBatch => /\ Cardinality(db'.rows \ db.rows) \in {0, op.size}
                               /\ db.rows \subseteq db'.rows
<1>1. IInv /\ [Next]_vars => [Whole]_vars
  <2> SUFFICES ASSUME IInv, Next, InBatch
               PROVE  /\ Cardinality(db'.rows \ db.rows) \in {0, op.size}
                      /\ db.rows \subseteq db'.rows
    OBVIOUS
  <2>1. CASE BatchCommits
    <3>1. op \in Batch /\ op.left = 0 /\ db' = view
      BY <2>1, OpKinds DEF BatchCommits, Commit, IInv
    <3>2. db.rows \subseteq view.rows /\ Cardinality(view.rows \ db.rows) = op.size - op.left
      BY DEF IInv, BatchUnderWay
    <3>3. op.size \in Nat
      BY <3>1, StoreAssumption DEF Batch
    <3> QED BY <3>1, <3>2, <3>3
  <2>2. CASE db' = db
    BY <2>2, FS_EmptySet
  <2>3. in_txn /\ ~Free /\ ~InPrune
    BY OpKinds DEF IInv, BatchUnderWay
  <2> QED
    BY <2>1, <2>2, <2>3
    DEF Next, Insertion, Retention, CapacityLoop, insert, BatchBegins, BatchInserts, Exec,
        BatchInsertFails, BatchCommitFails, BatchCommitBusy, pruneEvents, CapacityPruneBegins,
        CapacityDeletes, CapacityPruneEnds, CapacityDeleteFails, Reopen
<1> QED BY <1>1, IInvHolds, PTL DEF Spec, BatchIsAtomic

\* Every step of the store during a capacity prune ends the prune or leaves fewer
\* rows: the safety half of PruneTerminates, the count of rows being the variant.
PruneProgresses == [][InPrune => ~InPrune' \/ (Count' \in Nat /\ Count' < Count)]_vars

\* The loop of pruneEventsByCapacity cannot go round without deleting a row, for
\* any limits and any size of the DELETEs.
THEOREM PruneMakesProgress == Spec => PruneProgresses
<1> DEFINE progress == ~InPrune' \/ (Count' \in Nat /\ Count' < Count)
<1>1. IInv /\ [Next]_vars => [InPrune => progress]_vars
  <2> SUFFICES ASSUME IInv, Next, InPrune PROVE progress
    OBVIOUS
  <2>1. ~Free /\ ~InBatch
    BY OpKinds DEF IInv, Free, InPrune, None
  <2>2. CASE CapacityDeletes
    <3>1. PICK rows \in FirstRows(ToDelete) : Deletes(rows)
      BY <2>2 DEF CapacityDeletes
    <3>2. ToDelete > 0 /\ UNCHANGED <<in_txn, op, wal>>
      BY <2>2 DEF CapacityDeletes
    <3>3. view'.rows = view.rows \ rows
      BY <2>1, <3>1, <3>2, DeletesKeeps
    <3>4. rows \subseteq view.rows /\ Cardinality(rows) > 0
      BY <3>1, <3>2 DEF FirstRows, kSubset
    <3>5. IsFiniteSet(view.rows) /\ Cardinality(view.rows) \in Nat
      BY FS_CardinalityType DEF IInv, Sound
    <3>6. IsFiniteSet(rows) /\ Cardinality(rows) \in Nat
      BY <3>4, <3>5, FS_Subset, FS_CardinalityType
    <3>7. /\ IsFiniteSet(view.rows \ rows)
          /\ Cardinality(view.rows \ rows) = Cardinality(view.rows) - Cardinality(rows)
      <4>1. view.rows \cap rows = rows
        BY <3>4
      <4> QED BY <3>5, <4>1, FS_Difference
    <3>8. Cardinality(view.rows \ rows) \in Nat
      BY <3>7, FS_CardinalityType
    <3> QED BY <3>3, <3>4, <3>5, <3>6, <3>7, <3>8 DEF Count
  <2>3. CASE op' = None
    BY <2>3 DEF InPrune, None
  <2> QED
    BY <2>1, <2>2, <2>3
    DEF Next, Insertion, Retention, CapacityLoop, insert, BatchBegins, BatchInserts,
        BatchInsertFails, BatchCommits, BatchCommitFails, BatchCommitBusy, pruneEvents,
        CapacityPruneBegins, CapacityPruneEnds, CapacityDeleteFails, Reopen
<1> QED BY <1>1, IInvHolds, PTL DEF Spec, PruneProgresses

===============================================================================
