------------------------------ MODULE EventExport ------------------------------
(***************************************************************************)
(* EventStore::exportToJsonl of libs/storage/EventStore.cpp: the events of *)
(* a query are written to <dest>.tmp, which is then renamed to <dest>.     *)
(* The files are shared by all exports to one destination, and what an     *)
(* export that was killed or left by an exception leaves is found by the   *)
(* next.  A line is the export that wrote it and its number.               *)
(*                                                                         *)
(* In the file system (external) names refer to inodes.                    *)
(***************************************************************************)
EXTENDS Integers, Sequences

CONSTANTS
  Exports,      \* calls of exportToJsonl with one destination
  Matching,     \* number of events each one's filter matches
  Old,          \* the file that is at the destination beforehand
  NoFile        \* no such name

ASSUME ExportAssumption ==
  /\ Matching \in Nat
  /\ {Old, NoFile} \cap Exports = {}
  /\ Old # NoFile

VARIABLES
  pc,           \* how far each export is
  found,        \* events the export's query returned
  offset,       \* lines the export has written
  file,         \* the inode its stream is open on
  tmp,          \* the inode named <dest>.tmp, or NoFile
  dest,         \* the inode named <dest>
  data,         \* the lines of every inode
  alone         \* history: no export began while another was under way

exportVars == <<pc, found, offset, file>>
fileVars   == <<tmp, dest, data>>
vars == <<exportVars, fileVars, alone>>

\* An inode is named after the export that created it.
Inodes == Exports \cup {Old}
Line   == Exports \X (1..Matching)

\* What a file has where nothing was written.
Hole == <<>>

Lines(e, n) == [i \in 1..n |-> <<e, i>>]

Running(e) == pc[e] \in {"queried", "writing", "closed"}

At(e, here) == pc[e] = here

Goes(e, there) == pc' = [pc EXCEPT ![e] = there]

-------------------------------------------------------------------------------
(* The query.  Its loop ends at the first step that yields no row, whether   *)
(* the table is exhausted or SQLite reports an error.  The store's mutex is  *)
(* held in the query only: another thread may be anywhere in its export.     *)

Begins(e) ==
  /\ At(e, "idle")
  /\ alone' = (alone /\ \A f \in Exports : ~Running(f))

Query(e) ==
  /\ Begins(e)
  /\ Goes(e, "queried")
  /\ found' = [found EXCEPT ![e] = Matching]
  /\ UNCHANGED <<offset, file, fileVars>>

QueryStopsShort(e) ==
  /\ Begins(e)
  /\ Goes(e, "queried")
  /\ \E n \in 0..(Matching - 1) : found' = [found EXCEPT ![e] = n]
  /\ UNCHANGED <<offset, file, fileVars>>

\* The statement cannot be prepared.
QueryFails(e) ==
  /\ Begins(e)
  /\ Goes(e, "failed")
  /\ UNCHANGED <<found, offset, file, fileVars>>

-------------------------------------------------------------------------------
(* The file. *)

\* create_directories throws.
DirectoriesThrow(e) ==
  /\ At(e, "queried")
  /\ Goes(e, "threw")
  /\ UNCHANGED <<found, offset, file, fileVars, alone>>

\* ofstream with trunc: a new inode, or the one that has the name, emptied.
Open(e) ==
  /\ At(e, "queried")
  /\ LET inode == IF tmp = NoFile THEN e ELSE tmp
     IN  /\ file' = [file EXCEPT ![e] = inode]
         /\ tmp' = inode
         /\ data' = [data EXCEPT ![inode] = <<>>]
  /\ Goes(e, "writing")
  /\ UNCHANGED <<found, offset, dest, alone>>

OpenFails(e) ==
  /\ At(e, "queried")
  /\ Goes(e, "failed")
  /\ UNCHANGED <<found, offset, file, fileVars, alone>>

\* The lines of a file after a write at a stream's own position.
WrittenAt(lines, p, line) ==
  [i \in 1..(IF p > Len(lines) THEN p ELSE Len(lines)) |->
     IF i = p THEN line ELSE IF i <= Len(lines) THEN lines[i] ELSE Hole]

\* Mutant of WriteLine: one line past the end of the result.
WriteLine_one_more(e) ==
  /\ At(e, "writing")
  /\ offset[e] <= found[e]
  /\ LET p == offset[e] + 1
     IN  /\ offset' = [offset EXCEPT ![e] = p]
         /\ data' = [data EXCEPT ![file[e]] = WrittenAt(@, p, <<e, p>>)]
  /\ UNCHANGED <<pc, found, file, tmp, dest, alone>>

WriteLine(e) ==
  /\ At(e, "writing")
  /\ offset[e] < found[e]
  /\ LET p == offset[e] + 1
     IN  /\ offset' = [offset EXCEPT ![e] = p]
         /\ data' = [data EXCEPT ![file[e]] = WrittenAt(@, p, <<e, p>>)]
  /\ UNCHANGED <<pc, found, file, tmp, dest, alone>>

\* toJson throws on text that is not UTF-8, and nothing catches it here.
LineThrows(e) ==
  /\ At(e, "writing")
  /\ offset[e] < found[e]
  /\ Goes(e, "threw")
  /\ UNCHANGED <<found, offset, file, fileVars, alone>>

\* Mutant of Fails: the temporary file is left behind.
Fails_without_removal(e) == Goes(e, "failed") /\ UNCHANGED tmp

\* The error paths after the open: <dest>.tmp is removed, whoever's it is.
Fails(e) == Goes(e, "failed") /\ tmp' = NoFile

\* A write, the flush or the close fails.
WriteFails(e) ==
  /\ At(e, "writing")
  /\ Fails(e)
  /\ UNCHANGED <<found, offset, file, dest, data, alone>>

\* Mutant of Close: the stream is not checked after the last write.
Close_unchecked(e) ==
  /\ At(e, "writing")
  /\ Goes(e, "closed")
  /\ UNCHANGED <<found, offset, file, fileVars, alone>>

Close(e) ==
  /\ At(e, "writing")
  /\ offset[e] = found[e]
  /\ Goes(e, "closed")
  /\ UNCHANGED <<found, offset, file, fileVars, alone>>

Rename(e) ==
  /\ At(e, "closed")
  /\ tmp # NoFile
  /\ Goes(e, "exported")
  /\ dest' = tmp
  /\ tmp' = NoFile
  /\ UNCHANGED <<found, offset, file, data, alone>>

\* The rename is refused, or the name is gone.
RenameFails(e) ==
  /\ At(e, "closed")
  /\ Fails(e)
  /\ UNCHANGED <<found, offset, file, dest, data, alone>>

\* An error path on which std::filesystem::remove throws.
RemoveThrows(e) ==
  /\ At(e, "writing") \/ At(e, "closed")
  /\ tmp # NoFile
  /\ Goes(e, "threw")
  /\ UNCHANGED <<found, offset, file, fileVars, alone>>

\* The process ends in the middle of an export.
Killed(e) ==
  /\ Running(e)
  /\ Goes(e, "killed")
  /\ UNCHANGED <<found, offset, file, fileVars, alone>>

-------------------------------------------------------------------------------
Init ==
  /\ pc = [e \in Exports |-> "idle"]
  /\ found = [e \in Exports |-> 0]
  /\ offset = [e \in Exports |-> 0]
  /\ file = [e \in Exports |-> NoFile]
  /\ tmp = NoFile
  /\ dest \in {Old, NoFile}
  /\ data = [i \in Inodes |-> <<>>]
  /\ alone = TRUE

exportToJsonl(e) ==
  \/ Query(e) \/ QueryStopsShort(e) \/ QueryFails(e)
  \/ DirectoriesThrow(e) \/ Open(e) \/ OpenFails(e)
  \/ WriteLine(e) \/ LineThrows(e) \/ WriteFails(e)
  \/ Close(e)
  \/ Rename(e) \/ RenameFails(e)
  \/ RemoveThrows(e)

Next == \E e \in Exports : exportToJsonl(e) \/ Killed(e)

Spec == Init /\ [][Next]_vars

-------------------------------------------------------------------------------
(* Properties. *)

\* Type correctness of the exports and of the file system.
TypeOK ==
  /\ pc \in [Exports -> {"idle", "queried", "writing", "closed",
                         "exported", "failed", "threw", "killed"}]
  /\ found \in [Exports -> 0..Matching] /\ offset \in [Exports -> 0..Matching]
  /\ file \in [Exports -> Exports \cup {NoFile}]
  /\ tmp \in Exports \cup {NoFile} /\ dest \in Inodes \cup {NoFile}
  /\ data \in [Inodes -> Seq(Line \cup {Hole})]
  /\ alone \in BOOLEAN

\* "Exports events matching the filter to a JSONL file atomically via temporary
\* file staging" (EventStore.h): the destination is what it was before the first
\* export, or all the events that match, whichever exports failed, threw or were
\* killed.  Two things break that and are excepted: exports that overlap share
\* <dest>.tmp, and a query that stops short is exported as if it were complete.
DestIsWhole ==
  alone /\ (\A e \in Exports : At(e, "exported") => found[e] = Matching) =>
    (dest \in Exports => \E e \in Exports : At(e, "exported") /\ data[dest] = Lines(e, Matching))

\* exportToJsonl leaves no temporary file when it returns, with a count or with
\* an error, overlapping exports included: one that is there when no export is
\* under way was left by a call that was killed or left by an exception.
TmpIsCleanedUp ==
  (\A e \in Exports : pc[e] \in {"idle", "exported", "failed"}) => tmp = NoFile

===============================================================================
