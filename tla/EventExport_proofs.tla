-------------------------- MODULE EventExport_proofs --------------------------
(***************************************************************************)
(* Proofs about EventExport, for any number of exports and of events.      *)
(* What concerns the temporary file alone holds for overlapping exports    *)
(* too, what concerns the destination as long as none has begun beside     *)
(* another.                                                                *)
(***************************************************************************)
EXTENDS EventExport, TLAPS

(***************************************************************************)
(* The lines of a file.                                                    *)
(***************************************************************************)

\* A file is a sequence of lines and holes.
Text == Line \cup {Hole}

LEMMA LinesType ==
  ASSUME NEW e \in Exports, NEW n \in 0..Matching
  PROVE  Lines(e, n) \in Seq(Text) /\ Len(Lines(e, n)) = n
  BY ExportAssumption DEF Lines, Line, Text

\* A write leaves a file a sequence of lines and holes.
LEMMA WrittenType ==
  ASSUME NEW lines \in Seq(Text), NEW p \in Nat \ {0}, NEW line \in Line
  PROVE  /\ WrittenAt(lines, p, line) \in Seq(Text)
         /\ p > Len(lines) => Len(WrittenAt(lines, p, line)) = p
<1> DEFINE n == IF p > Len(lines) THEN p ELSE Len(lines)
           at(i) == IF i = p THEN line ELSE IF i <= Len(lines) THEN lines[i] ELSE Hole
<1>1. n \in Nat
  OBVIOUS
<1>2. \A i \in 1..n : at(i) \in Text
  BY DEF Text
<1>3. WrittenAt(lines, p, line) = [i \in 1..n |-> at(i)]
  BY DEF WrittenAt
<1> HIDE DEF n, at
<1>4. [i \in 1..n |-> at(i)] \in Seq(Text) /\ Len([i \in 1..n |-> at(i)]) = n
  BY <1>1, <1>2
<1> QED BY <1>3, <1>4 DEF n

\* A truncated file has no lines.
LEMMA NoLines == ASSUME NEW e PROVE Lines(e, 0) = <<>>
  BY DEF Lines

\* The next line of an export extends its file in order.
LEMMA OneMoreLine ==
  ASSUME NEW e \in Exports, NEW n \in 0..(Matching - 1)
  PROVE  WrittenAt(Lines(e, n), n + 1, <<e, n + 1>>) = Lines(e, n + 1)
<1>1. Lines(e, n) \in Seq(Text) /\ Len(Lines(e, n)) = n
  BY LinesType, ExportAssumption
<1>2. Lines(e, n + 1) \in Seq(Text) /\ Len(Lines(e, n + 1)) = n + 1
  BY LinesType, ExportAssumption
<1>3. <<e, n + 1>> \in Line
  BY ExportAssumption DEF Line
<1> DEFINE s == WrittenAt(Lines(e, n), n + 1, <<e, n + 1>>)
<1>4. s \in Seq(Text) /\ Len(s) = n + 1
  BY <1>1, <1>3, WrittenType
<1>5. \A i \in 1..(n + 1) : s[i] = Lines(e, n + 1)[i]
  BY <1>1 DEF Lines, WrittenAt
<1> QED BY <1>2, <1>4, <1>5

(***************************************************************************)
(* The temporary file, whether exports overlap or not.                     *)
(***************************************************************************)

\* An export that writes has a file.
HasFile ==
  \A e \in Exports : pc[e] \in {"writing", "closed"} => file[e] \in Exports

\* The temporary file has somebody who left it or still writes it.
TmpHasReason ==
  tmp # NoFile =>
    \E e \in Exports : pc[e] \in {"writing", "closed", "threw", "killed"}

FileInv == TypeOK /\ HasFile /\ TmpHasReason

LEMMA InitFileInv == Init => FileInv
  BY ExportAssumption DEF Init, FileInv, TypeOK, Inodes, HasFile, TmpHasReason

LEMMA WriteKeepsFileInv ==
  ASSUME FileInv, NEW e \in Exports, WriteLine(e)
  PROVE  FileInv'
<1> DEFINE p == offset[e] + 1
<1>1. /\ pc[e] = "writing" /\ offset[e] < found[e]
      /\ offset' = [offset EXCEPT ![e] = p]
      /\ data' = [data EXCEPT ![file[e]] = WrittenAt(data[file[e]], p, <<e, p>>)]
      /\ UNCHANGED <<pc, found, file, tmp, dest, alone>>
  BY DEF WriteLine, At
<1>2. p \in 1..Matching /\ p \in 0..Matching /\ p \in Nat \ {0}
  BY <1>1, ExportAssumption DEF FileInv, TypeOK
<1>3. <<e, p>> \in Line
  BY <1>2 DEF Line
<1>4. file[e] \in Inodes /\ data[file[e]] \in Seq(Text)
  BY <1>1 DEF FileInv, TypeOK, HasFile, Inodes, Text
<1>5. WrittenAt(data[file[e]], p, <<e, p>>) \in Seq(Text)
  BY <1>2, <1>3, <1>4, WrittenType
<1>6. TypeOK'
  BY <1>1, <1>2, <1>5 DEF FileInv, TypeOK, Text
<1>7. HasFile' /\ TmpHasReason'
  BY <1>1 DEF FileInv, HasFile, TmpHasReason
<1> QED BY <1>6, <1>7 DEF FileInv

\* The queries, and every end of an export that comes before the open or
\* leaves the temporary file.
LEMMA StepKeepsFileInv ==
  ASSUME FileInv, NEW e \in Exports,
         \/ Query(e) \/ QueryStopsShort(e) \/ QueryFails(e) \/ DirectoriesThrow(e)
         \/ OpenFails(e) \/ LineThrows(e) \/ RemoveThrows(e) \/ Close(e) \/ Killed(e)
  PROVE  FileInv'
<1>1. /\ UNCHANGED <<offset, file, tmp, dest, data>> /\ alone' \in BOOLEAN
      /\ found' = found \/ \E n \in 0..Matching : found' = [found EXCEPT ![e] = n]
      /\ \/ /\ pc[e] \in {"idle", "queried"}
            /\ \E there \in {"queried", "failed"} : pc' = [pc EXCEPT ![e] = there]
         \/ \E there \in {"threw", "killed"} : pc' = [pc EXCEPT ![e] = there]
         \/ pc[e] = "writing" /\ pc' = [pc EXCEPT ![e] = "closed"]
  <2>a. alone \in BOOLEAN
    BY DEF FileInv, TypeOK
  <2> USE <2>a DEF Begins, Goes, At, fileVars
  <2>1. CASE Query(e)
    <3>1. Matching \in 0..Matching
      BY ExportAssumption
    <3> QED BY <2>1, <3>1 DEF Query
  <2>2. CASE QueryStopsShort(e)
    <3>1. \A n \in 0..(Matching - 1) : n \in 0..Matching
      BY ExportAssumption
    <3> QED BY <2>2, <3>1 DEF QueryStopsShort
  <2>3. CASE QueryFails(e) \/ DirectoriesThrow(e) \/ OpenFails(e)
    BY <2>3 DEF QueryFails, DirectoriesThrow, OpenFails
  <2>4. CASE LineThrows(e) \/ RemoveThrows(e) \/ Close(e) \/ Killed(e)
    BY <2>4 DEF LineThrows, RemoveThrows, Close, Killed
  <2> QED BY <2>1, <2>2, <2>3, <2>4
<1>2. TypeOK'
  BY <1>1 DEF FileInv, TypeOK
<1>3. HasFile' /\ TmpHasReason'
  BY <1>1 DEF FileInv, TypeOK, HasFile, TmpHasReason
<1> QED BY <1>2, <1>3 DEF FileInv

\* The steps that give or take the temporary name.
LEMMA NameKeepsFileInv ==
  ASSUME FileInv, NEW e \in Exports,
         Open(e) \/ WriteFails(e) \/ Rename(e) \/ RenameFails(e)
  PROVE  FileInv'
<1>1. CASE Open(e)
  <2> DEFINE inode == IF tmp = NoFile THEN e ELSE tmp
  <2>1. /\ pc' = [pc EXCEPT ![e] = "writing"]
        /\ file' = [file EXCEPT ![e] = inode] /\ tmp' = inode
        /\ data' = [data EXCEPT ![inode] = <<>>]
        /\ UNCHANGED <<found, offset, dest, alone>>
    BY <1>1 DEF Open, Goes
  <2>2. inode \in Exports
    BY DEF FileInv, TypeOK
  <2> HIDE DEF inode
  <2> QED BY <2>1, <2>2 DEF FileInv, TypeOK, HasFile, TmpHasReason, Inodes
<1>2. CASE WriteFails(e) \/ Rename(e) \/ RenameFails(e)
  <2>1. /\ \E there \in {"failed", "exported"} : pc' = [pc EXCEPT ![e] = there]
        /\ tmp' = NoFile /\ (dest' = dest \/ (tmp # NoFile /\ dest' = tmp))
        /\ UNCHANGED <<found, offset, file, data, alone>>
    BY <1>2 DEF WriteFails, Rename, RenameFails, Fails, Goes
  <2> QED BY <2>1 DEF FileInv, TypeOK, HasFile, TmpHasReason, Inodes
<1> QED BY <1>1, <1>2

LEMMA NextFileInv == FileInv /\ [Next]_vars => FileInv'
<1> SUFFICES ASSUME FileInv, [Next]_vars PROVE FileInv'
  OBVIOUS
<1>1. CASE UNCHANGED vars
  BY <1>1 DEF vars, exportVars, fileVars, FileInv, TypeOK, HasFile, TmpHasReason
<1>2. CASE Next
  <2>1. PICK e \in Exports : exportToJsonl(e) \/ Killed(e)
    BY <1>2 DEF Next
  <2> QED BY <2>1, WriteKeepsFileInv, StepKeepsFileInv, NameKeepsFileInv DEF exportToJsonl
<1> QED BY <1>1, <1>2

(***************************************************************************)
(* The inductive invariant for one export at a time.                       *)
(***************************************************************************)

\* One export at a time: one that threw or was killed is over.
OneAtATime ==
  \A e, f \in Exports : Running(e) /\ Running(f) => e = f

\* What the export under way has put into the file it has open, which is the one
\* that has the temporary name.
Staged ==
  \A e \in Exports :
    /\ pc[e] \in {"idle", "queried"} => offset[e] = 0
    /\ pc[e] \in {"writing", "closed"} =>
         /\ tmp # NoFile /\ file[e] = tmp
         /\ offset[e] <= found[e]
         /\ data[tmp] = Lines(e, offset[e])
    /\ pc[e] = "closed" => offset[e] = found[e]

\* An inode has a name only once its export has opened it, and has one name.
NamesAreDistinct ==
  /\ \A e \in Exports : e \in {tmp, dest} => pc[e] \notin {"idle", "queried"}
  /\ tmp # NoFile => tmp # dest

\* The destination is what it was, or all that the query of an export found.
Whole ==
  dest \in Exports => \E e \in Exports : At(e, "exported") /\ data[dest] = Lines(e, found[e])

IInv ==
  /\ TypeOK /\ OneAtATime /\ Staged /\ NamesAreDistinct
  /\ Whole

LEMMA InitIInv == Init => IInv
<1> SUFFICES ASSUME Init PROVE IInv
  OBVIOUS
<1>1. TypeOK
  BY ExportAssumption DEF Init, TypeOK, Inodes
<1>2. OneAtATime /\ Staged /\ NamesAreDistinct /\ Whole
  BY ExportAssumption
  DEF Init, OneAtATime, Running, Staged, NamesAreDistinct, Whole
<1> QED BY <1>1, <1>2 DEF IInv

\* A step from one place to another, with the files left alone.
LEMMA QueryKeepsIInv ==
  ASSUME alone', IInv, TypeOK', NEW e \in Exports,
         Query(e) \/ QueryStopsShort(e) \/ QueryFails(e)
  PROVE  IInv'
<1>1. /\ pc[e] = "idle" /\ \A f \in Exports : ~Running(f)
      /\ UNCHANGED <<offset, file, tmp, dest, data>>
      /\ \E n \in 0..Matching : found' = [found EXCEPT ![e] = n]
      /\ \E there \in {"queried", "failed"} : pc' = [pc EXCEPT ![e] = there]
  <2> USE DEF Begins, Goes, At, fileVars
  <2>1. CASE Query(e)
    <3>1. Matching \in 0..Matching /\ found' = [found EXCEPT ![e] = Matching]
      BY <2>1, ExportAssumption DEF Query
    <3> QED BY <2>1, <3>1 DEF Query
  <2>2. CASE QueryStopsShort(e)
    <3>1. PICK n \in 0..(Matching - 1) : found' = [found EXCEPT ![e] = n]
      BY <2>2 DEF QueryStopsShort
    <3>2. n \in 0..Matching
      BY ExportAssumption
    <3> QED BY <2>2, <3>1, <3>2 DEF QueryStopsShort
  <2>3. CASE QueryFails(e)
    <3>1. found[e] \in 0..Matching /\ found = [found EXCEPT ![e] = found[e]]
      BY DEF IInv, TypeOK
    <3> QED BY <2>3, <3>1 DEF QueryFails
  <2> QED BY <2>1, <2>2, <2>3
<1>2. OneAtATime'
  BY <1>1 DEF IInv, TypeOK, OneAtATime, Running
<1>3. Staged'
  BY <1>1 DEF IInv, TypeOK, Staged
<1>4. NamesAreDistinct'
  BY <1>1 DEF IInv, TypeOK, NamesAreDistinct
<1>5. Whole'
  BY <1>1 DEF IInv, TypeOK, Whole, At
<1> QED BY <1>2, <1>3, <1>4, <1>5 DEF IInv

\* Opening takes the temporary name, from nobody who still uses it, and what it
\* truncates is not the destination.
LEMMA OpenKeepsIInv ==
  ASSUME IInv, TypeOK', NEW e \in Exports, Open(e)
  PROVE  IInv'
<1> DEFINE inode == IF tmp = NoFile THEN e ELSE tmp
<1>1. /\ pc[e] = "queried"
      /\ pc' = [pc EXCEPT ![e] = "writing"]
      /\ file' = [file EXCEPT ![e] = inode]
      /\ tmp' = inode
      /\ data' = [data EXCEPT ![inode] = <<>>]
      /\ UNCHANGED <<found, offset, dest>>
  BY DEF Open, At, Goes
<1>2. inode \in Exports /\ inode # dest /\ inode # NoFile
  BY <1>1, ExportAssumption DEF IInv, TypeOK, NamesAreDistinct
<1> HIDE DEF inode
<1>4. OneAtATime'
  BY <1>1 DEF IInv, TypeOK, OneAtATime, Running
<1>5. \A f \in Exports : f # e => pc'[f] \notin {"writing", "closed"} /\ pc'[f] = pc[f]
  BY <1>1 DEF IInv, TypeOK, OneAtATime, Running
<1>6. Staged'
  <2>1. data'[tmp'] = Lines(e, 0) /\ offset'[e] = 0 /\ file'[e] = tmp' /\ pc'[e] = "writing"
    BY <1>1, <1>2, NoLines DEF IInv, TypeOK, Staged, Inodes
  <2>2. found'[e] \in Nat /\ tmp' # NoFile
    BY <1>1, <1>2 DEF IInv, TypeOK
  <2> QED BY <1>1, <1>5, <2>1, <2>2 DEF IInv, Staged
<1>7. NamesAreDistinct'
  <2>1. \A f \in Exports : f = inode => pc'[f] \notin {"idle", "queried"}
    BY <1>1 DEF IInv, TypeOK, NamesAreDistinct, inode
  <2> QED BY <1>1, <1>2, <2>1 DEF IInv, TypeOK, NamesAreDistinct
<1>8. Whole'
  <2>1. dest \in Exports => data'[dest] = data[dest]
    BY <1>1, <1>2 DEF IInv, TypeOK, Inodes
  <2>2. \A f \in Exports : pc[f] = "exported" => pc'[f] = "exported"
    BY <1>1 DEF IInv, TypeOK
  <2> QED BY <1>1, <2>1, <2>2 DEF IInv, Whole, At
<1> QED BY <1>4, <1>6, <1>7, <1>8 DEF IInv

\* A line goes to the end of the temporary file and to no other.
LEMMA WriteKeepsIInv ==
  ASSUME IInv, TypeOK', NEW e \in Exports, WriteLine(e)
  PROVE  IInv'
<1> DEFINE n == offset[e]
<1>1. /\ pc[e] = "writing" /\ n < found[e]
      /\ offset' = [offset EXCEPT ![e] = n + 1]
      /\ data' = [data EXCEPT ![file[e]] = WrittenAt(data[file[e]], n + 1, <<e, n + 1>>)]
      /\ UNCHANGED <<pc, found, file, tmp, dest>>
  BY DEF WriteLine, At
<1>2. file[e] = tmp /\ tmp # NoFile /\ tmp \in Exports /\ data[tmp] = Lines(e, n)
  BY <1>1, ExportAssumption DEF IInv, TypeOK, Staged
<1>3. n \in 0..(Matching - 1) /\ found[e] \in 0..Matching
  BY <1>1, ExportAssumption DEF IInv, TypeOK
<1>4. data' = [data EXCEPT ![tmp] = Lines(e, n + 1)]
  BY <1>1, <1>2, <1>3, OneMoreLine
<1>5. n + 1 \in 0..Matching /\ n + 1 <= found[e]
  BY <1>1, <1>3, ExportAssumption
<1>8. OneAtATime' /\ NamesAreDistinct'
  BY <1>1 DEF IInv, OneAtATime, Running, NamesAreDistinct
<1>9. Staged'
  <2>1. \A f \in Exports : f # e => pc[f] \notin {"writing", "closed"}
    BY <1>1 DEF IInv, TypeOK, OneAtATime, Running
  <2>2. data'[tmp] = Lines(e, n + 1) /\ offset'[e] = n + 1
    BY <1>1, <1>2, <1>4 DEF IInv, TypeOK, Inodes
  <2>3. \A f \in Exports : f # e => offset'[f] = offset[f]
    BY <1>1 DEF IInv, TypeOK
  <2> QED BY <1>1, <1>2, <1>5, <2>1, <2>2, <2>3 DEF IInv, Staged
<1>10. Whole'
  <2>1. dest \in Exports => data'[dest] = data[dest]
    BY <1>2, <1>4 DEF IInv, TypeOK, NamesAreDistinct, Inodes
  <2> QED BY <1>1, <2>1 DEF IInv, Whole, At
<1> QED BY <1>8, <1>9, <1>10 DEF IInv

\* Whoever fails after the open removes the temporary name; who fails before it,
\* throws or is killed leaves the name as it is.
LEMMA FailKeepsIInv ==
  ASSUME IInv, TypeOK', NEW e \in Exports,
         \/ DirectoriesThrow(e) \/ OpenFails(e) \/ LineThrows(e) \/ WriteFails(e)
         \/ RenameFails(e) \/ RemoveThrows(e) \/ Killed(e)
  PROVE  IInv'
<1>1. /\ Running(e)
      /\ \E there \in {"failed", "threw", "killed"} : pc' = [pc EXCEPT ![e] = there]
      /\ UNCHANGED <<found, offset, file, dest, data>>
      /\ tmp' = tmp \/ tmp' = NoFile
  BY DEF DirectoriesThrow, OpenFails, LineThrows, WriteFails, RenameFails, RemoveThrows,
         Killed, Fails, Goes, At, Running, fileVars
<1>2. \A f \in Exports : f # e => ~Running(f) /\ pc'[f] = pc[f]
  BY <1>1 DEF IInv, TypeOK, OneAtATime
<1>3. pc'[e] \in {"failed", "threw", "killed"}
  BY <1>1 DEF IInv, TypeOK
<1>5. OneAtATime'
  BY <1>2, <1>3 DEF OneAtATime, Running
<1>6. Staged'
  BY <1>1, <1>2, <1>3 DEF IInv, Staged, Running
<1>7. NamesAreDistinct'
  BY <1>1, <1>2, <1>3, ExportAssumption DEF IInv, TypeOK, NamesAreDistinct
<1>9. Whole'
  BY <1>1, <1>2, <1>3 DEF IInv, Whole, At, Running
<1> QED BY <1>5, <1>6, <1>7, <1>9 DEF IInv

\* The file is closed with all its lines in it.
LEMMA CloseKeepsIInv ==
  ASSUME IInv, TypeOK', NEW e \in Exports, Close(e)
  PROVE  IInv'
<1>1. /\ pc[e] = "writing" /\ offset[e] = found[e]
      /\ pc' = [pc EXCEPT ![e] = "closed"]
      /\ UNCHANGED <<found, offset, file, tmp, dest, data>>
  BY DEF Close, At, Goes, fileVars
<1>2. \A f \in Exports : f # e => pc'[f] = pc[f]
  BY <1>1 DEF IInv, TypeOK
<1>3. pc'[e] = "closed"
  BY <1>1 DEF IInv, TypeOK
<1>4. OneAtATime' /\ Staged' /\ NamesAreDistinct' /\ Whole'
  BY <1>1, <1>2, <1>3
  DEF IInv, OneAtATime, Staged, NamesAreDistinct, Whole, Running, At
<1> QED BY <1>4 DEF IInv

\* The rename puts the whole file in the place of the old one.
LEMMA RenameKeepsIInv ==
  ASSUME IInv, TypeOK', NEW e \in Exports, Rename(e)
  PROVE  IInv'
<1>1. /\ pc[e] = "closed" /\ tmp # NoFile
      /\ pc' = [pc EXCEPT ![e] = "exported"]
      /\ dest' = tmp /\ tmp' = NoFile
      /\ UNCHANGED <<found, offset, file, data>>
  BY DEF Rename, At, Goes
<1>2. \A f \in Exports : f # e => ~Running(f) /\ pc'[f] = pc[f]
  BY <1>1 DEF IInv, TypeOK, OneAtATime, Running
<1>3. pc'[e] = "exported"
  BY <1>1 DEF IInv, TypeOK
<1>5. OneAtATime'
  BY <1>1, <1>2, <1>3 DEF OneAtATime, Running
<1>6. Staged'
  BY <1>1, <1>2, <1>3 DEF IInv, Staged, Running
<1>7. NamesAreDistinct'
  BY <1>1, <1>2, <1>3, ExportAssumption DEF IInv, TypeOK, NamesAreDistinct
<1>8. Whole'
  <2>1. data[tmp] = Lines(e, found[e])
    BY <1>1 DEF IInv, Staged
  <2> QED BY <1>1, <1>3, <2>1 DEF Whole, At
<1> QED BY <1>5, <1>6, <1>7, <1>8 DEF IInv

\* It holds until an export begins beside another.
AloneInv == alone => IInv

LEMMA NextAloneInv == FileInv' /\ AloneInv /\ [Next]_vars => AloneInv'
<1> SUFFICES ASSUME FileInv', AloneInv, [Next]_vars, alone' PROVE IInv'
  BY DEF AloneInv
<1>1. CASE UNCHANGED vars
  BY <1>1
  DEF vars, exportVars, fileVars, AloneInv, IInv, TypeOK, OneAtATime, Staged,
      NamesAreDistinct, Whole, Running, At
<1>2. CASE Next
  <2>1. PICK e \in Exports : exportToJsonl(e) \/ Killed(e)
    BY <1>2 DEF Next
  <2>2. TypeOK'
    BY DEF FileInv
  <2>3. alone
    BY <2>1
    DEF exportToJsonl, Query, QueryStopsShort, QueryFails, Begins, DirectoriesThrow, Open,
        OpenFails, WriteLine, LineThrows, WriteFails, Close, Rename, RenameFails,
        RemoveThrows, Killed
  <2>4. IInv
    BY <2>3 DEF AloneInv
  <2> QED
    BY <2>1, <2>2, <2>4, QueryKeepsIInv, OpenKeepsIInv, WriteKeepsIInv, FailKeepsIInv,
       CloseKeepsIInv, RenameKeepsIInv
    DEF exportToJsonl
<1> QED BY <1>1, <1>2

(***************************************************************************)
(* The theorems.                                                           *)
(***************************************************************************)

\* Whether exports overlap or not, every export that writes has a file, and the
\* temporary file somebody who writes it or left without removing it.
THEOREM FileInvHolds == Spec => []FileInv
  BY InitFileInv, NextFileInv, PTL DEF Spec

\* The exports and the file system stay well-typed.
THEOREM TypeCorrect == Spec => []TypeOK
<1>1. FileInv => TypeOK
  BY DEF FileInv
<1> QED BY <1>1, FileInvHolds, PTL

\* A temporary file that outlives the exports was left by one that was killed or
\* left by an exception: every path of exportToJsonl that returns removes it or
\* renames it, even when exports to one destination overlap.
THEOREM ReturnCleansUp == Spec => []TmpIsCleanedUp
<1>1. FileInv => TmpIsCleanedUp
  BY DEF FileInv, TmpHasReason, TmpIsCleanedUp
<1> QED BY <1>1, FileInvHolds, PTL

\* As long as no export has begun beside another, the invariant that ties the
\* temporary file, the destination and the export under way together holds in
\* every behaviour of exportToJsonl.
THEOREM AloneInvHolds == Spec => []AloneInv
<1>1. Init => AloneInv
  BY InitIInv DEF AloneInv
<1> QED BY <1>1, NextAloneInv, FileInvHolds, PTL DEF Spec

\* If no export began beside another and no exported query stopped short, the
\* destination is what it was or all the events that match, whichever of any
\* number of exports failed, threw, were killed or found the remains of others
\* (exportToJsonl).
THEOREM DestinationIsWhole == Spec => []DestIsWhole
<1>1. AloneInv => DestIsWhole
  <2> SUFFICES ASSUME IInv, dest \in Exports,
                      \A e \in Exports : At(e, "exported") => found[e] = Matching
               PROVE  \E e \in Exports : At(e, "exported") /\ data[dest] = Lines(e, Matching)
    BY DEF AloneInv, DestIsWhole
  <2>1. PICK e \in Exports : At(e, "exported") /\ data[dest] = Lines(e, found[e])
    BY DEF IInv, Whole
  <2>2. found[e] = Matching
    BY <2>1
  <2> QED BY <2>1, <2>2
<1> QED BY <1>1, AloneInvHolds, PTL

===============================================================================
