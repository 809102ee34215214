------------------------- MODULE CommandRunner_proofs -------------------------
(***************************************************************************)
(* Proofs about CommandRunner, for any processes and behaviours of them,   *)
(* any sizes of buffer, pipe and output limit: run() returns what the      *)
(* command wrote, an honest exit code, and what RunnerContract promises.   *)
(***************************************************************************)
EXTENDS CommandRunner, TLAPS

\* The lesser of two numbers (std::min in appendBounded).
LEMMA MinOfTwo ==
  ASSUME NEW a \in Int, NEW b \in Int
  PROVE  Min({a, b}) = IF a <= b THEN a ELSE b
<1> DEFINE m == IF a <= b THEN a ELSE b
<1>1. m \in {a, b} /\ \A y \in {a, b} : m <= y
  OBVIOUS
<1>2. \A x \in {a, b} : (\A y \in {a, b} : x <= y) => x = m
  OBVIOUS
<1> QED BY <1>1, <1>2 DEF Min

(***************************************************************************)
(* The inductive invariant.                                                *)
(***************************************************************************)

\* What was read, up to the limit, is in the result (appendBounded).
ResultKeepsOutput ==
  /\ pipe <= written
  /\ ~read_failed =>
       /\ result.output = IF written - pipe <= max_output_bytes THEN written - pipe
                                                                ELSE max_output_bytes
       /\ result.output_truncated <=> written - pipe > max_output_bytes

\* The end of the pipe is the end: nobody is left to write.
EndOfPipe == (pipe_finished /\ ~read_failed) => (pc # "start" /\ pipe = 0 /\ holds = {})

\* Before the fork there are no processes, and the shell runs once.
ShellRunsOnce ==
  /\ pc = "start" => alive = {} /\ wait_status = Running
  /\ wait_status # Running => Shell \notin alive
  /\ child_finished => reaped
  /\ reaped => wait_status # Running

\* The flags say why signals were sent, and that some were.
FlagsAreHonest ==
  /\ ~(result.timed_out /\ result.cancelled)
  /\ result.cancelled => stop_requested
  /\ result.timed_out => expired
  /\ (doomed # {} \/ pc \in {"grace", "kill"}) => (result.timed_out \/ result.cancelled)

\* The code that belongs to the flags of a result.
ExitCodeOf(r) ==
  IF r.cancelled THEN kCommandCancelled
  ELSE IF r.timed_out THEN kCommandTimedOut
  ELSE normalizedExitCode(wait_status)

\* The exit code is set after the loop, when it has been left through both ends.
ReturnsExitCode ==
  pc = "returned" => /\ child_finished /\ pipe_finished
                     /\ result.exit_code = ExitCodeOf(result)

IInv == /\ TypeOK /\ ResultKeepsOutput /\ EndOfPipe
        /\ ShellRunsOnce /\ FlagsAreHonest /\ ReturnsExitCode

-------------------------------------------------------------------------------
(* Types. *)

\* Appending keeps the result within its limit.
LEMMA AppendIsBounded ==
  ASSUME NEW r \in CommandResult, NEW size \in Nat
  PROVE  /\ appendBounded(r, size) \in CommandResult
         /\ appendBounded(r, size).output =
              IF r.output + size <= max_output_bytes THEN r.output + size
                                                     ELSE max_output_bytes
         /\ appendBounded(r, size).output_truncated <=>
              (r.output_truncated \/ r.output + size > max_output_bytes)
         /\ appendBounded(r, size).timed_out = r.timed_out
         /\ appendBounded(r, size).cancelled = r.cancelled
<1> DEFINE remaining == max_output_bytes - r.output
           accepted  == Min({size, remaining})
<1>1. max_output_bytes \in Nat /\ r.output \in 0..max_output_bytes
  BY RunnerAssumption DEF CommandResult
<1>2. accepted = IF size <= remaining THEN size ELSE remaining
  BY <1>1, MinOfTwo
<1> HIDE DEF accepted
<1> DEFINE a == [r EXCEPT !.output = @ + accepted, !.output_truncated = @ \/ accepted < size]
<1>3. appendBounded(r, size) = a
  BY DEF appendBounded, accepted
<1>4. /\ a.output = r.output + accepted
      /\ a.output_truncated <=> (r.output_truncated \/ accepted < size)
      /\ a.timed_out = r.timed_out /\ a.cancelled = r.cancelled
  BY DEF CommandResult
<1>5. r.output + accepted \in 0..max_output_bytes
  BY <1>1, <1>2
<1>6. a \in CommandResult
  BY <1>5 DEF CommandResult
<1> QED BY <1>1, <1>2, <1>3, <1>4, <1>6

\* What the loop returns is a result, of which only the exit code was changed.
LEMMA ReturnedIsResult ==
  ASSUME NEW r \in CommandResult, wait_status \in WaitStatus \cup {Running}
  PROVE  /\ Returned(r) \in CommandResult
         /\ Returned(r).output = r.output
         /\ Returned(r).output_truncated = r.output_truncated
         /\ Returned(r).timed_out = r.timed_out
         /\ Returned(r).cancelled = r.cancelled
         /\ Returned(r).exit_code = ExitCodeOf(r)
<1>1. normalizedExitCode(wait_status) \in Nat
  BY DEF normalizedExitCode, WaitStatus, Running, kCommandFailedToStart
<1>2. ExitCodeOf(r) \in Nat
  BY <1>1 DEF ExitCodeOf, kCommandCancelled, kCommandTimedOut
<1>3. Returned(r) = [r EXCEPT !.exit_code = ExitCodeOf(r)]
  BY DEF Returned, ExitCodeOf, CommandResult
<1> QED BY <1>2, <1>3 DEF CommandResult

-------------------------------------------------------------------------------
(* The invariant holds initially and is kept by each action. *)

LEMMA InitIInv == Init => IInv
<1> SUFFICES ASSUME Init PROVE IInv
  OBVIOUS
<1>1. max_output_bytes \in Nat /\ PipeSize \in Nat /\ MaxWritten \in Nat
  BY RunnerAssumption
<1>2. TypeOK
  <2>1. result \in CommandResult
    BY <1>1 DEF Init, CommandResult
  <2>2. /\ child_finished \in BOOLEAN /\ pipe_finished \in BOOLEAN /\ reaped \in BOOLEAN
        /\ stop_requested \in BOOLEAN /\ expired \in BOOLEAN /\ read_failed \in BOOLEAN
    BY DEF Init
  <2>3. pipe \in 0..PipeSize /\ written \in 0..MaxWritten
    BY <1>1 DEF Init
  <2> QED BY <2>1, <2>2, <2>3 DEF Init, TypeOK
<1>3. ResultKeepsOutput
  BY <1>1 DEF Init, ResultKeepsOutput
<1>4. EndOfPipe /\ ShellRunsOnce /\ FlagsAreHonest /\ ReturnsExitCode
  BY DEF Init, EndOfPipe, ShellRunsOnce, FlagsAreHonest, ReturnsExitCode
<1> QED BY <1>2, <1>3, <1>4 DEF IInv

LEMMA StartStep == ASSUME IInv, Start \/ StartFails PROVE IInv'
<1> USE DEF IInv, Start, StartFails, At, loopVars, osVars, pipeVars
<1>1. TypeOK'
  BY DEF TypeOK, Processes, ShellRunsOnce
<1>2. ResultKeepsOutput'
  BY DEF ResultKeepsOutput
<1>3. EndOfPipe'
  BY DEF EndOfPipe
<1>4. ShellRunsOnce'
  BY DEF ShellRunsOnce
<1>5. FlagsAreHonest'
  BY DEF FlagsAreHonest
<1>6. ReturnsExitCode'
  BY DEF ReturnsExitCode
<1> QED BY <1>1, <1>2, <1>3, <1>4, <1>5, <1>6

\* A read moves bytes from the pipe to the result, or finds the pipe's end.
LEMMA ReadStep == ASSUME IInv, Read PROVE IInv'
<1> DEFINE size == Min({pipe, ReadSize})
<1>1. /\ pipe \in 0..PipeSize /\ written \in 0..MaxWritten /\ result \in CommandResult
      /\ max_output_bytes \in Nat /\ PipeSize \in Nat /\ MaxWritten \in Nat
      /\ ReadSize \in Nat \ {0}
      /\ pipe <= written
  BY RunnerAssumption DEF IInv, TypeOK, ResultKeepsOutput
<1>2. size \in 0..pipe /\ (size = 0 => pipe = 0)
  BY <1>1, MinOfTwo
<1>3. /\ result' = IF size > 0 THEN appendBounded(result, size) ELSE result
      /\ pipe' = pipe - size
      /\ pipe_finished' \in BOOLEAN
      /\ pipe_finished' <=> (pipe_finished \/ (size = 0 /\ holds = {}))
      /\ pc = "read" /\ pc' = "wait"
      /\ UNCHANGED <<behaviour, child_finished, osVars, reaped, written, read_failed,
                     stop_requested, expired>>
  BY DEF Read, At, IInv, TypeOK
<1> HIDE DEF size
<1>4. /\ result' \in CommandResult
      /\ result'.output = IF result.output + size <= max_output_bytes
                          THEN result.output + size ELSE max_output_bytes
      /\ result'.output_truncated <=>
           (result.output_truncated \/ result.output + size > max_output_bytes)
      /\ result'.timed_out = result.timed_out /\ result'.cancelled = result.cancelled
  <2>1. CASE size > 0
    BY <1>1, <1>2, <1>3, <2>1, AppendIsBounded
  <2>2. CASE size = 0
    BY <1>1, <1>3, <2>2 DEF CommandResult
  <2> QED BY <1>1, <1>2, <2>1, <2>2
<1>5. TypeOK'
  BY <1>1, <1>2, <1>3, <1>4 DEF IInv, TypeOK, osVars
<1>6. ResultKeepsOutput'
  BY <1>1, <1>2, <1>3, <1>4 DEF IInv, ResultKeepsOutput
<1>7. EndOfPipe'
  BY <1>1, <1>2, <1>3 DEF IInv, EndOfPipe, osVars
<1>8. ShellRunsOnce' /\ ReturnsExitCode'
  BY <1>3 DEF IInv, ShellRunsOnce, ReturnsExitCode, osVars
<1>9. FlagsAreHonest'
  BY <1>3, <1>4 DEF IInv, FlagsAreHonest, osVars
<1> QED BY <1>5, <1>6, <1>7, <1>8, <1>9 DEF IInv

\* A failed read is taken for the end of the pipe.
LEMMA ReadFailsStep == ASSUME IInv, ReadFails PROVE IInv'
<1> USE DEF IInv, ReadFails, At, osVars
<1>1. TypeOK'
  BY DEF TypeOK
<1>2. ResultKeepsOutput' /\ EndOfPipe'
  BY DEF ResultKeepsOutput, EndOfPipe
<1>3. ShellRunsOnce'
  BY DEF ShellRunsOnce
<1>4. FlagsAreHonest' /\ ReturnsExitCode'
  BY DEF FlagsAreHonest, ReturnsExitCode
<1> QED BY <1>1, <1>2, <1>3, <1>4

\* waitpid reaps the shell once it has ended.
LEMMA WaitStep == ASSUME IInv, Wait \/ WaitFails PROVE IInv'
<1> USE DEF IInv, Wait, WaitFails, At, loopVars, osVars, pipeVars
<1>1. TypeOK'
  BY DEF TypeOK
<1>2. ResultKeepsOutput' /\ EndOfPipe'
  BY DEF ResultKeepsOutput, EndOfPipe
<1>3. ShellRunsOnce'
  BY DEF ShellRunsOnce, TypeOK
<1>4. FlagsAreHonest' /\ ReturnsExitCode'
  BY DEF FlagsAreHonest, ReturnsExitCode
<1> QED BY <1>1, <1>2, <1>3, <1>4

\* Leaving the loop, or taking another turn, with the child's state perhaps
\* learnt in the same step.
LEMMA LeavingKeepsIInv ==
  ASSUME IInv, NEW done \in BOOLEAN,
         pc # "start", pc' = (IF done THEN "returned" ELSE "read"),
         result' = (IF done THEN Returned(result) ELSE result),
         child_finished' \in BOOLEAN, reaped' \in BOOLEAN,
         done => child_finished' /\ pipe_finished,
         child_finished' => reaped', reaped' => wait_status # Running,
         UNCHANGED <<behaviour, pipe_finished, osVars, pipeVars, stop_requested, expired>>
  PROVE  IInv'
<1>1. result \in CommandResult /\ wait_status \in WaitStatus \cup {Running}
  BY DEF IInv, TypeOK
<1>2. /\ result' \in CommandResult
      /\ result'.output = result.output
      /\ result'.output_truncated = result.output_truncated
      /\ result'.cancelled = result.cancelled /\ result'.timed_out = result.timed_out
      /\ done => result'.exit_code = ExitCodeOf(result)
  BY <1>1, ReturnedIsResult
<1>3. TypeOK'
  BY <1>2 DEF IInv, TypeOK, osVars, pipeVars
<1>4. ResultKeepsOutput' /\ EndOfPipe'
  BY <1>2 DEF IInv, ResultKeepsOutput, EndOfPipe, osVars, pipeVars
<1>5. ShellRunsOnce'
  BY DEF IInv, ShellRunsOnce, osVars
<1>6. FlagsAreHonest'
  BY <1>2 DEF IInv, FlagsAreHonest, osVars
<1>7. ReturnsExitCode'
  BY <1>2 DEF ReturnsExitCode, ExitCodeOf, osVars
<1> QED BY <1>3, <1>4, <1>5, <1>6, <1>7 DEF IInv

\* The turn ends: the loop is left with an exit code, or goes on.
LEMMA CheckStep == ASSUME IInv, Check PROVE IInv'
<1>1. /\ result \in CommandResult /\ wait_status \in WaitStatus \cup {Running}
      /\ child_finished \in BOOLEAN /\ pipe_finished \in BOOLEAN /\ reaped \in BOOLEAN
      /\ child_finished => reaped
      /\ reaped => wait_status # Running
  BY DEF IInv, TypeOK, ShellRunsOnce
<1>2. /\ pc = "check" /\ pc' = IF Done THEN "returned" ELSE "read"
      /\ result' = IF Done THEN Returned(result) ELSE result
      /\ UNCHANGED <<behaviour, child_finished, pipe_finished, osVars, reaped, pipeVars,
                     stop_requested, expired>>
  BY DEF Check, At
<1>3. Done \in BOOLEAN /\ (Done => child_finished /\ pipe_finished)
  BY DEF Done
<1> QED BY <1>1, <1>2, <1>3, LeavingKeepsIInv

\* SIGTERM is sent, and the result says why.
LEMMA InterruptStep == ASSUME IInv, Interrupt PROVE IInv'
<1>1. /\ result \in CommandResult /\ stop_requested \in BOOLEAN
      /\ stop_requested \/ expired
      /\ pc = "check" /\ pc' = "grace"
      /\ result' = [result EXCEPT !.cancelled = stop_requested, !.timed_out = ~stop_requested]
      /\ doomed' \subseteq doomed \cup alive
      /\ UNCHANGED <<behaviour, child_finished, pipe_finished, alive, started, holds,
                     wait_status, reaped, pipeVars, stop_requested, expired>>
  BY DEF IInv, TypeOK, Interrupt, Interrupted, At, Group
<1>2. /\ result' \in CommandResult
      /\ result'.output = result.output
      /\ result'.output_truncated = result.output_truncated
      /\ result'.cancelled <=> stop_requested
      /\ result'.timed_out <=> ~stop_requested
  BY <1>1 DEF CommandResult
<1>3. TypeOK'
  BY <1>1, <1>2 DEF IInv, TypeOK, pipeVars
<1>4. ResultKeepsOutput' /\ EndOfPipe'
  BY <1>1, <1>2 DEF IInv, ResultKeepsOutput, EndOfPipe, pipeVars
<1>5. ShellRunsOnce'
  BY <1>1 DEF IInv, ShellRunsOnce
<1>6. FlagsAreHonest'
  BY <1>1, <1>2 DEF FlagsAreHonest
<1>7. ReturnsExitCode'
  BY <1>1 DEF ReturnsExitCode
<1> QED BY <1>3, <1>4, <1>5, <1>6, <1>7 DEF IInv

\* The shell is reaped during the grace period or after SIGKILL.
LEMMA ReapStep == ASSUME IInv, GraceReaps \/ KillReaps PROVE IInv'
<1>1. /\ result \in CommandResult /\ wait_status \in WaitStatus \cup {Running}
      /\ pipe_finished \in BOOLEAN
  BY DEF IInv, TypeOK
<1>2. /\ pc \in {"grace", "kill"} /\ wait_status # Running
      /\ pc' = IF pipe_finished THEN "returned" ELSE "read"
      /\ result' = IF pipe_finished THEN Returned(result) ELSE result
      /\ child_finished' = TRUE /\ reaped' = TRUE
      /\ UNCHANGED <<behaviour, pipe_finished, osVars, pipeVars, stop_requested, expired>>
  BY DEF GraceReaps, KillReaps, At
<1> QED BY <1>1, <1>2, LeavingKeepsIInv

\* The grace period is over, and SIGKILL may follow.
LEMMA GraceEndsStep == ASSUME IInv, GraceEnds PROVE IInv'
<1> USE DEF IInv, GraceEnds, At, loopVars, pipeVars
<1>1. TypeOK'
  BY DEF TypeOK, Group
<1>2. ResultKeepsOutput' /\ EndOfPipe'
  BY DEF ResultKeepsOutput, EndOfPipe
<1>3. ShellRunsOnce'
  BY DEF ShellRunsOnce
<1>4. FlagsAreHonest' /\ ReturnsExitCode'
  BY DEF FlagsAreHonest, ReturnsExitCode
<1> QED BY <1>1, <1>2, <1>3, <1>4

-------------------------------------------------------------------------------
(* The processes beside the loop. *)

\* A process ends; the shell can do so once.
LEMMA EndedStep ==
  ASSUME IInv, NEW p \in Processes, NEW status \in WaitStatus, p \in alive, Ended(p, status)
  PROVE  IInv'
<1> USE DEF IInv, Ended, loopVars, pipeVars
<1>1. TypeOK'
  BY DEF TypeOK
<1>2. ResultKeepsOutput' /\ EndOfPipe'
  BY DEF ResultKeepsOutput, EndOfPipe
<1>3. status # Running
  BY DEF WaitStatus, Running
<1>4. ShellRunsOnce'
  BY <1>3 DEF ShellRunsOnce
<1>5. FlagsAreHonest'
  BY DEF FlagsAreHonest
<1>6. pc = "returned" => p # Shell
  BY DEF ReturnsExitCode, ShellRunsOnce
<1>7. ReturnsExitCode'
  BY <1>6 DEF ReturnsExitCode, ExitCodeOf
<1> QED BY <1>1, <1>2, <1>4, <1>5, <1>7

\* Helpers are started and outputs closed only by who holds the pipe.
LEMMA HoldersStep ==
  ASSUME IInv, NEW p \in Processes, (\E h \in Helpers : Forks(p, h)) \/ Closes(p)
  PROVE  IInv'
<1> USE DEF IInv, Forks, Closes, loopVars, pipeVars
<1>1. TypeOK'
  BY DEF TypeOK, Processes
<1>2. ResultKeepsOutput' /\ EndOfPipe'
  BY DEF ResultKeepsOutput, EndOfPipe
<1>3. ShellRunsOnce'
  BY RunnerAssumption DEF ShellRunsOnce, TypeOK
<1>4. FlagsAreHonest' /\ ReturnsExitCode'
  BY DEF FlagsAreHonest, ReturnsExitCode, ExitCodeOf
<1> QED BY <1>1, <1>2, <1>3, <1>4

\* A byte more in the pipe changes nothing of what was read.
LEMMA WritesStep == ASSUME IInv, NEW p \in Processes, Writes(p) PROVE IInv'
<1> USE DEF IInv, Writes, loopVars, osVars
<1>1. PipeSize \in Nat /\ MaxWritten \in Nat /\ pipe \in 0..PipeSize /\ written \in 0..MaxWritten
  BY RunnerAssumption DEF TypeOK
<1>2. TypeOK'
  BY <1>1 DEF TypeOK
<1>3. ResultKeepsOutput'
  BY <1>1 DEF ResultKeepsOutput
<1>4. EndOfPipe'
  BY DEF EndOfPipe
<1>5. ShellRunsOnce' /\ FlagsAreHonest' /\ ReturnsExitCode'
  BY DEF ShellRunsOnce, FlagsAreHonest, ReturnsExitCode, ExitCodeOf
<1> QED BY <1>2, <1>3, <1>4, <1>5

\* The caller and the clock set their flags.
LEMMA FlagStep == ASSUME IInv, StopRequested \/ DeadlinePasses PROVE IInv'
<1> USE DEF IInv, StopRequested, DeadlinePasses, loopVars, osVars, pipeVars
<1>1. TypeOK'
  BY DEF TypeOK
<1>2. ResultKeepsOutput' /\ EndOfPipe' /\ ShellRunsOnce'
  BY DEF ResultKeepsOutput, EndOfPipe, ShellRunsOnce
<1>3. FlagsAreHonest' /\ ReturnsExitCode'
  BY DEF FlagsAreHonest, ReturnsExitCode, ExitCodeOf
<1> QED BY <1>1, <1>2, <1>3

\* A step that changes nothing.
LEMMA StutterStep == ASSUME IInv, UNCHANGED vars PROVE IInv'
<1> USE DEF IInv, vars, loopVars, osVars, pipeVars
<1>1. TypeOK'
  BY DEF TypeOK
<1>2. ResultKeepsOutput' /\ EndOfPipe' /\ ShellRunsOnce'
  BY DEF ResultKeepsOutput, EndOfPipe, ShellRunsOnce
<1>3. FlagsAreHonest' /\ ReturnsExitCode'
  BY DEF FlagsAreHonest, ReturnsExitCode, ExitCodeOf
<1> QED BY <1>1, <1>2, <1>3

LEMMA NextIInv == IInv /\ [Next]_vars => IInv'
<1> SUFFICES ASSUME IInv, [Next]_vars PROVE IInv'
  OBVIOUS
<1>1. CASE Loop
  BY <1>1, StartStep, ReadStep, ReadFailsStep, WaitStep, CheckStep, InterruptStep, ReapStep,
     GraceEndsStep
  DEF Loop
<1>2. CASE Command
  <2>1. PICK p \in Processes :
          \/ \E status \in WaitStatus : Exits(p, status)
          \/ Dies(p)
          \/ \E h \in Helpers : Forks(p, h)
          \/ Closes(p)
          \/ Writes(p)
    BY <1>2 DEF Command
  <2>2. CASE \E status \in WaitStatus : Exits(p, status)
    BY <2>2, EndedStep DEF Exits
  <2>3. CASE Dies(p)
    <3>1. [how |-> "signaled", n |-> 9] \in WaitStatus
      BY DEF WaitStatus
    <3>2. p \in alive
      BY <2>3 DEF Dies, IInv, TypeOK
    <3> QED BY <2>3, <3>1, <3>2, EndedStep DEF Dies
  <2>4. CASE (\E h \in Helpers : Forks(p, h)) \/ Closes(p)
    BY <2>4, HoldersStep
  <2>5. CASE Writes(p)
    BY <2>5, WritesStep
  <2> QED BY <2>1, <2>2, <2>3, <2>4, <2>5
<1>3. CASE StopRequested \/ DeadlinePasses
  BY <1>3, FlagStep
<1>4. CASE UNCHANGED vars
  BY <1>4, StutterStep
<1> QED BY <1>1, <1>2, <1>3, <1>4 DEF Next

-------------------------------------------------------------------------------
(* The theorems. *)

\* The invariant of the loop of run() and the processes beside it.
THEOREM IInvHolds == Spec => []IInv
  BY InitIInv, NextIInv, PTL DEF Spec

\* run() and the processes beside it stay well-typed: in particular the output
\* never exceeds max_output_bytes (appendBounded).
THEOREM TypeCorrect == Spec => []TypeOK
<1>1. IInv => TypeOK
  BY DEF IInv
<1> QED BY <1>1, IInvHolds, PTL

\* What run() returns is everything the command's processes wrote, up to the
\* limit, and it is called truncated exactly when there was more.
THEOREM OutputComplete == Spec => []OutputIsComplete
<1>1. IInv => OutputIsComplete
  <2> SUFFICES ASSUME IInv, pc = "returned", ~read_failed
               PROVE  /\ result.output = Min({written, max_output_bytes})
                      /\ result.output_truncated = (written > max_output_bytes)
    BY DEF OutputIsComplete, At
  <2>1. pipe = 0
    BY DEF IInv, ReturnsExitCode, EndOfPipe
  <2>2. written \in Int /\ max_output_bytes \in Int /\ result.output_truncated \in BOOLEAN
    BY RunnerAssumption DEF IInv, TypeOK, CommandResult
  <2>3. /\ result.output = IF written <= max_output_bytes THEN written ELSE max_output_bytes
        /\ result.output_truncated <=> written > max_output_bytes
    BY <2>1, <2>2 DEF IInv, ResultKeepsOutput
  <2> QED BY <2>2, <2>3, MinOfTwo
<1> QED BY <1>1, IInvHolds, PTL

\* When run() returns the shell is reaped, and the exit code is the command's own
\* unless the runner signalled it, in which case code and flags say why.
THEOREM ExitCodeHonest == Spec => []ExitCodeIsHonest
<1>1. IInv => ExitCodeIsHonest
  BY DEF IInv, TypeOK, CommandResult, ExitCodeIsHonest, At, ReturnsExitCode, ExitCodeOf,
         ShellRunsOnce, FlagsAreHonest
<1> QED BY <1>1, IInvHolds, PTL

-------------------------------------------------------------------------------
(* CommandRunner implements RunnerContract. *)

\* What run() returns is an outcome of the contract, and a cancelled one only
\* after a stop request.
ReturnsPromised ==
  pc = "returned" => /\ Outcome \in Contract!Outcomes
                     /\ Outcome.cancelled => stop_requested

LEMMA OutcomeIsPromised == IInv => ReturnsPromised
<1> SUFFICES ASSUME IInv, pc = "returned"
             PROVE  /\ Outcome \in Contract!Outcomes
                    /\ Outcome.cancelled => stop_requested
  BY DEF ReturnsPromised
<1>1. /\ result.timed_out \in BOOLEAN /\ result.cancelled \in BOOLEAN
      /\ ~(result.timed_out /\ result.cancelled)
      /\ result.cancelled => stop_requested
      /\ result.exit_code = ExitCodeOf(result)
      /\ wait_status \in WaitStatus
  BY DEF IInv, TypeOK, CommandResult, FlagsAreHonest, ReturnsExitCode, ShellRunsOnce
<1>2. Outcome = [exit_code |-> result.exit_code, timed_out |-> result.timed_out,
                 cancelled |-> result.cancelled]
  BY DEF Outcome, At
<1>3. normalizedExitCode(wait_status) \in ExitCodes
  BY <1>1 DEF ExitCodes
<1>4. CASE result.cancelled
  BY <1>1, <1>2, <1>4
  DEF ExitCodeOf, Contract!Outcomes, Contract!kCommandCancelled, kCommandCancelled
<1>5. CASE result.timed_out
  BY <1>1, <1>2, <1>5
  DEF ExitCodeOf, Contract!Outcomes, Contract!kCommandTimedOut, kCommandTimedOut
<1>6. CASE ~result.cancelled /\ ~result.timed_out
  BY <1>1, <1>2, <1>3, <1>6 DEF ExitCodeOf, Contract!Outcomes
<1> QED BY <1>1, <1>2, <1>4, <1>5, <1>6

\* Inside the loop, nothing changes for the caller but the stop flag.
LEMMA PhaseOf ==
  /\ pc = "start" => Phase = "idle"
  /\ pc \in {"returned", "threw"} => Phase = pc
  /\ pc \in {"read", "wait", "check", "grace", "kill"} => Phase = "running"
  /\ pc # "returned" => Outcome = Contract!NoOutcome
  BY DEF Phase, Outcome, Over, At, Contract!NoOutcome

\* The same of the next state.
LEMMA PhaseOfNext ==
  /\ pc' = "start" => Phase' = "idle"
  /\ pc' \in {"returned", "threw"} => Phase' = pc'
  /\ pc' \in {"read", "wait", "check", "grace", "kill"} => Phase' = "running"
  /\ pc' # "returned" => Outcome' = Contract!NoOutcome
  BY DEF Phase, Outcome, Over, At, Contract!NoOutcome

LEMMA OutcomeOfNext ==
  IInv' /\ pc' = "returned" => /\ Outcome' \in Contract!Outcomes
                               /\ Outcome'.cancelled => stop_requested'
<1>1. IInv' => ReturnsPromised'
  BY OutcomeIsPromised, PTL
<1> QED BY <1>1 DEF ReturnsPromised

\* Each step of run(), of the command and of the caller is one of the contract
\* or changes nothing that the caller sees.
LEMMA StepIsPromised ==
  IInv /\ IInv' /\ [Next]_vars => [Contract!Next]_Contract!vars
<1> SUFFICES ASSUME IInv, IInv', [Next]_vars PROVE [Contract!Next]_Contract!vars
  OBVIOUS
<1>1. /\ pc' = "start" => Phase' = "idle"
      /\ pc' \in {"returned", "threw"} => Phase' = pc'
      /\ pc' \in {"read", "wait", "check", "grace", "kill"} => Phase' = "running"
      /\ pc' # "returned" => Outcome' = Contract!NoOutcome
  BY PhaseOfNext
<1>2. pc' = "returned" => Outcome' \in Contract!Outcomes /\ (Outcome'.cancelled => stop_requested')
  BY OutcomeOfNext
<1>3. CASE UNCHANGED <<pc, result, stop_requested>>
  BY <1>3 DEF Contract!vars, Phase, Outcome, Over, At
<1>4. CASE StopRequested
  BY <1>4 DEF StopRequested, loopVars, Contract!Next, Contract!StopRequested, Phase, Outcome,
              Over, At
<1>5. CASE Start
  BY <1>1, <1>5, PhaseOf DEF Start, At, Contract!Next, Contract!Launch
<1>6. CASE StartFails \/ WaitFails
  BY <1>1, <1>6, PhaseOf DEF StartFails, WaitFails, At, Contract!Next, Contract!Throw
<1>7. CASE Read \/ ReadFails \/ Wait \/ Interrupt \/ GraceEnds
  BY <1>1, <1>7, PhaseOf
  DEF Read, ReadFails, Wait, Interrupt, GraceEnds, At, Contract!vars
<1>8. CASE Check \/ GraceReaps \/ KillReaps
  <2>1. /\ pc \in {"check", "grace", "kill"} /\ pc' \in {"read", "returned"}
        /\ UNCHANGED stop_requested
    BY <1>8 DEF Check, GraceReaps, KillReaps, At
  <2>2. CASE pc' = "read"
    BY <1>1, <2>1, <2>2, PhaseOf DEF Contract!vars
  <2>3. CASE pc' = "returned"
    BY <1>1, <1>2, <2>1, <2>3, PhaseOf DEF Contract!Next, Contract!Return
  <2> QED BY <2>1, <2>2, <2>3
<1>9. CASE Command \/ DeadlinePasses \/ UNCHANGED vars
  BY <1>3, <1>9
  DEF Command, Exits, Dies, Ended, Forks, Closes, Writes, DeadlinePasses, vars, loopVars
<1> QED BY <1>4, <1>5, <1>6, <1>7, <1>8, <1>9 DEF Next, Loop

\* To its caller run() does nothing that RunnerContract does not allow, whatever
\* the command's processes do: what HealthDaemon relies on is implemented.
THEOREM Implements == Spec => KeepsContract
<1>1. Init => Contract!Init
  BY PhaseOf DEF Init, Contract!Init
<1> QED
  BY <1>1, IInvHolds, StepIsPromised, PTL DEF Spec, KeepsContract, Contract!Spec

===============================================================================
