----------------------------- MODULE CommandRunner -----------------------------
(***************************************************************************)
(* libs/process/CommandRunner.cpp: run() starts `/bin/sh -c command` in a  *)
(* process group of its own, collects at most max_output_bytes of what the *)
(* group writes, and ends the group when the deadline passes or the caller *)
(* asks to stop.                                                           *)
(*                                                                         *)
(* The shell and the helpers it starts run beside the loop and share with  *)
(* it the pipe.  Bytes are counted, not kept.  `pc` is the statement the   *)
(* loop is at; one turn is read, waitpid, then the deadline check, and     *)
(* poll() only delays the next turn.                                       *)
(***************************************************************************)
EXTENDS Integers, FiniteSetsExt

CONSTANTS
  Shell,             \* the child process
  Helpers,           \* processes the command may start in the background
  Behaviours,        \* which processes may survive SIGTERM (stubborn), and
                     \* which may leave the shell's process group (detached)
  ReadSize,          \* size of the read buffer, 4096 in the code
  PipeSize,          \* bytes the kernel's pipe holds
  max_output_bytes,  \* options.max_output_bytes, 1 MiB in the code
  MaxWritten         \* bound: bytes the command writes altogether

Processes == Helpers \cup {Shell}

ASSUME RunnerAssumption ==
  /\ Shell \notin Helpers
  /\ Behaviours \subseteq [stubborn : SUBSET Processes, detached : SUBSET Helpers]
  /\ {ReadSize, PipeSize} \subseteq Nat \ {0}
  /\ {max_output_bytes, MaxWritten} \subseteq Nat

VARIABLES
  behaviour,         \* of this command's processes
  pc,                \* where run() is
  result,            \* the CommandResult under construction
  child_finished,
  pipe_finished,
  alive,             \* processes that run
  started,           \* processes that have been started: none runs twice
  holds,             \* processes that hold the pipe's write end
  doomed,            \* processes a fatal signal was sent to
  wait_status,       \* the shell's wait status, Running until it ends
  reaped,            \* waitpid has returned the shell's status
  pipe,              \* bytes in the pipe
  written,           \* bytes written into it so far
  stop_requested,
  expired,           \* the deadline has passed
  read_failed        \* read() failed, and the loop took it for the end

loopVars == <<result, child_finished, pipe_finished>>
osVars   == <<alive, started, holds, doomed, wait_status>>
pipeVars == <<pipe, written, read_failed>>
vars == <<behaviour, pc, loopVars, osVars, reaped, pipeVars, stop_requested, expired>>

kCommandFailedToStart == 127
kCommandTimedOut      == 124
kCommandCancelled     == 125

\* What waitpid reports: an exit code or the number of the fatal signal.
WaitStatus == [how : {"exited", "signaled"}, n : {0, 1, 9, kCommandFailedToStart}]
Running    == [how |-> "running", n |-> 0]

normalizedExitCode(status) ==
  CASE status.how = "exited"   -> status.n
    [] status.how = "signaled" -> 128 + status.n
    [] OTHER                   -> kCommandFailedToStart

CommandResult == [output : 0..max_output_bytes, output_truncated : BOOLEAN,
                  timed_out : BOOLEAN, cancelled : BOOLEAN, exit_code : Nat]

-------------------------------------------------------------------------------
(* The loop of run(). *)

At(here) == pc = here

\* pipe() or fork() fails: run() throws.
StartFails ==
  /\ At("start")
  /\ pc' = "threw"
  /\ UNCHANGED <<behaviour, loopVars, osVars, reaped, pipeVars, stop_requested, expired>>

Start ==
  /\ At("start")
  /\ pc' = "read"
  /\ alive' = {Shell}
  /\ started' = {Shell}
  /\ holds' = {Shell}
  /\ UNCHANGED <<behaviour, loopVars, doomed, wait_status, reaped, pipeVars, stop_requested, expired>>

\* Mutant of appendBounded: the limit is not applied.
appendBounded_unbounded(r, size) == [r EXCEPT !.output = @ + size]

appendBounded(r, size) ==
  LET remaining == max_output_bytes - r.output
      accepted  == Min({size, remaining})
  IN  [r EXCEPT !.output = @ + accepted,
                !.output_truncated = @ \/ accepted < size]

\* read() returns what the pipe holds, 0 when it is empty and no process can
\* write any more, EAGAIN otherwise.
Read ==
  /\ At("read")
  /\ LET size == Min({pipe, ReadSize})
     IN  /\ result' = IF size > 0 THEN appendBounded(result, size) ELSE result
         /\ pipe' = pipe - size
         /\ pipe_finished' = (pipe_finished \/ (size = 0 /\ holds = {}))
  /\ pc' = "wait"
  /\ UNCHANGED <<behaviour, child_finished, osVars, reaped, written, read_failed, stop_requested, expired>>

ReadFails ==
  /\ At("read")
  /\ pipe_finished' = TRUE
  /\ read_failed' = TRUE
  /\ pc' = "wait"
  /\ UNCHANGED <<behaviour, result, child_finished, osVars, reaped, pipe, written, stop_requested, expired>>

\* waitpid(WNOHANG), skipped once the child is known to have finished.
Wait ==
  /\ At("wait")
  /\ child_finished' = (child_finished \/ wait_status # Running)
  /\ reaped' = (reaped \/ wait_status # Running)
  /\ pc' = "check"
  /\ UNCHANGED <<behaviour, result, pipe_finished, osVars, pipeVars, stop_requested, expired>>

WaitFails ==
  /\ At("wait")
  /\ ~child_finished
  /\ pc' = "threw"
  /\ UNCHANGED <<behaviour, loopVars, osVars, reaped, pipeVars, stop_requested, expired>>

\* The processes kill(-child_pid, ...) reaches.
Group == alive \ behaviour.detached

\* Mutant of Done: the loop ends with the shell, whatever the pipe holds.
Done_with_child == child_finished

Done == child_finished /\ pipe_finished

Interrupted == ~Done /\ (stop_requested \/ expired)

\* The exit code is set after the loop; a timeout or a cancellation hides the
\* command's own.
Returned(r) ==
  [r EXCEPT !.exit_code = IF r.cancelled THEN kCommandCancelled
                          ELSE IF r.timed_out THEN kCommandTimedOut
                          ELSE normalizedExitCode(wait_status)]

\* Nothing to end: the loop is left or takes another turn.
Check ==
  /\ At("check")
  /\ ~Interrupted
  /\ pc' = IF Done THEN "returned" ELSE "read"
  /\ result' = IF Done THEN Returned(result) ELSE result
  /\ UNCHANGED <<behaviour, child_finished, pipe_finished, osVars, reaped, pipeVars, stop_requested, expired>>

\* Mutant of Interrupt: both causes are recorded as they come.
Interrupt_accumulates ==
  /\ At("check")
  /\ Interrupted
  /\ result' = [result EXCEPT !.cancelled = @ \/ stop_requested,
                              !.timed_out = @ \/ expired]
  /\ doomed' = doomed \cup (Group \ behaviour.stubborn)
  /\ pc' = "grace"
  /\ UNCHANGED <<behaviour, child_finished, pipe_finished, alive, started, holds, wait_status, reaped,
                 pipeVars, stop_requested, expired>>

\* The deadline or the caller ends the command: SIGTERM to the whole group.
Interrupt ==
  /\ At("check")
  /\ Interrupted
  /\ result' = [result EXCEPT !.cancelled = stop_requested,
                              !.timed_out = ~stop_requested]
  /\ doomed' = doomed \cup (Group \ behaviour.stubborn)
  /\ pc' = "grace"
  /\ UNCHANGED <<behaviour, child_finished, pipe_finished, alive, started, holds, wait_status, reaped, pipeVars,
                 stop_requested, expired>>

\* The shell ended within the grace period.
GraceReaps ==
  /\ At("grace")
  /\ wait_status # Running /\ ~reaped
  /\ child_finished' = TRUE
  /\ reaped' = TRUE
  /\ pc' = IF pipe_finished THEN "returned" ELSE "read"
  /\ result' = IF pipe_finished THEN Returned(result) ELSE result
  /\ UNCHANGED <<behaviour, pipe_finished, osVars, pipeVars, stop_requested, expired>>

\* Mutant of GraceEnds: no SIGKILL follows.
GraceEnds_without_kill ==
  /\ At("grace")
  /\ pc' = IF child_finished THEN "read" ELSE "kill"
  /\ UNCHANGED <<behaviour, loopVars, osVars, reaped, pipeVars, stop_requested, expired>>

\* The grace period is over.  SIGKILL follows only if the shell is still there.
GraceEnds ==
  /\ At("grace")
  /\ IF child_finished
     THEN /\ pc' = "read"
          /\ UNCHANGED doomed
     ELSE /\ pc' = "kill"
          /\ doomed' = doomed \cup Group
  /\ UNCHANGED <<behaviour, loopVars, alive, started, holds, wait_status, reaped, pipeVars, stop_requested, expired>>

\* The blocking waitpid after SIGKILL.
KillReaps ==
  /\ At("kill")
  /\ wait_status # Running
  /\ child_finished' = TRUE
  /\ reaped' = TRUE
  /\ pc' = IF pipe_finished THEN "returned" ELSE "read"
  /\ result' = IF pipe_finished THEN Returned(result) ELSE result
  /\ UNCHANGED <<behaviour, pipe_finished, osVars, pipeVars, stop_requested, expired>>

-------------------------------------------------------------------------------
(* The command's processes, the caller and the clock (external). *)

Ended(p, status) ==
  /\ alive' = alive \ {p}
  /\ holds' = holds \ {p}
  /\ doomed' = doomed \ {p}
  /\ wait_status' = IF p = Shell THEN status ELSE wait_status
  /\ UNCHANGED <<behaviour, pc, loopVars, started, reaped, pipeVars, stop_requested, expired>>

\* A process ends by itself, execv having failed included.
Exits(p, status) == p \in alive /\ Ended(p, status)

\* A fatal signal of the runner takes effect.
Dies(p) == p \in doomed /\ Ended(p, [how |-> "signaled", n |-> 9])

\* A process starts a helper, which inherits the pipe.
Forks(p, h) ==
  /\ p \in holds \ doomed
  /\ h \in Helpers \ started
  /\ alive' = alive \cup {h}
  /\ started' = started \cup {h}
  /\ holds' = holds \cup {h}
  /\ UNCHANGED <<behaviour, pc, loopVars, doomed, wait_status, reaped, pipeVars, stop_requested, expired>>

\* A process closes its output.
Closes(p) ==
  /\ p \in holds
  /\ holds' = holds \ {p}
  /\ UNCHANGED <<behaviour, pc, loopVars, alive, started, doomed, wait_status, reaped, pipeVars, stop_requested, expired>>

Writes(p) ==
  /\ p \in holds
  /\ pipe < PipeSize
  /\ written < MaxWritten
  /\ pipe' = pipe + 1
  /\ written' = written + 1
  /\ UNCHANGED <<behaviour, pc, loopVars, osVars, reaped, read_failed, stop_requested, expired>>

StopRequested ==
  /\ ~stop_requested
  /\ stop_requested' = TRUE
  /\ UNCHANGED <<behaviour, pc, loopVars, osVars, reaped, pipeVars, expired>>

DeadlinePasses ==
  /\ ~expired
  /\ ~At("start")
  /\ expired' = TRUE
  /\ UNCHANGED <<behaviour, pc, loopVars, osVars, reaped, pipeVars, stop_requested>>

-------------------------------------------------------------------------------
Init ==
  /\ behaviour \in Behaviours
  /\ pc = "start"
  /\ result = [output |-> 0, output_truncated |-> FALSE, timed_out |-> FALSE,
               cancelled |-> FALSE, exit_code |-> 0]
  /\ child_finished = FALSE /\ pipe_finished = FALSE
  /\ alive = {} /\ started = {} /\ holds = {} /\ doomed = {}
  /\ wait_status = Running /\ reaped = FALSE
  /\ pipe = 0 /\ written = 0 /\ read_failed = FALSE
  /\ stop_requested \in BOOLEAN
  /\ expired = FALSE

Loop ==
  \/ Start \/ StartFails
  \/ Read \/ ReadFails
  \/ Wait \/ WaitFails
  \/ Check \/ Interrupt
  \/ GraceReaps \/ GraceEnds \/ KillReaps

Command ==
  \E p \in Processes :
    \/ \E status \in WaitStatus : Exits(p, status)
    \/ Dies(p)
    \/ \E h \in Helpers : Forks(p, h)
    \/ Closes(p)
    \/ Writes(p)

Next == Loop \/ Command \/ StopRequested \/ DeadlinePasses

\* The loop keeps running, time passes, and a fatal signal takes effect.  The
\* command itself owes nothing: it may run, write and hold the pipe forever.
Fairness ==
  /\ WF_vars(Loop)
  /\ WF_vars(DeadlinePasses)
  /\ \A p \in Processes : WF_vars(Dies(p))

Spec == Init /\ [][Next]_vars /\ Fairness

-------------------------------------------------------------------------------
(* Properties. *)

\* Type correctness of the loop and of the processes beside it.
TypeOK ==
  /\ pc \in {"start", "read", "wait", "check", "grace", "kill", "returned", "threw"}
  /\ result \in CommandResult
  /\ child_finished \in BOOLEAN /\ pipe_finished \in BOOLEAN /\ reaped \in BOOLEAN
  /\ stop_requested \in BOOLEAN /\ expired \in BOOLEAN /\ read_failed \in BOOLEAN
  /\ started \subseteq Processes /\ alive \subseteq started
  /\ holds \subseteq alive /\ doomed \subseteq alive
  /\ wait_status \in WaitStatus \cup {Running}
  /\ pipe \in 0..PipeSize /\ written \in 0..MaxWritten

\* run() returns everything the command's processes wrote, up to the limit, and
\* says truncated exactly when there was more: also what a helper writes after
\* the shell has exited, and what was in the pipe when the group was ended.
OutputIsComplete ==
  (At("returned") /\ ~read_failed) =>
    /\ result.output = Min({written, max_output_bytes})
    /\ result.output_truncated = (written > max_output_bytes)

\* When run() returns the shell has been reaped, and the exit code is the
\* command's own unless the runner signalled it, in which case the code says
\* why: a command that was interfered with is never reported as one that ended
\* by itself.
ExitCodeIsHonest ==
  At("returned") =>
    /\ reaped
    /\ ~(result.timed_out /\ result.cancelled)
    /\ result.cancelled => stop_requested /\ result.exit_code = kCommandCancelled
    /\ result.timed_out => expired /\ result.exit_code = kCommandTimedOut
    /\ ~(result.timed_out \/ result.cancelled) =>
         doomed = {} /\ result.exit_code = normalizedExitCode(wait_status)

Over == pc \in {"returned", "threw"}

\* Once the deadline has passed or the caller asked to stop, run() comes to an
\* end, provided that the processes the shell left behind stay in its group and
\* do not survive SIGTERM; the shell itself may.
EndsWhenHelpersObey ==
  behaviour.stubborn \cup behaviour.detached \subseteq {Shell} =>
    ((stop_requested \/ expired) ~> Over)

\* "Each command is limited to 60 seconds [...]; shutdown requests cancel a
\* running command" (README.md): once the deadline has passed or the caller
\* asked to stop, run() comes to an end.
EndsWhenInterrupted == (stop_requested \/ expired) ~> Over

-------------------------------------------------------------------------------
(* What run() promises its caller. *)

\* The codes a command may end with, by itself or by a signal.
ExitCodes == {normalizedExitCode(status) : status \in WaitStatus}

\* To the caller everything between the fork and the return is one phase.
Phase == CASE At("start") -> "idle" [] Over -> pc [] OTHER -> "running"

Outcome ==
  IF At("returned")
  THEN [exit_code |-> result.exit_code, timed_out |-> result.timed_out,
        cancelled |-> result.cancelled]
  ELSE [exit_code |-> 0, timed_out |-> FALSE, cancelled |-> FALSE]

Contract == INSTANCE RunnerContract WITH phase <- Phase, outcome <- Outcome

\* run() keeps the promises of CommandRunner.h that HealthDaemon relies on,
\* whatever the command's processes do: RunnerContract is implemented.
KeepsContract == Contract!Spec

================================================================================
