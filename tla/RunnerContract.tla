----------------------------- MODULE RunnerContract -----------------------------
(***************************************************************************)
(* include/holonightd/CommandRunner.h: what one call of CommandRunner::run *)
(* promises its caller.  It returns an outcome or throws; a cancelled      *)
(* outcome needs a stop request, and the two ways of being ended exclude   *)
(* each other and have exit codes of their own.                            *)
(*                                                                         *)
(* CommandRunner implements this specification; HealthDaemon relies on it  *)
(* and on nothing else of the runner.                                      *)
(***************************************************************************)
EXTENDS Integers

CONSTANT ExitCodes   \* the codes a command may end with

VARIABLES
  phase,            \* idle, running, returned or threw
  outcome,          \* the result, once returned
  stop_requested    \* the flag the caller shares with the signal handler

vars == <<phase, outcome, stop_requested>>

NoOutcome == [exit_code |-> 0, timed_out |-> FALSE, cancelled |-> FALSE]

kCommandTimedOut  == 124
kCommandCancelled == 125

Outcomes ==
  [exit_code : {kCommandTimedOut}, timed_out : {TRUE}, cancelled : {FALSE}]
    \cup [exit_code : {kCommandCancelled}, timed_out : {FALSE}, cancelled : {TRUE}]
    \cup [exit_code : ExitCodes, timed_out : {FALSE}, cancelled : {FALSE}]

Init ==
  /\ phase = "idle"
  /\ outcome = NoOutcome
  /\ stop_requested \in BOOLEAN

Launch ==
  /\ phase = "idle"
  /\ phase' = "running"
  /\ UNCHANGED <<outcome, stop_requested>>

Return(o) ==
  /\ phase = "running"
  /\ o.cancelled => stop_requested
  /\ phase' = "returned"
  /\ outcome' = o
  /\ UNCHANGED stop_requested

Throw ==
  /\ phase \in {"idle", "running"}
  /\ phase' = "threw"
  /\ UNCHANGED <<outcome, stop_requested>>

StopRequested ==
  /\ stop_requested' = TRUE
  /\ UNCHANGED <<phase, outcome>>

Next == Launch \/ (\E o \in Outcomes : Return(o)) \/ Throw \/ StopRequested

Spec == Init /\ [][Next]_vars

================================================================================
