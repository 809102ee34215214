---------------------------- MODULE MC_CommandRunner ----------------------------
(***************************************************************************)
(* The commands of CommandRunner for TLC: one whose helpers obey, and one  *)
(* with a helper that survives SIGTERM and another outside the group.      *)
(***************************************************************************)
EXTENDS CommandRunner

CONSTANTS h1, h2

Obedient == [stubborn |-> {Shell}, detached |-> {}]

MC_Behaviours == {Obedient, [stubborn |-> {Shell, h1}, detached |-> {h2}]}

MC_Stragglers == {[stubborn |-> Helpers, detached |-> {}]}

================================================================================
