---------------------------- MODULE MC_AgentDaemon ----------------------------
(* Small instances of AgentDaemon for TLC. *)
EXTENDS AgentDaemon, TLC

\* Sessions and descriptors are only compared for equality.
Symmetry == Permutations(SessionIds) \cup Permutations(Descriptors)

===============================================================================
