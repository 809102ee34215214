------------------------------ MODULE AgentTypes ------------------------------
(***************************************************************************)
(* What the agent daemon's components share: activation descriptors        *)
(* (ActivationDescriptor in include/holonightd/agentd/AgentActivity.h) and *)
(* the notification ids of org.freedesktop.Notifications, where 0 means    *)
(* "no notification".                                                      *)
(***************************************************************************)
EXTENDS Integers

CONSTANTS
  Descriptors,   \* valid activation descriptors (non-empty process lineage)
  NoActivation,  \* an absent or invalid descriptor: valid() is false
  MaxId          \* largest notification id (2^32 - 1 in the code)

ASSUME AgentTypesAssumption ==
  /\ NoActivation \notin Descriptors
  /\ MaxId \in Nat \ {0}

Ids == 1..MaxId

Activation == Descriptors \cup {NoActivation}

===============================================================================
