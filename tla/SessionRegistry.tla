---------------------------- MODULE SessionRegistry ----------------------------
(***************************************************************************)
(* libs/agent/SessionRegistry.cpp: the sessions holonight-agentd knows.    *)
(* Of an AgentSession the model keeps what later steps depend on: the      *)
(* activation descriptor captured at registration, the notification id     *)
(* that the next Notify replaces, and the time of the last update.         *)
(* Provider, project, title, message and state strings are only displayed. *)
(***************************************************************************)
EXTENDS AgentTypes, Functions

CONSTANTS
  SessionIds,    \* session ids the clients use
  kMaxAge        \* max_age of pruneStaleSessions, 24 hours in the code

ASSUME RegistryAssumption == kMaxAge \in Nat

VARIABLES
  sessions,      \* sessions_: session id -> AgentSession
  wall           \* the system clock, which may be stepped either way

Session == [activation      : Activation,
            notification_id : 0..MaxId,
            last_update     : Nat]

RegistryTypeOK ==
  /\ wall \in Nat
  /\ DOMAIN sessions \subseteq SessionIds
  /\ sessions \in [DOMAIN sessions -> Session]

RegistryInit == sessions = [s \in {} |-> NoActivation]

-------------------------------------------------------------------------------
NewSession(activation) ==
  [activation |-> activation, notification_id |-> 0, last_update |-> wall]

Stored(s, session) ==
  [t \in DOMAIN sessions \cup {s} |-> IF t = s THEN session ELSE sessions[t]]

\* Mutant of registerSession: the notification id survives a new registration.
registerSession_keeps_id(s, lineage) ==
  sessions' = Stored(s,
    [NewSession(lineage) EXCEPT !.notification_id =
       IF s \in DOMAIN sessions THEN sessions[s].notification_id ELSE 0])

\* A registration overwrites whatever entry the id had.  `lineage` is what the
\* ancestry reader yields for the pid; it is kept only when it is valid.
registerSession(s, lineage) == sessions' = Stored(s, NewSession(lineage))

\* The registry after publishEvent: an unknown session is created without an
\* activation descriptor, a known one is only refreshed.
Published(s) ==
  IF s \in DOMAIN sessions
  THEN [sessions EXCEPT ![s].last_update = wall]
  ELSE Stored(s, NewSession(NoActivation))

publishEvent(s) == sessions' = Published(s)

endSession(s) == sessions' = Restrict(sessions, DOMAIN sessions \ {s})

\* Mutant of updateNotificationId: the id is stored without looking s up.
updateNotificationId_everywhere(s, id) ==
  sessions' = [t \in DOMAIN sessions |-> [sessions[t] EXCEPT !.notification_id = id]]

updateNotificationId(s, id) ==
  sessions' = IF s \in DOMAIN sessions
              THEN [sessions EXCEPT ![s].notification_id = id]
              ELSE sessions

pruneStaleSessions ==
  sessions' = Restrict(sessions,
                {s \in DOMAIN sessions :
                   wall - sessions[s].last_update <= kMaxAge})

===============================================================================
