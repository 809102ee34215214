------------------------------ MODULE AgentDaemon ------------------------------
(***************************************************************************)
(* holonight-agentd: the D-Bus handlers and main loop of                   *)
(* apps/agentd/main.cpp over the session registry, the notification bridge *)
(* and its action bindings, together with the desktop notification server  *)
(* and the user in front of it.                                            *)
(*                                                                         *)
(* The daemon has one thread.  Publishing an event makes a synchronous     *)
(* Notify call that waits at most 500 ms; signals that arrive meanwhile    *)
(* stay in the connection's receive queue and are dispatched after the     *)
(* handler returns, whatever the order they were sent in relative to the   *)
(* reply.  `call` is the call the daemon is blocked in, `rqueue` the       *)
(* receive queue, `requests` the Notify calls the server has not served:   *)
(* one whose caller gave up is still served, late.                         *)
(***************************************************************************)
EXTENDS NotificationActionBindings, SessionRegistry, Sequences

CONSTANTS
  OtherApp,      \* owner of the notifications that are not the daemon's
  MaxTime,       \* bound: both clocks stop here
  MaxSignals,    \* bound: signals in the receive queue
  MaxRequests    \* bound: Notify calls on their way to the server

ASSUME DaemonAssumption ==
  /\ OtherApp \notin SessionIds
  /\ MaxTime \in Nat /\ MaxSignals \in Nat /\ MaxRequests \in Nat

VARIABLES
  call,          \* the synchronous Notify call in progress, or NoCall
  rqueue,        \* signals received and not yet dispatched, in order
  requests,      \* Notify calls the server has not served, in order
  shown,         \* notifications on the user's screen
  content,       \* id -> what the notification under that id is about
  next_id,       \* the server's id counter
  activated      \* what the shell was asked to activate in the last step

daemonVars == <<sessions, bindings, call>>
serverVars == <<requests, shown, content, next_id>>
vars == <<daemonVars, serverVars, rqueue, activated, now, wall>>

NoCall == [phase |-> "none"]

\* A call in progress: waiting for the server, or with its outcome received.
Call == [phase : {"waiting", "replied", "error"}, session : SessionIds,
         activation : Activation, replaces_id : 0..MaxId, assigned_id : 0..MaxId]

\* Whose notification it is, and the activation that session had.
Content == [owner : SessionIds \cup {OtherApp}, activation : Activation]

Request == [replaces_id : 0..MaxId, about : Content, awaited : BOOLEAN]

\* `about` is what the notification on the screen was about when the user
\* acted on it; the real signal does not carry it.
Signal == [name : {"ActionInvoked", "NotificationClosed"}, id : Ids,
           key : {"open", "dismiss"}, about : Content]

\* `id` is the notification whose Open button it was, 0 for ActivateSession.
Activated == [descriptor : Activation, about : Content, id : 0..MaxId]

Unrelated == [owner |-> OtherApp, activation |-> NoActivation]

NoneActivated == [descriptor |-> NoActivation, about |-> Unrelated, id |-> 0]

Silent == activated' = NoneActivated

-------------------------------------------------------------------------------
(* The daemon's D-Bus methods, each run when the loop dispatches it. *)

Idle == call = NoCall

methodRegisterSession(s, lineage) ==
  /\ Idle
  /\ registerSession(s, lineage)
  /\ Silent
  /\ UNCHANGED <<bindings, call, serverVars, rqueue, now, wall>>

\* methodPublishEvent up to the point where sendNotification blocks in
\* sd_bus_call; it reads the session after the event was applied to it.
methodPublishEvent(s) ==
  /\ Idle
  /\ Len(requests) < MaxRequests
  /\ publishEvent(s)
  /\ LET session == Published(s)[s]
     IN  /\ call' = [phase |-> "waiting", session |-> s,
                     activation  |-> session.activation,
                     replaces_id |-> session.notification_id,
                     assigned_id |-> 0]
         /\ requests' = Append(requests,
                          [replaces_id |-> session.notification_id,
                           about       |-> [owner |-> s,
                                            activation |-> session.activation],
                           awaited     |-> TRUE])
  /\ Silent
  /\ UNCHANGED <<bindings, shown, content, next_id, rqueue, now, wall>>

\* Mutant of NotifyReplied: neither the id nor the descriptor is looked at.
NotifyReplied_unchecked ==
  /\ call.phase = "replied"
  /\ bindings' = Inserted(Erased(Pruned(bindings), call.replaces_id), call.assigned_id,
                          [descriptor |-> call.activation, created_at |-> now])
  /\ updateNotificationId(call.session, call.assigned_id)
  /\ call' = NoCall
  /\ Silent
  /\ UNCHANGED <<serverVars, rqueue, now, wall>>

\* The reply arrived: bind the notification, remember its id in the session.
NotifyReplied ==
  /\ call.phase = "replied"
  /\ IF call.assigned_id # 0 /\ call.activation # NoActivation
     THEN replace(call.replaces_id, call.assigned_id, call.activation)
     ELSE UNCHANGED bindings
  /\ updateNotificationId(call.session, call.assigned_id)
  /\ call' = NoCall
  /\ Silent
  /\ UNCHANGED <<serverVars, rqueue, now, wall>>

\* The call failed: the bridge hands back replaces_id and binds nothing.
NotifyFailed ==
  /\ call.phase = "error"
  /\ updateNotificationId(call.session, call.replaces_id)
  /\ call' = NoCall
  /\ Silent
  /\ UNCHANGED <<bindings, serverVars, rqueue, now, wall>>

\* Mutant of NotifyTimedOut: the call is tried again for as long as it takes.
NotifyTimedOut_retries ==
  /\ call.phase = "waiting"
  /\ UNCHANGED vars

\* 500 ms have passed: the same, and a reply that still comes is dropped.
NotifyTimedOut ==
  /\ call.phase = "waiting"
  /\ updateNotificationId(call.session, call.replaces_id)
  /\ call' = NoCall
  /\ requests' = [i \in DOMAIN requests |-> [requests[i] EXCEPT !.awaited = FALSE]]
  /\ Silent
  /\ UNCHANGED <<bindings, shown, content, next_id, rqueue, now, wall>>

methodEndSession(s) ==
  /\ Idle
  /\ endSession(s)
  /\ Silent
  /\ UNCHANGED <<bindings, call, serverVars, rqueue, now, wall>>

methodActivateSession(s) ==
  /\ Idle
  /\ s \in DOMAIN sessions
  /\ sessions[s].activation # NoActivation
  /\ activated' = [descriptor |-> sessions[s].activation,
                   about      |-> [owner |-> s,
                                   activation |-> sessions[s].activation],
                   id         |-> 0]
  /\ UNCHANGED <<daemonVars, serverVars, rqueue, now, wall>>

-------------------------------------------------------------------------------
(* The daemon's signal handlers and the idle work of its main loop. *)

Dispatch(name) ==
  /\ Idle
  /\ rqueue # <<>>
  /\ Head(rqueue).name = name
  /\ rqueue' = Tail(rqueue)

\* Only the key "open" consumes a binding; what it yields goes to the shell.
handleAction ==
  /\ Dispatch("ActionInvoked")
  /\ LET signal == Head(rqueue)
     IN  IF signal.key = "open"
         THEN /\ consume(signal.id)
              /\ activated' = IF Consumed(signal.id) = NoActivation THEN NoneActivated
                              ELSE [descriptor |-> Consumed(signal.id),
                                    about      |-> signal.about,
                                    id         |-> signal.id]
         ELSE Silent /\ UNCHANGED bindings
  /\ UNCHANGED <<sessions, call, serverVars, now, wall>>

handleClosed ==
  /\ Dispatch("NotificationClosed")
  /\ close(Head(rqueue).id)
  /\ Silent
  /\ UNCHANGED <<sessions, call, serverVars, now, wall>>

\* Mutant of PruneSessions: it is done after a dispatch that left messages.
PruneSessions_when_busy ==
  /\ Idle
  /\ rqueue # <<>>
  /\ pruneStaleSessions
  /\ Silent
  /\ UNCHANGED <<bindings, call, serverVars, rqueue, now, wall>>

\* The loop prunes only when sd_bus_process found nothing to dispatch; the
\* one-minute period is left out, so that it may prune whenever it is idle.
PruneSessions ==
  /\ Idle
  /\ rqueue = <<>>
  /\ pruneStaleSessions
  /\ Silent
  /\ UNCHANGED <<bindings, call, serverVars, rqueue, now, wall>>

\* The daemon fails or is stopped and systemd starts it again: all it knew is
\* gone, what the user sees is not, and a call in progress has no caller.
Restart ==
  /\ sessions' = [s \in {} |-> NoActivation]
  /\ bindings' = [i \in {} |-> NoActivation]
  /\ call' = NoCall
  /\ rqueue' = <<>>
  /\ requests' = [i \in DOMAIN requests |-> [requests[i] EXCEPT !.awaited = FALSE]]
  /\ Silent
  /\ UNCHANGED <<shown, content, next_id, now, wall>>

-------------------------------------------------------------------------------
(* The notification server, the user and the clocks (external). *)

Answered(phase, id) ==
  IF Head(requests).awaited
  THEN [call EXCEPT !.phase = phase, !.assigned_id = id]
  ELSE call

\* The server may keep the id it is asked to replace or assign a new one.
ServerNotify ==
  /\ requests # <<>>
  /\ LET request == Head(requests)
     IN  \E id \in {request.replaces_id, next_id} \cap Ids :
           /\ shown' = (shown \ {request.replaces_id}) \cup {id}
           /\ content' = [content EXCEPT ![id] = request.about]
           /\ next_id' = IF id = next_id THEN next_id + 1 ELSE next_id
           /\ call' = Answered("replied", id)
  /\ requests' = Tail(requests)
  /\ Silent
  /\ UNCHANGED <<sessions, bindings, rqueue, now, wall>>

\* An error reply, a malformed reply, or a reply with id 0.
ServerRefuses ==
  /\ requests # <<>>
  /\ call' \in {Answered("error", 0), Answered("replied", 0)}
  /\ requests' = Tail(requests)
  /\ Silent
  /\ UNCHANGED <<sessions, bindings, shown, content, next_id, rqueue, now, wall>>

\* Another application shows a notification, with an id of the same server.
OtherApplicationNotifies ==
  /\ next_id \in Ids
  /\ shown' = shown \cup {next_id}
  /\ next_id' = next_id + 1
  /\ Silent
  /\ UNCHANGED <<daemonVars, requests, content, rqueue, now, wall>>

Emit(name, id, key) ==
  /\ Len(rqueue) < MaxSignals
  /\ rqueue' = Append(rqueue, [name |-> name, id |-> id, key |-> key,
                               about |-> content[id]])

\* The user may press a button more than once before the popup goes away.
UserActs(id, key) ==
  /\ id \in shown
  /\ Emit("ActionInvoked", id, key)
  /\ Silent
  /\ UNCHANGED <<daemonVars, serverVars, now, wall>>

\* Dismissed by the user, or expired.
NotificationCloses(id) ==
  /\ id \in shown
  /\ Emit("NotificationClosed", id, "dismiss")
  /\ shown' = shown \ {id}
  /\ Silent
  /\ UNCHANGED <<daemonVars, requests, content, next_id, now, wall>>

Tick ==
  /\ now < MaxTime
  /\ now' = now + 1
  /\ wall' = IF wall < MaxTime THEN wall + 1 ELSE wall
  /\ Silent
  /\ UNCHANGED <<daemonVars, serverVars, rqueue>>

\* The system clock is set, forward or back.
WallClockSet ==
  /\ wall' \in 0..MaxTime
  /\ Silent
  /\ UNCHANGED <<daemonVars, serverVars, rqueue, now>>

-------------------------------------------------------------------------------
Init ==
  /\ BindingsInit /\ now = 0
  /\ RegistryInit /\ wall = 0
  /\ call = NoCall
  /\ rqueue = <<>>
  /\ requests = <<>>
  /\ shown = {}
  /\ content = [id \in Ids |-> Unrelated]
  /\ next_id = 1
  /\ activated = NoneActivated

\* What sd_bus_process dispatches: a method call or a signal.
Dispatches ==
  \/ \E s \in SessionIds, lineage \in Activation : methodRegisterSession(s, lineage)
  \/ \E s \in SessionIds : methodPublishEvent(s)
  \/ \E s \in SessionIds : methodEndSession(s)
  \/ \E s \in SessionIds : methodActivateSession(s)
  \/ handleAction
  \/ handleClosed

Handlers ==
  \/ Dispatches
  \/ NotifyReplied
  \/ NotifyFailed
  \/ NotifyTimedOut
  \/ PruneSessions

Environment ==
  \/ ServerNotify
  \/ ServerRefuses
  \/ OtherApplicationNotifies
  \/ \E id \in Ids, key \in {"open", "dismiss"} : UserActs(id, key)
  \/ \E id \in Ids : NotificationCloses(id)
  \/ Tick
  \/ WallClockSet
  \/ Restart

Next == Handlers \/ Environment

\* sd_bus_call returns within its timeout, and sd_bus_process dispatches the
\* receive queue in order, so that a queued signal is not overtaken forever.
\* The loop starts over after every dispatch and prunes only when there was
\* none: no prune is guaranteed while method calls or signals keep coming.
Fairness ==
  /\ WF_vars(NotifyReplied) /\ WF_vars(NotifyFailed) /\ WF_vars(NotifyTimedOut)
  /\ SF_vars(handleAction) /\ SF_vars(handleClosed)
  /\ []<><<Dispatches>>_vars \/ WF_vars(PruneSessions)

Spec == Init /\ [][Next]_vars /\ Fairness

-------------------------------------------------------------------------------
(* Properties. *)

\* Type correctness of the daemon, its queues and the server.
TypeOK ==
  /\ BindingsTypeOK
  /\ RegistryTypeOK
  /\ call \in Call \cup {NoCall}
  /\ rqueue \in Seq(Signal)
  /\ requests \in Seq(Request)
  /\ shown \subseteq Ids
  /\ content \in [Ids -> Content]
  /\ next_id \in 1..(MaxId + 1)
  /\ activated \in Activated

\* The Open button raises the terminal of the session the notification the
\* user pressed it on is about (handleAction, bindNotification): whatever was
\* replaced, re-registered, timed out or closed while the press was queued.
OpenActivatesWhatTheUserSaw == activated.descriptor = activated.about.activation

\* A Notify replaces only a notification of the very session it is about,
\* never another session's or another application's (sendNotification with
\* the notification_id of the session; replies and timeouts in any order).
ReplacesOnlyOwnNotification ==
  \A i \in 1..Len(requests) :
    requests[i].replaces_id # 0 =>
      content[requests[i].replaces_id].owner = requests[i].about.owner

\* The binding table never outgrows kCapacity (replace).
CapacityRespected == Cardinality(DOMAIN bindings) <= kCapacity

-------------------------------------------------------------------------------
(* The inductive invariant behind the two correlation properties.  Whatever  *)
(* the daemon or a queue remembers about an id agrees with what the server   *)
(* last showed under it, and ids from next_id on are remembered nowhere.     *)

\* An id, if any, that the server has shown for `about`.
ShownFor(id, about) == id # 0 => id < next_id /\ content[id] = about

SessionsCorrelated ==
  \A s \in DOMAIN sessions :
    ShownFor(sessions[s].notification_id,
             [owner |-> s, activation |-> sessions[s].activation])

CallCorrelated ==
  call # NoCall =>
    /\ call.session \in DOMAIN sessions
    /\ sessions[call.session].activation = call.activation
    /\ ShownFor(call.replaces_id, [owner |-> call.session, activation |-> call.activation])
    /\ ShownFor(call.assigned_id, [owner |-> call.session, activation |-> call.activation])

RequestsCorrelated ==
  \A i \in 1..Len(requests) :
    /\ ShownFor(requests[i].replaces_id, requests[i].about)
    /\ requests[i].awaited =>
         /\ i = Len(requests) /\ call.phase = "waiting"
         /\ requests[i].about = [owner |-> call.session, activation |-> call.activation]

BindingsCorrelated ==
  \A id \in DOMAIN bindings :
    id < next_id /\ content[id].activation = bindings[id].descriptor

SignalsCorrelated ==
  \A i \in 1..Len(rqueue) : ShownFor(rqueue[i].id, rqueue[i].about)

ScreenCorrelated == \A id \in shown : id < next_id

Correlated ==
  /\ SessionsCorrelated /\ CallCorrelated /\ RequestsCorrelated
  /\ BindingsCorrelated /\ SignalsCorrelated /\ ScreenCorrelated
  /\ OpenActivatesWhatTheUserSaw

-------------------------------------------------------------------------------
\* What a reply to Notify takes away is the replaced notification's binding,
\* expired ones, and beyond that at most one that is as old as any survivor.
EvictionSparesYounger ==
  [][NotifyReplied =>
       LET lost    == {i \in DOMAIN bindings \ DOMAIN bindings' :
                         /\ i # call.replaces_id
                         /\ bindings[i].created_at >= now - kLifetime}
       IN  /\ Cardinality(lost) <= 1
           /\ \A i \in lost, j \in DOMAIN bindings' :
                bindings[i].created_at <= bindings'[j].created_at]_vars

\* A press of Open on `id` is queued, with no signal for `id` ahead of it.
Pressed(id) ==
  \E i \in 1..Len(rqueue) :
    /\ rqueue[i].name = "ActionInvoked" /\ rqueue[i].key = "open"
    /\ rqueue[i].id = id
    /\ \A j \in 1..(i - 1) : rqueue[j].id # id

\* The binding of `id`, made at `time`, was given up before its press came up:
\* it expired, its notification was replaced under another id, or a full
\* table evicted it.
LetGo(id, time) ==
  /\ id \notin DOMAIN bindings
  /\ \/ time < now - kLifetime
     \/ Pressed(id) /\ id \notin shown
     \/ Pressed(id) /\ Cardinality(DOMAIN bindings) = kCapacity

Forgotten == DOMAIN sessions = {} /\ DOMAIN bindings = {} /\ rqueue = <<>>

\* A press of Open on a bound notification makes the daemon ask the shell for
\* it, a hanging Notify call delaying that until the call times out, unless
\* the binding ends first in a way AG-ACT-004 of SPEC.md lists (expiry,
\* replacement by a new id, eviction from a full table; a close or an earlier
\* press of the same notification ahead of it in the queue) or the daemon is
\* restarted and has lost both (handleAction, replace, consume).
OpenIsServed ==
  \A id \in Ids, time \in 0..MaxTime :
    (Pressed(id) /\ id \in DOMAIN bindings /\ bindings[id].created_at = time)
      ~> (activated.id = id \/ LetGo(id, time) \/ Forgotten)

Stale(s) == s \in DOMAIN sessions /\ wall - sessions[s].last_update > kMaxAge

\* A session that nobody ended, its wrapper (hn-agent-run) having been killed or
\* the bus having failed it, does not stay for ever, unless method calls or
\* signals keep coming, which keep the loop from its idle work, or the clock is
\* set back: a hanging server or a queue left by a burst does not prevent it
\* (the main loop, pruneStaleSessions).
StaleSessionsArePruned ==
  \A s \in SessionIds : []<><<Dispatches>>_vars \/ []<>~Stale(s)

\* "Repeated, late, or unknown signals are harmless" (SPEC.md AG-ACT-005): a
\* NotificationClosed that is dispatched when its notification has been shown
\* again under the same id leaves that notification's Open action working.
LateCloseIsHarmless ==
  [][handleClosed =>
       LET id == Head(rqueue).id
       IN  id \in shown \cap DOMAIN bindings => id \in DOMAIN bindings']_vars

===============================================================================
