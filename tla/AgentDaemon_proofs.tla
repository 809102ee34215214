-------------------------- MODULE AgentDaemon_proofs --------------------------
(***************************************************************************)
(* Proofs about AgentDaemon, for any number of sessions, descriptors and   *)
(* notification ids and for any capacity, lifetime and bounds.             *)
(***************************************************************************)
EXTENDS AgentDaemon, TLAPS, FiniteSetTheorems

(***************************************************************************)
(* Tables of bindings: what the steps of replace, consume and close yield. *)
(***************************************************************************)

IsTable(b) == DOMAIN b \subseteq Ids /\ b \in [DOMAIN b -> Entry]

\* Pruning leaves a part of the table untouched (NotificationActionBindings::prune).
LEMMA PrunedIsPart ==
  ASSUME NEW b, IsTable(b)
  PROVE  /\ IsTable(Pruned(b))
         /\ DOMAIN Pruned(b) \subseteq DOMAIN b
         /\ \A i \in DOMAIN Pruned(b) : Pruned(b)[i] = b[i]
  BY DEF IsTable, Pruned, Restrict

\* Erasing an id leaves every other entry untouched.
LEMMA ErasedIsPart ==
  ASSUME NEW b, IsTable(b), NEW id
  PROVE  /\ IsTable(Erased(b, id))
         /\ DOMAIN Erased(b, id) = DOMAIN b \ {id}
         /\ \A i \in DOMAIN Erased(b, id) : Erased(b, id)[i] = b[i]
  BY DEF IsTable, Erased, Restrict

\* Inserting adds one entry and leaves the others untouched.
LEMMA InsertedAddsOne ==
  ASSUME NEW b, IsTable(b), NEW id \in Ids, NEW entry \in Entry
  PROVE  /\ IsTable(Inserted(b, id, entry))
         /\ DOMAIN Inserted(b, id, entry) = DOMAIN b \cup {id}
         /\ Inserted(b, id, entry)[id] = entry
         /\ \A i \in DOMAIN b \ {id} : Inserted(b, id, entry)[i] = b[i]
  BY DEF IsTable, Inserted

\* After replace every entry is the new one or an old one, and the table is
\* still a table.
LEMMA ReplaceAddsOne ==
  ASSUME IsTable(bindings), now \in Nat,
         NEW old_id, NEW new_id \in 0..MaxId, NEW descriptor \in Activation,
         replace(old_id, new_id, descriptor)
  PROVE  /\ IsTable(bindings')
         /\ \A i \in DOMAIN bindings' :
              \/ i \in DOMAIN bindings /\ bindings'[i] = bindings[i]
              \/ /\ i = new_id /\ descriptor # NoActivation
                 /\ bindings'[i].descriptor = descriptor
<1> DEFINE fresh == Pruned(bindings)
           kept  == Erased(fresh, old_id)
           entry == [descriptor |-> descriptor, created_at |-> now]
<1>1. /\ IsTable(kept)
      /\ DOMAIN kept \subseteq DOMAIN bindings
      /\ \A i \in DOMAIN kept : kept[i] = bindings[i]
  <2>1. /\ IsTable(fresh)
        /\ DOMAIN fresh \subseteq DOMAIN bindings
        /\ \A i \in DOMAIN fresh : fresh[i] = bindings[i]
    BY PrunedIsPart
  <2> HIDE DEF fresh
  <2>2. /\ IsTable(kept)
        /\ DOMAIN kept = DOMAIN fresh \ {old_id}
        /\ \A i \in DOMAIN kept : kept[i] = fresh[i]
    BY <2>1, ErasedIsPart
  <2> HIDE DEF kept
  <2> QED BY <2>1, <2>2
<1> HIDE DEF kept
<1>2. CASE bindings' = kept
  BY <1>1, <1>2
<1>3. CASE /\ new_id # 0 /\ descriptor # NoActivation
           /\ bindings' = Inserted(kept, new_id, entry)
  <2>1. new_id \in Ids /\ entry \in Entry
    BY <1>3 DEF Ids, Entry, Activation
  <2>2. entry.descriptor = descriptor
    OBVIOUS
  <2> HIDE DEF entry
  <2> DEFINE result == Inserted(kept, new_id, entry)
  <2>3. /\ IsTable(result)
        /\ DOMAIN result = DOMAIN kept \cup {new_id}
        /\ result[new_id] = entry
        /\ \A i \in DOMAIN kept \ {new_id} : result[i] = kept[i]
    BY <1>1, <2>1, InsertedAddsOne
  <2>4. bindings' = result
    BY <1>3
  <2> HIDE DEF result
  <2> QED BY <1>1, <1>3, <2>2, <2>3, <2>4 DEF IsTable
<1>4. CASE /\ new_id # 0 /\ descriptor # NoActivation
           /\ \E oldest \in OldestIn(kept) :
                bindings' = Inserted(Erased(kept, oldest), new_id, entry)
  <2>1. new_id \in Ids /\ entry \in Entry
    BY <1>4 DEF Ids, Entry, Activation
  <2>2. entry.descriptor = descriptor
    OBVIOUS
  <2> HIDE DEF entry
  <2>3. PICK oldest : bindings' = Inserted(Erased(kept, oldest), new_id, entry)
    BY <1>4
  <2> DEFINE rest == Erased(kept, oldest)
  <2>4. IsTable(rest) /\ DOMAIN rest \subseteq DOMAIN kept
        /\ \A i \in DOMAIN rest : rest[i] = kept[i]
    BY <1>1, ErasedIsPart
  <2> DEFINE result == Inserted(rest, new_id, entry)
  <2>5. bindings' = result
    BY <2>3
  <2> HIDE DEF rest
  <2>6. /\ IsTable(result)
        /\ DOMAIN result = DOMAIN rest \cup {new_id}
        /\ result[new_id] = entry
        /\ \A i \in DOMAIN rest \ {new_id} : result[i] = rest[i]
    BY <2>1, <2>4, InsertedAddsOne
  <2> HIDE DEF result
  <2> QED BY <1>1, <1>4, <2>2, <2>4, <2>5, <2>6 DEF IsTable
<1> QED BY <1>2, <1>3, <1>4 DEF replace, kept, entry, fresh

(***************************************************************************)
(* Types of what the handlers store, send and receive.                     *)
(***************************************************************************)

\* Storing a well-typed session keeps the registry well-typed.
LEMMA StoredType ==
  ASSUME RegistryTypeOK, NEW s \in SessionIds, NEW session \in Session
  PROVE  /\ DOMAIN Stored(s, session) = DOMAIN sessions \cup {s}
         /\ Stored(s, session) \in [DOMAIN sessions \cup {s} -> Session]
         /\ Stored(s, session)[s] = session
         /\ \A t \in DOMAIN sessions \ {s} : Stored(s, session)[t] = sessions[t]
  BY DEF RegistryTypeOK, Stored

\* A new session starts without a notification.
LEMMA NewSessionType ==
  ASSUME RegistryTypeOK, NEW activation \in Activation
  PROVE  NewSession(activation) \in Session
  BY AgentTypesAssumption DEF RegistryTypeOK, NewSession, Session

\* publishEvent keeps notification ids and activations of known sessions, and
\* gives unknown ones neither.
LEMMA PublishedType ==
  ASSUME RegistryTypeOK, NEW s \in SessionIds
  PROVE  /\ DOMAIN Published(s) = DOMAIN sessions \cup {s}
         /\ Published(s) \in [DOMAIN sessions \cup {s} -> Session]
         /\ \A t \in DOMAIN sessions :
              /\ Published(s)[t].activation = sessions[t].activation
              /\ Published(s)[t].notification_id = sessions[t].notification_id
         /\ s \notin DOMAIN sessions => Published(s)[s] = NewSession(NoActivation)
<1>1. CASE s \in DOMAIN sessions
  BY <1>1 DEF Published, RegistryTypeOK, Session
<1>2. CASE s \notin DOMAIN sessions
  <2>1. NewSession(NoActivation) \in Session
    BY NewSessionType DEF Activation
  <2> DEFINE session == NewSession(NoActivation)
  <2>2. Published(s) = Stored(s, session)
    BY <1>2 DEF Published
  <2> HIDE DEF session
  <2>3. /\ DOMAIN Stored(s, session) = DOMAIN sessions \cup {s}
        /\ Stored(s, session) \in [DOMAIN sessions \cup {s} -> Session]
        /\ Stored(s, session)[s] = session
        /\ \A t \in DOMAIN sessions \ {s} : Stored(s, session)[t] = sessions[t]
    BY <2>1, StoredType DEF session
  <2> QED BY <1>2, <2>2, <2>3 DEF session
<1> QED BY <1>1, <1>2

\* updateNotificationId changes one id of one session.
LEMMA UpdateType ==
  ASSUME RegistryTypeOK, NEW s, NEW id \in 0..MaxId, updateNotificationId(s, id)
  PROVE  /\ DOMAIN sessions' = DOMAIN sessions
         /\ sessions' \in [DOMAIN sessions -> Session]
         /\ \A t \in DOMAIN sessions :
              /\ sessions'[t].activation = sessions[t].activation
              /\ sessions'[t].notification_id =
                   IF t = s THEN id ELSE sessions[t].notification_id
  BY DEF RegistryTypeOK, updateNotificationId, Session

\* Unsetting the awaited flags changes nothing else of the requests.
LEMMA AbandonedType ==
  ASSUME requests \in Seq(Request),
         requests' = [i \in DOMAIN requests |-> [requests[i] EXCEPT !.awaited = FALSE]]
  PROVE  /\ requests' \in Seq(Request)
         /\ Len(requests') = Len(requests)
         /\ \A i \in 1..Len(requests) :
              /\ requests'[i].replaces_id = requests[i].replaces_id
              /\ requests'[i].about = requests[i].about
              /\ requests'[i].awaited = FALSE
<1>1. \A i \in DOMAIN requests :
        LET r == [requests[i] EXCEPT !.awaited = FALSE]
        IN  /\ r \in Request
            /\ r.replaces_id = requests[i].replaces_id
            /\ r.about = requests[i].about
            /\ r.awaited = FALSE
  <2>1. TAKE i \in DOMAIN requests
  <2>2. requests[i] \in Request
    OBVIOUS
  <2> QED BY <2>2 DEF Request
<1>2. DOMAIN requests = 1..Len(requests) /\ Len(requests) \in Nat
  OBVIOUS
<1>3. /\ requests' \in [1..Len(requests) -> Request]
      /\ \A i \in 1..Len(requests) :
           requests'[i] = [requests[i] EXCEPT !.awaited = FALSE]
  BY <1>1, <1>2
<1>4. requests' \in Seq(Request) /\ Len(requests') = Len(requests)
  BY <1>2, <1>3
<1> QED BY <1>1, <1>2, <1>3, <1>4

\* What the server answers is a call again, with the caller's own fields.
LEMMA AnsweredType ==
  ASSUME TypeOK, requests # <<>>, Head(requests).awaited => call # NoCall,
         NEW phase \in {"replied", "error"}, NEW id \in 0..MaxId
  PROVE  /\ Answered(phase, id) \in Call \cup {NoCall}
         /\ Answered(phase, id) = NoCall <=> call = NoCall
         /\ call # NoCall =>
              /\ Answered(phase, id).session = call.session
              /\ Answered(phase, id).activation = call.activation
              /\ Answered(phase, id).replaces_id = call.replaces_id
              /\ Answered(phase, id).assigned_id =
                   IF Head(requests).awaited THEN id ELSE call.assigned_id
  BY DEF TypeOK, Answered, Call, NoCall

(***************************************************************************)
(* The inductive invariant, one lemma per group of actions.                *)
(***************************************************************************)

IInv == TypeOK /\ Correlated

USE DEF Idle, Silent, NoneActivated, Unrelated

\* A daemon that has just started, with an empty screen, satisfies it.
LEMMA InitIInv == Init => IInv
<1> SUFFICES ASSUME Init PROVE IInv
  OBVIOUS
<1>1. BindingsTypeOK
  BY DEF Init, BindingsInit, BindingsTypeOK
<1>2. RegistryTypeOK
  BY DEF Init, RegistryInit, RegistryTypeOK
<1>3. TypeOK
  BY <1>1, <1>2, AgentTypesAssumption
  DEF Init, TypeOK, Activated, Activation, Content
<1>4. Correlated
  BY DEF Init, BindingsInit, RegistryInit, Correlated, SessionsCorrelated, CallCorrelated,
         RequestsCorrelated, BindingsCorrelated, SignalsCorrelated, ScreenCorrelated,
         OpenActivatesWhatTheUserSaw
<1> QED BY <1>3, <1>4 DEF IInv

\* Registering a session overwrites its entry with one that has no notification.
LEMMA RegisterKeepsIInv ==
  ASSUME IInv, NEW s \in SessionIds, NEW lineage \in Activation,
         methodRegisterSession(s, lineage)
  PROVE  IInv'
<1> USE DEF methodRegisterSession, registerSession
<1> DEFINE session == NewSession(lineage)
<1>1. session \in Session /\ session.notification_id = 0
  BY NewSessionType DEF IInv, TypeOK, NewSession
<1> HIDE DEF session
<1>2. /\ DOMAIN sessions' = DOMAIN sessions \cup {s}
      /\ sessions' \in [DOMAIN sessions \cup {s} -> Session]
      /\ sessions'[s] = session
      /\ \A t \in DOMAIN sessions \ {s} : sessions'[t] = sessions[t]
  BY <1>1, StoredType DEF IInv, TypeOK, session
<1>3. RegistryTypeOK'
  BY <1>2 DEF IInv, TypeOK, RegistryTypeOK
<1>4. TypeOK'
  BY <1>3, AgentTypesAssumption
  DEF IInv, TypeOK, BindingsTypeOK, serverVars, Activated, Activation, Content
<1>5. SessionsCorrelated'
  BY <1>1, <1>2 DEF IInv, Correlated, SessionsCorrelated, ShownFor, serverVars
<1>6. /\ CallCorrelated' /\ RequestsCorrelated' /\ BindingsCorrelated'
      /\ SignalsCorrelated' /\ ScreenCorrelated' /\ OpenActivatesWhatTheUserSaw'
  BY DEF IInv, Correlated, CallCorrelated, RequestsCorrelated, BindingsCorrelated,
         SignalsCorrelated, ScreenCorrelated, OpenActivatesWhatTheUserSaw, ShownFor, serverVars
<1> QED BY <1>4, <1>5, <1>6 DEF IInv, Correlated

\* Publishing sends a request, and blocks in a call, that carry the session's
\* own notification id.
LEMMA PublishKeepsIInv ==
  ASSUME IInv, NEW s \in SessionIds, methodPublishEvent(s)
  PROVE  IInv'
<1> USE DEF methodPublishEvent, publishEvent
<1> DEFINE session == Published(s)[s]
           about   == [owner |-> s, activation |-> session.activation]
           request == [replaces_id |-> session.notification_id,
                       about |-> about, awaited |-> TRUE]
           started == [phase |-> "waiting", session |-> s,
                       activation |-> session.activation,
                       replaces_id |-> session.notification_id, assigned_id |-> 0]
<1>1. /\ DOMAIN sessions' = DOMAIN sessions \cup {s}
      /\ sessions' \in [DOMAIN sessions \cup {s} -> Session]
      /\ \A t \in DOMAIN sessions :
           /\ sessions'[t].activation = sessions[t].activation
           /\ sessions'[t].notification_id = sessions[t].notification_id
      /\ s \notin DOMAIN sessions => sessions'[s] = NewSession(NoActivation)
      /\ session = sessions'[s]
  BY PublishedType DEF IInv, TypeOK
<1>2. call' = started /\ requests' = Append(requests, request)
  OBVIOUS
<1> HIDE DEF session
<1>3. session \in Session
  BY <1>1
<1>4. about \in Content /\ request \in Request /\ started \in Call
  BY <1>3, AgentTypesAssumption DEF Session, Content, Request, Call
<1>5. ShownFor(session.notification_id, about)
  BY <1>1 DEF IInv, Correlated, SessionsCorrelated, ShownFor, NewSession
<1>6. RegistryTypeOK'
  BY <1>1 DEF IInv, TypeOK, RegistryTypeOK
<1>7. TypeOK'
  BY <1>2, <1>4, <1>6, AgentTypesAssumption
  DEF IInv, TypeOK, BindingsTypeOK, Activated, Activation, Content
<1>8. SessionsCorrelated'
  <2> SUFFICES ASSUME NEW t \in DOMAIN sessions'
               PROVE  ShownFor(sessions[t].notification_id,
                               [owner |-> t, activation |-> sessions[t].activation])'
    BY DEF SessionsCorrelated
  <2>1. CASE t = s
    BY <2>1, <1>1, <1>5 DEF ShownFor
  <2>2. CASE t # s
    BY <2>2, <1>1 DEF IInv, Correlated, SessionsCorrelated, ShownFor
  <2> QED BY <2>1, <2>2
<1>9. CallCorrelated'
  BY <1>1, <1>2, <1>5 DEF CallCorrelated, ShownFor
<1>10. RequestsCorrelated'
  <2>1. Len(requests') = Len(requests) + 1 /\ Len(requests) \in Nat
    BY <1>2 DEF IInv, TypeOK
  <2>2. \A i \in 1..Len(requests) : requests'[i] = requests[i] /\ ~requests[i].awaited
    BY <1>2 DEF IInv, TypeOK, Correlated, RequestsCorrelated, NoCall
  <2>3. requests'[Len(requests) + 1] = request
    BY <1>2 DEF IInv, TypeOK
  <2>4. call'.phase = "waiting" /\ call'.session = s /\ call'.activation = session.activation
    BY <1>2
  <2> HIDE DEF started
  <2>5. ASSUME NEW i \in 1..Len(requests')
        PROVE  /\ ShownFor(requests'[i].replaces_id, requests'[i].about)
               /\ requests'[i].awaited => i = Len(requests') /\ requests'[i].about = about
    BY <1>5, <2>1, <2>2, <2>3 DEF IInv, Correlated, RequestsCorrelated
  <2> QED BY <2>4, <2>5 DEF RequestsCorrelated, ShownFor
<1>11. /\ BindingsCorrelated' /\ SignalsCorrelated' /\ ScreenCorrelated'
       /\ OpenActivatesWhatTheUserSaw'
  BY DEF IInv, Correlated, BindingsCorrelated, SignalsCorrelated, ScreenCorrelated,
         OpenActivatesWhatTheUserSaw, ShownFor
<1> QED BY <1>7, <1>8, <1>9, <1>10, <1>11 DEF IInv, Correlated

\* Returning from a call with an id that was shown for the session keeps the
\* registry correlated, whatever that id is.
LEMMA ReturnKeepsSessions ==
  ASSUME IInv, call # NoCall, NEW id \in 0..MaxId,
         ShownFor(id, [owner |-> call.session, activation |-> call.activation]),
         updateNotificationId(call.session, id), UNCHANGED <<content, next_id, wall>>
  PROVE  RegistryTypeOK' /\ SessionsCorrelated'
<1>1. /\ DOMAIN sessions' = DOMAIN sessions
      /\ sessions' \in [DOMAIN sessions -> Session]
      /\ \A t \in DOMAIN sessions :
           /\ sessions'[t].activation = sessions[t].activation
           /\ sessions'[t].notification_id =
                IF t = call.session THEN id ELSE sessions[t].notification_id
  BY UpdateType DEF IInv, TypeOK
<1>2. RegistryTypeOK'
  BY <1>1 DEF IInv, TypeOK, RegistryTypeOK
<1>3. SessionsCorrelated'
  BY <1>1 DEF IInv, Correlated, SessionsCorrelated, CallCorrelated, ShownFor
<1> QED BY <1>2, <1>3

\* A reply binds the id the server has just shown for the calling session.
LEMMA RepliedKeepsIInv ==
  ASSUME IInv, NotifyReplied
  PROVE  IInv'
<1> USE DEF NotifyReplied
<1>1. call # NoCall /\ call \in Call
  BY DEF NoCall, IInv, TypeOK
<1>2. /\ call.assigned_id \in 0..MaxId /\ call.activation \in Activation
      /\ ShownFor(call.assigned_id, [owner |-> call.session, activation |-> call.activation])
  BY <1>1 DEF Call, IInv, Correlated, CallCorrelated
<1>3. RegistryTypeOK' /\ SessionsCorrelated'
  BY <1>1, <1>2, ReturnKeepsSessions DEF serverVars
<1>4. /\ IsTable(bindings')
      /\ \A i \in DOMAIN bindings' :
           \/ i \in DOMAIN bindings /\ bindings'[i] = bindings[i]
           \/ /\ i = call.assigned_id /\ i # 0
              /\ bindings'[i].descriptor = call.activation
  <2>1. CASE call.assigned_id # 0 /\ call.activation # NoActivation
    <3>1. replace(call.replaces_id, call.assigned_id, call.activation)
      BY <2>1
    <3>2. IsTable(bindings) /\ now \in Nat
      BY DEF IInv, TypeOK, BindingsTypeOK, IsTable
    <3> QED BY <2>1, <3>1, <3>2, <1>2, ReplaceAddsOne
  <2>2. CASE ~(call.assigned_id # 0 /\ call.activation # NoActivation)
    BY <2>2 DEF IInv, TypeOK, BindingsTypeOK, IsTable
  <2> QED BY <2>1, <2>2
<1>5. TypeOK'
  BY <1>3, <1>4, AgentTypesAssumption
  DEF IsTable, IInv, TypeOK, BindingsTypeOK, serverVars, Activated, Activation, Content
<1>6. BindingsCorrelated'
  BY <1>2, <1>4 DEF IInv, Correlated, BindingsCorrelated, ShownFor, serverVars, IsTable
<1>7. CallCorrelated'
  BY DEF CallCorrelated
<1>8. RequestsCorrelated'
  BY DEF IInv, Correlated, RequestsCorrelated, ShownFor, serverVars
<1>9. SignalsCorrelated' /\ ScreenCorrelated' /\ OpenActivatesWhatTheUserSaw'
  BY DEF IInv, Correlated, SignalsCorrelated, ScreenCorrelated,
         OpenActivatesWhatTheUserSaw, ShownFor, serverVars
<1> QED BY <1>3, <1>5, <1>6, <1>7, <1>8, <1>9 DEF IInv, Correlated

\* A failed or abandoned call hands the session the id it already had.
LEMMA FailedKeepsIInv ==
  ASSUME IInv, NotifyFailed \/ NotifyTimedOut
  PROVE  IInv'
<1>1. call # NoCall /\ call \in Call
  BY DEF NoCall, IInv, TypeOK, NotifyFailed, NotifyTimedOut
<1>2. /\ call.replaces_id \in 0..MaxId
      /\ ShownFor(call.replaces_id, [owner |-> call.session, activation |-> call.activation])
  BY <1>1 DEF Call, IInv, Correlated, CallCorrelated
<1>3. RegistryTypeOK' /\ SessionsCorrelated'
  BY <1>1, <1>2, ReturnKeepsSessions DEF serverVars, NotifyFailed, NotifyTimedOut
<1>4. /\ requests' \in Seq(Request) /\ Len(requests') = Len(requests)
      /\ \A i \in 1..Len(requests) :
           /\ requests'[i].replaces_id = requests[i].replaces_id
           /\ requests'[i].about = requests[i].about
           /\ requests'[i].awaited = FALSE
  <2>1. CASE NotifyFailed
    BY <2>1 DEF IInv, TypeOK, Correlated, RequestsCorrelated, NotifyFailed, serverVars, Request
  <2>2. CASE NotifyTimedOut
    BY <2>2, AbandonedType DEF IInv, TypeOK, NotifyTimedOut
  <2> QED BY <2>1, <2>2
<1>5. call' = NoCall /\ Silent
      /\ UNCHANGED <<bindings, shown, content, next_id, rqueue, now, wall>>
  BY DEF NotifyFailed, NotifyTimedOut, serverVars
<1>6. TypeOK'
  BY <1>3, <1>4, <1>5, AgentTypesAssumption
  DEF IInv, TypeOK, BindingsTypeOK, Activated, Activation, Content
<1>7. RequestsCorrelated'
  BY <1>4, <1>5 DEF IInv, Correlated, RequestsCorrelated, ShownFor
<1>8. /\ CallCorrelated' /\ BindingsCorrelated' /\ SignalsCorrelated'
      /\ ScreenCorrelated' /\ OpenActivatesWhatTheUserSaw'
  BY <1>5 DEF IInv, Correlated, CallCorrelated, BindingsCorrelated, SignalsCorrelated,
         ScreenCorrelated, OpenActivatesWhatTheUserSaw, ShownFor
<1> QED BY <1>3, <1>6, <1>7, <1>8 DEF IInv, Correlated

\* Ending or pruning sessions happens outside a call and only forgets.
LEMMA ForgetKeepsIInv ==
  ASSUME IInv, PruneSessions \/ \E s \in SessionIds : methodEndSession(s)
  PROVE  IInv'
<1>1. PICK kept : kept \subseteq DOMAIN sessions /\ sessions' = Restrict(sessions, kept)
  BY DEF PruneSessions, pruneStaleSessions, methodEndSession, endSession
<1>2. call = NoCall /\ Silent /\ UNCHANGED <<bindings, call, serverVars, rqueue, now, wall>>
  BY DEF PruneSessions, methodEndSession
<1>3. /\ DOMAIN sessions' = kept
      /\ \A s \in kept : sessions'[s] = sessions[s]
      /\ sessions' \in [kept -> Session]
  BY <1>1 DEF Restrict, IInv, TypeOK, RegistryTypeOK
<1>4. RegistryTypeOK'
  BY <1>1, <1>2, <1>3 DEF IInv, TypeOK, RegistryTypeOK
<1>5. TypeOK'
  BY <1>2, <1>4, AgentTypesAssumption
  DEF IInv, TypeOK, BindingsTypeOK, serverVars, Activated, Activation, Content
<1>6. SessionsCorrelated'
  BY <1>1, <1>2, <1>3 DEF IInv, Correlated, SessionsCorrelated, ShownFor, serverVars
<1>7. /\ CallCorrelated' /\ RequestsCorrelated' /\ BindingsCorrelated' /\ SignalsCorrelated'
      /\ ScreenCorrelated' /\ OpenActivatesWhatTheUserSaw'
  BY <1>2 DEF IInv, Correlated, CallCorrelated, RequestsCorrelated, BindingsCorrelated,
         SignalsCorrelated, ScreenCorrelated, OpenActivatesWhatTheUserSaw, ShownFor, serverVars
<1> QED BY <1>5, <1>6, <1>7 DEF IInv, Correlated

\* ActivateSession hands the shell the session's own descriptor.
LEMMA ActivateKeepsIInv ==
  ASSUME IInv, NEW s \in SessionIds, methodActivateSession(s)
  PROVE  IInv'
<1> USE DEF methodActivateSession, daemonVars, serverVars
<1>1. sessions[s] \in Session
  BY DEF IInv, TypeOK, RegistryTypeOK
<1>2. activated' \in Activated /\ OpenActivatesWhatTheUserSaw'
  BY <1>1, AgentTypesAssumption DEF Session, Activated, Content, OpenActivatesWhatTheUserSaw
<1>3. TypeOK'
  BY <1>2 DEF IInv, TypeOK, BindingsTypeOK, RegistryTypeOK
<1>4. /\ SessionsCorrelated' /\ CallCorrelated' /\ RequestsCorrelated'
      /\ BindingsCorrelated' /\ SignalsCorrelated' /\ ScreenCorrelated'
  BY DEF IInv, Correlated, SessionsCorrelated, CallCorrelated, RequestsCorrelated,
         BindingsCorrelated, SignalsCorrelated, ScreenCorrelated, ShownFor
<1> QED BY <1>2, <1>3, <1>4 DEF IInv, Correlated

\* Dispatching removes the first signal and leaves the others.
LEMMA DispatchedType ==
  ASSUME IInv, rqueue # <<>>, rqueue' = Tail(rqueue), UNCHANGED <<content, next_id>>
  PROVE  /\ Head(rqueue) \in Signal
         /\ ShownFor(Head(rqueue).id, Head(rqueue).about)
         /\ rqueue' \in Seq(Signal) /\ SignalsCorrelated'
<1>1. /\ Head(rqueue) = rqueue[1] /\ 1 \in 1..Len(rqueue) /\ Head(rqueue) \in Signal
      /\ rqueue' \in Seq(Signal) /\ Len(rqueue') = Len(rqueue) - 1
      /\ \A i \in 1..Len(rqueue') : i + 1 \in 1..Len(rqueue) /\ rqueue'[i] = rqueue[i + 1]
  BY DEF IInv, TypeOK
<1>2. \A i \in 1..Len(rqueue) : ShownFor(rqueue[i].id, rqueue[i].about)
  BY DEF IInv, Correlated, SignalsCorrelated
<1>3. SignalsCorrelated'
  BY <1>1, <1>2 DEF SignalsCorrelated, ShownFor
<1> QED BY <1>1, <1>2, <1>3

\* Both signal handlers only remove bindings; what Open hands to the shell is
\* the descriptor of the notification the signal is about.
LEMMA SignalKeepsIInv ==
  ASSUME IInv, handleAction \/ handleClosed
  PROVE  IInv'
<1> DEFINE signal == Head(rqueue)
<1>1. /\ rqueue # <<>> /\ rqueue' = Tail(rqueue)
      /\ UNCHANGED <<sessions, call, serverVars, now, wall>>
  BY DEF handleAction, handleClosed, Dispatch
<1>2. /\ signal \in Signal /\ ShownFor(signal.id, signal.about)
      /\ rqueue' \in Seq(Signal) /\ SignalsCorrelated'
  BY <1>1, DispatchedType DEF serverVars
<1> DEFINE fresh == Pruned(bindings)
<1>3. IsTable(bindings)
  BY DEF IInv, TypeOK, BindingsTypeOK, IsTable
<1>4. /\ IsTable(fresh) /\ DOMAIN fresh \subseteq DOMAIN bindings
      /\ \A i \in DOMAIN fresh : fresh[i] = bindings[i]
  BY <1>3, PrunedIsPart
<1>5. /\ IsTable(bindings') /\ DOMAIN bindings' \subseteq DOMAIN bindings
      /\ \A i \in DOMAIN bindings' : bindings'[i] = bindings[i]
  <2>1. CASE bindings' = Erased(fresh, signal.id)
    <3> HIDE DEF fresh, signal
    <3> DEFINE rest == Erased(fresh, signal.id)
    <3>1. /\ IsTable(rest) /\ DOMAIN rest = DOMAIN fresh \ {signal.id}
          /\ \A i \in DOMAIN rest : rest[i] = fresh[i]
      BY <1>4, ErasedIsPart
    <3>2. bindings' = rest
      BY <2>1
    <3> HIDE DEF rest
    <3> QED BY <1>4, <3>1, <3>2 DEF IsTable
  <2>2. CASE bindings' = Erased(bindings, signal.id)
    <3> HIDE DEF signal
    <3> DEFINE rest == Erased(bindings, signal.id)
    <3>1. /\ IsTable(rest) /\ DOMAIN rest = DOMAIN bindings \ {signal.id}
          /\ \A i \in DOMAIN rest : rest[i] = bindings[i]
      BY <1>3, ErasedIsPart
    <3>2. bindings' = rest
      BY <2>2
    <3> HIDE DEF rest
    <3> QED BY <3>1, <3>2 DEF IsTable
  <2>3. CASE bindings' = bindings
    BY <1>3, <2>3 DEF IsTable
  <2> QED BY <2>1, <2>2, <2>3 DEF handleAction, handleClosed, consume, close
<1>6. activated' \in Activated /\ OpenActivatesWhatTheUserSaw'
  <2>1. CASE activated' = NoneActivated
    BY <2>1, AgentTypesAssumption DEF Activated, Activation, Content, OpenActivatesWhatTheUserSaw
  <2>2. CASE /\ Consumed(signal.id) # NoActivation
             /\ activated' = [descriptor |-> Consumed(signal.id), about |-> signal.about,
                              id |-> signal.id]
    <3>1. /\ signal.id \in DOMAIN bindings
          /\ Consumed(signal.id) = bindings[signal.id].descriptor
      BY <1>4, <2>2 DEF Consumed
    <3>2. /\ Consumed(signal.id) \in Activation /\ signal.about \in Content
          /\ signal.id # 0 /\ signal.id \in 0..MaxId
      BY <1>2, <1>3, <3>1, AgentTypesAssumption DEF IsTable, Entry, Activation, Signal, Ids
    <3>3. signal.about.activation = Consumed(signal.id)
      BY <1>2, <3>1, <3>2 DEF IInv, Correlated, BindingsCorrelated, ShownFor
    <3> QED BY <2>2, <3>2, <3>3 DEF Activated, OpenActivatesWhatTheUserSaw
  <2> QED BY <2>1, <2>2 DEF handleAction, handleClosed
<1>7. TypeOK'
  BY <1>1, <1>2, <1>5, <1>6 DEF IsTable, IInv, TypeOK, BindingsTypeOK, RegistryTypeOK, serverVars
<1>8. BindingsCorrelated'
  BY <1>1, <1>5 DEF IInv, Correlated, BindingsCorrelated, serverVars
<1>9. SessionsCorrelated' /\ CallCorrelated' /\ RequestsCorrelated' /\ ScreenCorrelated'
  BY <1>1 DEF IInv, Correlated, SessionsCorrelated, CallCorrelated, RequestsCorrelated,
         ScreenCorrelated, ShownFor, serverVars
<1> QED BY <1>2, <1>6, <1>7, <1>8, <1>9 DEF IInv, Correlated

\* A restart forgets everything; a call in progress loses its caller.
LEMMA RestartKeepsIInv ==
  ASSUME IInv, Restart
  PROVE  IInv'
<1> USE DEF Restart
<1>1. /\ requests' \in Seq(Request) /\ Len(requests') = Len(requests)
      /\ \A i \in 1..Len(requests) :
           /\ requests'[i].replaces_id = requests[i].replaces_id
           /\ requests'[i].about = requests[i].about
           /\ requests'[i].awaited = FALSE
  BY AbandonedType DEF IInv, TypeOK
<1>2. BindingsTypeOK' /\ RegistryTypeOK'
  BY DEF IInv, TypeOK, BindingsTypeOK, RegistryTypeOK
<1>3. TypeOK'
  BY <1>1, <1>2, AgentTypesAssumption DEF IInv, TypeOK, Activated, Activation, Content
<1>4. RequestsCorrelated'
  BY <1>1 DEF IInv, Correlated, RequestsCorrelated, ShownFor
<1>5. /\ SessionsCorrelated' /\ CallCorrelated' /\ BindingsCorrelated' /\ SignalsCorrelated'
      /\ ScreenCorrelated' /\ OpenActivatesWhatTheUserSaw'
  BY DEF IInv, Correlated, SessionsCorrelated, CallCorrelated, BindingsCorrelated,
         SignalsCorrelated, ScreenCorrelated, OpenActivatesWhatTheUserSaw
<1> QED BY <1>3, <1>4, <1>5 DEF IInv, Correlated

\* The server shows a request under the id it replaces, which was already
\* shown for the same session, or under an id that nobody remembers.
LEMMA ServerShows ==
  ASSUME IInv, ServerNotify
  PROVE  \E id \in Ids :
           LET request == Head(requests) IN
           /\ id = request.replaces_id \/ id = next_id
           /\ shown' = (shown \ {request.replaces_id}) \cup {id}
           /\ content' = [content EXCEPT ![id] = request.about]
           /\ next_id' = IF id = next_id THEN next_id + 1 ELSE next_id
           /\ call' = Answered("replied", id)
  BY DEF ServerNotify

\* Taking the first request leaves the others, none of which is awaited.
LEMMA ServedType ==
  ASSUME IInv, requests # <<>>, requests' = Tail(requests)
  PROVE  /\ Head(requests) \in Request
         /\ ShownFor(Head(requests).replaces_id, Head(requests).about)
         /\ Head(requests).awaited =>
              /\ call.phase = "waiting" /\ call # NoCall
              /\ Head(requests).about = [owner |-> call.session, activation |-> call.activation]
              /\ Len(requests') = 0
         /\ requests' \in Seq(Request)
         /\ \A i \in 1..Len(requests') :
              /\ requests'[i] \in Request
              /\ ShownFor(requests'[i].replaces_id, requests'[i].about)
              /\ requests'[i].awaited =>
                   /\ i = Len(requests') /\ call.phase = "waiting"
                   /\ requests'[i].about = [owner |-> call.session, activation |-> call.activation]
<1>1. /\ Head(requests) = requests[1] /\ 1 \in 1..Len(requests) /\ Head(requests) \in Request
      /\ requests' \in Seq(Request) /\ Len(requests') = Len(requests) - 1
      /\ \A i \in 1..Len(requests') :
           i + 1 \in 1..Len(requests) /\ requests'[i] = requests[i + 1] /\ requests'[i] \in Request
  BY DEF IInv, TypeOK
<1>2. \A i \in 1..Len(requests) :
        /\ ShownFor(requests[i].replaces_id, requests[i].about)
        /\ requests[i].awaited =>
             /\ i = Len(requests) /\ call.phase = "waiting"
             /\ requests[i].about = [owner |-> call.session, activation |-> call.activation]
  BY DEF IInv, Correlated, RequestsCorrelated
<1>3. /\ ShownFor(Head(requests).replaces_id, Head(requests).about)
      /\ Head(requests).awaited =>
           /\ 1 = Len(requests) /\ call.phase = "waiting"
           /\ Head(requests).about = [owner |-> call.session, activation |-> call.activation]
  BY <1>1, <1>2, Zenon
<1>4. Len(requests) = 1 => Len(requests') = 0
  BY <1>1
<1>5. call.phase = "waiting" => call # NoCall
  BY DEF NoCall
<1>6. ASSUME NEW i \in 1..Len(requests')
      PROVE  /\ ShownFor(requests'[i].replaces_id, requests'[i].about)
             /\ requests'[i].awaited =>
                  /\ i = Len(requests') /\ call.phase = "waiting"
                  /\ requests'[i].about = [owner |-> call.session, activation |-> call.activation]
  <2>1. i + 1 \in 1..Len(requests) /\ requests'[i] = requests[i + 1]
    BY <1>1
  <2>2. i + 1 = Len(requests) => i = Len(requests')
    <3>1. Len(requests) \in Int /\ Len(requests') \in Int /\ Len(requests') = Len(requests) - 1
      BY <1>1 DEF IInv, TypeOK
    <3> DEFINE n == Len(requests)
               m == Len(requests')
    <3>2. i \in Int /\ n \in Int /\ m \in Int /\ m = n - 1
      BY <3>1
    <3> HIDE DEF n, m
    <3>3. i + 1 = n => i = m
      BY <3>2
    <3> QED BY <3>3 DEF n, m
  <2> QED BY <1>2, <2>1, <2>2, Zenon
<1> QED BY <1>1, <1>3, <1>4, <1>5, <1>6, Zenon

\* ShownFor as it will be after the step.
StillShownFor(id, about) == id # 0 => id < next_id' /\ content'[id] = about

\* ServerNotify: ids below next_id keep their content, so that whatever was
\* remembered about them stays true.
LEMMA ServerNotifyKeepsIInv ==
  ASSUME IInv, ServerNotify
  PROVE  IInv'
<1> DEFINE request == Head(requests)
<1>1. /\ requests # <<>> /\ requests' = Tail(requests) /\ Silent
      /\ UNCHANGED <<sessions, bindings, rqueue, now, wall>>
  BY DEF ServerNotify
<1>2. PICK id \in Ids :
        /\ id = request.replaces_id \/ id = next_id
        /\ shown' = (shown \ {request.replaces_id}) \cup {id}
        /\ content' = [content EXCEPT ![id] = request.about]
        /\ next_id' = IF id = next_id THEN next_id + 1 ELSE next_id
        /\ call' = Answered("replied", id)
  BY ServerShows
<1>3. /\ request \in Request /\ ShownFor(request.replaces_id, request.about)
      /\ request.awaited =>
           /\ call.phase = "waiting" /\ call # NoCall
           /\ request.about = [owner |-> call.session, activation |-> call.activation]
           /\ Len(requests') = 0
      /\ requests' \in Seq(Request)
      /\ \A i \in 1..Len(requests') :
           /\ requests'[i] \in Request
           /\ ShownFor(requests'[i].replaces_id, requests'[i].about)
           /\ requests'[i].awaited =>
                /\ i = Len(requests') /\ call.phase = "waiting"
                /\ requests'[i].about = [owner |-> call.session, activation |-> call.activation]
  BY <1>1, ServedType
<1>4. /\ call' \in Call \cup {NoCall}
      /\ call' = NoCall <=> call = NoCall
      /\ call # NoCall =>
           /\ call'.session = call.session
           /\ call'.activation = call.activation
           /\ call'.replaces_id = call.replaces_id
           /\ call'.assigned_id = IF request.awaited THEN id ELSE call.assigned_id
  <2>1. id \in 0..MaxId
    BY DEF Ids
  <2> QED BY <1>1, <1>2, <1>3, <2>1, AnsweredType DEF IInv
<1> HIDE DEF request
<1>5. id < next_id' /\ next_id' >= next_id /\ next_id' \in 1..(MaxId + 1)
      /\ content'[id] = request.about /\ content' \in [Ids -> Content] /\ shown' \subseteq Ids
  <2>1. id \in Nat /\ id # 0 /\ id <= MaxId /\ next_id \in 1..(MaxId + 1) /\ MaxId \in Nat
    BY AgentTypesAssumption DEF Ids, IInv, TypeOK
  <2>2. id # next_id => id < next_id
    BY <1>2, <1>3, <2>1 DEF ShownFor
  <2>3. id < next_id' /\ next_id' >= next_id /\ next_id' \in 1..(MaxId + 1)
    BY <1>2, <2>1, <2>2
  <2>4. content'[id] = request.about /\ content' \in [Ids -> Content] /\ shown' \subseteq Ids
    BY <1>2, <1>3 DEF IInv, TypeOK, Request
  <2> QED BY <2>3, <2>4
<1>6. ASSUME NEW j \in Ids, j < next_id
      PROVE  j < next_id' /\ content'[j] = content[j]
  <2>1. j < next_id'
    BY <1>5, <1>6 DEF Ids, IInv, TypeOK
  <2>2. CASE j # id
    BY <1>2, <2>1, <2>2 DEF IInv, TypeOK
  <2>3. CASE j = id
    <3>1. id # next_id
      BY <1>6, <2>3 DEF Ids, IInv, TypeOK
    <3> QED BY <1>2, <1>3, <1>5, <2>1, <2>3, <3>1 DEF ShownFor, Ids
  <2> QED BY <2>2, <2>3
<1>7. ASSUME NEW j \in 0..MaxId, NEW about, ShownFor(j, about)
      PROVE  StillShownFor(j, about)
  BY <1>6, <1>7 DEF ShownFor, StillShownFor, Ids
<1>8. TypeOK'
  BY <1>1, <1>3, <1>4, <1>5, AgentTypesAssumption
  DEF IInv, TypeOK, BindingsTypeOK, RegistryTypeOK, Activated, Activation, Content
<1>9. SessionsCorrelated'
  <2> SUFFICES ASSUME NEW s \in DOMAIN sessions
               PROVE  StillShownFor(sessions[s].notification_id,
                                    [owner |-> s, activation |-> sessions[s].activation])
    BY <1>1 DEF SessionsCorrelated, ShownFor, StillShownFor
  <2>1. sessions[s].notification_id \in 0..MaxId
    BY DEF IInv, TypeOK, RegistryTypeOK, Session
  <2>2. ShownFor(sessions[s].notification_id,
                 [owner |-> s, activation |-> sessions[s].activation])
    BY DEF IInv, Correlated, SessionsCorrelated
  <2> QED BY <1>7, <2>1, <2>2
<1>10. BindingsCorrelated'
  BY <1>1, <1>6 DEF IInv, TypeOK, BindingsTypeOK, Correlated, BindingsCorrelated
<1>11. SignalsCorrelated'
  <2> SUFFICES ASSUME NEW i \in 1..Len(rqueue)
               PROVE  StillShownFor(rqueue[i].id, rqueue[i].about)
    BY <1>1 DEF SignalsCorrelated, ShownFor, StillShownFor
  <2>1. rqueue[i] \in Signal /\ ShownFor(rqueue[i].id, rqueue[i].about)
    BY DEF IInv, TypeOK, Correlated, SignalsCorrelated
  <2>2. rqueue[i].id \in 0..MaxId
    BY <2>1, AgentTypesAssumption DEF Signal, Ids
  <2> QED BY <1>7, <2>1, <2>2
<1>12. ScreenCorrelated'
  BY <1>2, <1>5, <1>6 DEF IInv, TypeOK, Correlated, ScreenCorrelated
<1>13. CallCorrelated'
  <2> SUFFICES ASSUME call # NoCall PROVE CallCorrelated'
    BY <1>4 DEF CallCorrelated
  <2>1. /\ call.session \in DOMAIN sessions
        /\ sessions[call.session].activation = call.activation
        /\ call.replaces_id \in 0..MaxId /\ call.assigned_id \in 0..MaxId
        /\ ShownFor(call.replaces_id, [owner |-> call.session, activation |-> call.activation])
        /\ ShownFor(call.assigned_id, [owner |-> call.session, activation |-> call.activation])
    BY DEF IInv, TypeOK, Call, Correlated, CallCorrelated
  <2> DEFINE about == [owner |-> call.session, activation |-> call.activation]
  <2>2. StillShownFor(call.replaces_id, about)
    BY <1>7, <2>1
  <2>3. StillShownFor(call'.assigned_id, about)
    <3>1. CASE request.awaited
      BY <1>3, <1>4, <1>5, <3>1 DEF StillShownFor
    <3>2. CASE ~request.awaited
      <4>1. call'.assigned_id = call.assigned_id
        BY <1>4, <3>2
      <4>2. StillShownFor(call.assigned_id, about)
        BY <1>7, <2>1
      <4> QED BY <4>1, <4>2
    <3> QED BY <3>1, <3>2
  <2> QED BY <1>1, <1>4, <2>1, <2>2, <2>3 DEF CallCorrelated, ShownFor, StillShownFor
<1>14. RequestsCorrelated'
  <2> SUFFICES ASSUME NEW i \in 1..Len(requests')
               PROVE  /\ StillShownFor(requests'[i].replaces_id, requests'[i].about)
                      /\ requests'[i].awaited =>
                           /\ i = Len(requests') /\ call'.phase = "waiting"
                           /\ requests'[i].about =
                                [owner |-> call'.session, activation |-> call'.activation]
    BY DEF RequestsCorrelated, ShownFor, StillShownFor
  <2>1. ~request.awaited
    BY <1>3
  <2>2. call' = call
    BY <1>2, <2>1 DEF Answered, request
  <2>3. requests'[i].replaces_id \in 0..MaxId
    BY <1>3 DEF Request
  <2>4. StillShownFor(requests'[i].replaces_id, requests'[i].about)
    BY <1>3, <1>7, <2>3
  <2> QED BY <1>3, <2>2, <2>4
<1>15. OpenActivatesWhatTheUserSaw'
  BY <1>1 DEF OpenActivatesWhatTheUserSaw
<1> QED BY <1>8, <1>9, <1>10, <1>11, <1>12, <1>13, <1>14, <1>15 DEF IInv, Correlated

\* A refusal answers the call without a notification.
LEMMA ServerRefusesKeepsIInv ==
  ASSUME IInv, ServerRefuses
  PROVE  IInv'
<1> DEFINE request == Head(requests)
<1>1. /\ requests # <<>> /\ requests' = Tail(requests) /\ Silent
      /\ UNCHANGED <<sessions, bindings, shown, content, next_id, rqueue, now, wall>>
  BY DEF ServerRefuses
<1>2. /\ request.awaited =>
           /\ call.phase = "waiting" /\ call # NoCall /\ Len(requests') = 0
      /\ requests' \in Seq(Request)
      /\ \A i \in 1..Len(requests') :
           /\ ShownFor(requests'[i].replaces_id, requests'[i].about)
           /\ requests'[i].awaited =>
                /\ i = Len(requests') /\ call.phase = "waiting"
                /\ requests'[i].about = [owner |-> call.session, activation |-> call.activation]
  BY <1>1, ServedType
<1>3. PICK phase \in {"replied", "error"} : call' = Answered(phase, 0)
  BY DEF ServerRefuses
<1>4. /\ call' \in Call \cup {NoCall}
      /\ call' = NoCall <=> call = NoCall
      /\ call # NoCall =>
           /\ call'.session = call.session
           /\ call'.activation = call.activation
           /\ call'.replaces_id = call.replaces_id
           /\ call'.assigned_id = IF request.awaited THEN 0 ELSE call.assigned_id
  BY <1>1, <1>2, <1>3, AnsweredType, AgentTypesAssumption DEF IInv
<1>5. TypeOK'
  BY <1>1, <1>2, <1>4, AgentTypesAssumption
  DEF IInv, TypeOK, BindingsTypeOK, RegistryTypeOK, Activated, Activation, Content
<1>6. CallCorrelated'
  BY <1>1, <1>4 DEF IInv, Correlated, CallCorrelated, ShownFor
<1>7. RequestsCorrelated'
  <2> SUFFICES ASSUME NEW i \in 1..Len(requests')
               PROVE  /\ ShownFor(requests'[i].replaces_id, requests'[i].about)
                      /\ requests'[i].awaited =>
                           /\ i = Len(requests') /\ call'.phase = "waiting"
                           /\ requests'[i].about =
                                [owner |-> call'.session, activation |-> call'.activation]
    BY <1>1 DEF RequestsCorrelated, ShownFor
  <2>1. ~request.awaited
    BY <1>2
  <2>2. call' = call
    BY <1>3, <2>1 DEF Answered
  <2> QED BY <1>2, <2>2
<1>8. /\ SessionsCorrelated' /\ BindingsCorrelated' /\ SignalsCorrelated'
      /\ ScreenCorrelated' /\ OpenActivatesWhatTheUserSaw'
  BY <1>1 DEF IInv, Correlated, SessionsCorrelated, BindingsCorrelated, SignalsCorrelated,
         ScreenCorrelated, OpenActivatesWhatTheUserSaw, ShownFor
<1> QED BY <1>5, <1>6, <1>7, <1>8 DEF IInv, Correlated

\* Another application takes a fresh id.
LEMMA OtherKeepsIInv ==
  ASSUME IInv, OtherApplicationNotifies
  PROVE  IInv'
<1> USE DEF OtherApplicationNotifies, daemonVars
<1>1. next_id \in Ids /\ next_id' = next_id + 1 /\ next_id' \in 1..(MaxId + 1)
  BY AgentTypesAssumption DEF Ids
<1>2. TypeOK'
  BY <1>1, AgentTypesAssumption DEF IInv, TypeOK, BindingsTypeOK, RegistryTypeOK, Activated, Activation, Content
<1>3. \A j \in Ids : j < next_id => j < next_id'
  BY <1>1 DEF Ids
<1>4. \A j \in 0..MaxId : \A about : ShownFor(j, about) => StillShownFor(j, about)
  BY <1>3 DEF ShownFor, StillShownFor, Ids
<1>5. SessionsCorrelated'
  BY <1>4 DEF IInv, TypeOK, RegistryTypeOK, Session, Correlated, SessionsCorrelated,
              ShownFor, StillShownFor
<1>6. CallCorrelated'
  BY <1>4 DEF IInv, TypeOK, Call, Correlated, CallCorrelated, ShownFor, StillShownFor
<1>7. RequestsCorrelated'
  <2> SUFFICES ASSUME NEW i \in 1..Len(requests)
               PROVE  StillShownFor(requests[i].replaces_id, requests[i].about)
    BY DEF IInv, Correlated, RequestsCorrelated, ShownFor, StillShownFor
  <2>1. requests[i] \in Request /\ ShownFor(requests[i].replaces_id, requests[i].about)
    BY DEF IInv, TypeOK, Correlated, RequestsCorrelated
  <2>2. requests[i].replaces_id \in 0..MaxId
    BY <2>1 DEF Request
  <2> QED BY <1>4, <2>1, <2>2
<1>8. BindingsCorrelated'
  BY <1>3 DEF IInv, TypeOK, BindingsTypeOK, Correlated, BindingsCorrelated
<1>9. SignalsCorrelated'
  <2> SUFFICES ASSUME NEW i \in 1..Len(rqueue)
               PROVE  StillShownFor(rqueue[i].id, rqueue[i].about)
    BY DEF SignalsCorrelated, ShownFor, StillShownFor
  <2>1. rqueue[i] \in Signal /\ ShownFor(rqueue[i].id, rqueue[i].about)
    BY DEF IInv, TypeOK, Correlated, SignalsCorrelated
  <2>2. rqueue[i].id \in 0..MaxId
    BY <2>1, AgentTypesAssumption DEF Signal, Ids
  <2> QED BY <1>4, <2>1, <2>2
<1>10. ScreenCorrelated'
  BY <1>1, <1>3 DEF IInv, TypeOK, Correlated, ScreenCorrelated, Ids
<1>11. OpenActivatesWhatTheUserSaw'
  BY DEF OpenActivatesWhatTheUserSaw
<1> QED BY <1>2, <1>5, <1>6, <1>7, <1>8, <1>9, <1>10, <1>11 DEF IInv, Correlated

\* A signal carries what is on the screen when it is emitted.
LEMMA UserKeepsIInv ==
  ASSUME IInv, NEW id \in Ids,
         NotificationCloses(id) \/ \E key \in {"open", "dismiss"} : UserActs(id, key)
  PROVE  IInv'
<1> USE DEF Emit
<1>1. PICK signal : /\ rqueue' = Append(rqueue, signal)
                    /\ signal \in Signal /\ ShownFor(signal.id, signal.about)
  <2>1. content[id] \in Content /\ id \in shown => id < next_id
    BY DEF IInv, TypeOK, Correlated, ScreenCorrelated
  <2>2. CASE NotificationCloses(id)
    BY <2>1, <2>2 DEF NotificationCloses, Signal, ShownFor, IInv, TypeOK
  <2>3. CASE \E key \in {"open", "dismiss"} : UserActs(id, key)
    BY <2>1, <2>3 DEF UserActs, Signal, ShownFor, IInv, TypeOK
  <2> QED BY <2>2, <2>3
<1>2. /\ Silent /\ shown' \subseteq shown
      /\ UNCHANGED <<sessions, bindings, call, requests, content, next_id, now, wall>>
  BY DEF NotificationCloses, UserActs, daemonVars, serverVars
<1>3. /\ rqueue' \in Seq(Signal) /\ Len(rqueue') = Len(rqueue) + 1 /\ Len(rqueue) \in Nat
      /\ \A i \in 1..Len(rqueue) : rqueue'[i] = rqueue[i]
      /\ rqueue'[Len(rqueue) + 1] = signal
  BY <1>1 DEF IInv, TypeOK
<1>4. TypeOK'
  BY <1>2, <1>3, AgentTypesAssumption DEF IInv, TypeOK, BindingsTypeOK, RegistryTypeOK, Activated, Activation, Content
<1>5. SignalsCorrelated'
  BY <1>1, <1>2, <1>3 DEF IInv, Correlated, SignalsCorrelated, ShownFor
<1>6. /\ SessionsCorrelated' /\ CallCorrelated' /\ RequestsCorrelated' /\ BindingsCorrelated'
      /\ ScreenCorrelated' /\ OpenActivatesWhatTheUserSaw'
  BY <1>2 DEF IInv, Correlated, SessionsCorrelated, CallCorrelated, RequestsCorrelated,
         BindingsCorrelated, ScreenCorrelated, OpenActivatesWhatTheUserSaw, ShownFor
<1> QED BY <1>4, <1>5, <1>6 DEF IInv, Correlated

\* The clocks and stuttering disturb nothing the invariant is about.
LEMMA ClocksKeepIInv ==
  ASSUME IInv, Tick \/ WallClockSet \/ UNCHANGED vars
  PROVE  IInv'
<1>1. /\ Silent \/ UNCHANGED activated
      /\ UNCHANGED <<sessions, bindings, call, requests, shown, content, next_id, rqueue>>
  BY DEF Tick, WallClockSet, vars, daemonVars, serverVars
<1>2. now' \in Nat /\ wall' \in Nat
  BY DaemonAssumption
  DEF Tick, WallClockSet, vars, IInv, TypeOK, BindingsTypeOK, RegistryTypeOK
<1>3. TypeOK'
  BY <1>1, <1>2, AgentTypesAssumption DEF IInv, TypeOK, BindingsTypeOK, RegistryTypeOK, Activated, Activation, Content
<1>4. Correlated'
  BY <1>1 DEF IInv, Correlated, SessionsCorrelated, CallCorrelated, RequestsCorrelated,
         BindingsCorrelated, SignalsCorrelated, ScreenCorrelated, OpenActivatesWhatTheUserSaw,
         ShownFor
<1> QED BY <1>3, <1>4 DEF IInv

\* Every step of the daemon, the server, the user and the clocks preserves it.
LEMMA NextIInv == IInv /\ [Next]_vars => IInv'
<1> SUFFICES ASSUME IInv, [Next]_vars PROVE IInv'
  OBVIOUS
<1>1. CASE Handlers
  BY <1>1, RegisterKeepsIInv, PublishKeepsIInv, ForgetKeepsIInv, ActivateKeepsIInv,
     RepliedKeepsIInv, FailedKeepsIInv, SignalKeepsIInv DEF Handlers, Dispatches
<1>2. CASE Environment
  BY <1>2, ServerNotifyKeepsIInv, ServerRefusesKeepsIInv, OtherKeepsIInv, UserKeepsIInv,
     ClocksKeepIInv, RestartKeepsIInv DEF Environment
<1>3. CASE UNCHANGED vars
  BY <1>3, ClocksKeepIInv
<1> QED BY <1>1, <1>2, <1>3 DEF Next

(***************************************************************************)
(* The theorems.                                                           *)
(***************************************************************************)

\* Every reachable state of the daemon, its queues and the server satisfies
\* the inductive invariant.
THEOREM IInvHolds == Spec => []IInv
  BY InitIInv, NextIInv, PTL DEF Spec

\* The daemon, its queues and the notification server stay well-typed.
THEOREM TypeCorrect == Spec => []TypeOK
<1>1. IInv => TypeOK
  BY DEF IInv
<1> QED BY <1>1, IInvHolds, PTL

\* Pressing Open raises the terminal the pressed notification is about, for
\* every interleaving of presses, closes, replies, timeouts and restarts.
THEOREM OpenIsNeverMisdirected == Spec => []OpenActivatesWhatTheUserSaw
<1>1. IInv => OpenActivatesWhatTheUserSaw
  BY DEF IInv, Correlated
<1> QED BY <1>1, IInvHolds, PTL

\* A Notify never overwrites a notification of another session or application.
THEOREM NotifyReplacesOnlyItsOwn == Spec => []ReplacesOnlyOwnNotification
<1>1. IInv => ReplacesOnlyOwnNotification
  BY DEF IInv, Correlated, RequestsCorrelated, ShownFor, ReplacesOnlyOwnNotification
<1> QED BY <1>1, IInvHolds, PTL

\* Whatever the daemon and the queues remember about a notification agrees with
\* what the server last showed under its id.
THEOREM MemoryAgreesWithScreen == Spec => []Correlated
<1>1. IInv => Correlated
  BY DEF IInv
<1> QED BY <1>1, IInvHolds, PTL

(***************************************************************************)
(* The capacity bound.                                                     *)
(***************************************************************************)

\* A table's domain is finite, and a part of it is no larger.
LEMMA PartOfTable ==
  ASSUME NEW D, D \subseteq Ids, NEW E, E \subseteq D
  PROVE  /\ IsFiniteSet(D) /\ IsFiniteSet(E)
         /\ Cardinality(D) \in Nat /\ Cardinality(E) \in Nat
         /\ Cardinality(E) <= Cardinality(D)
<1>1. IsFiniteSet(Ids)
  BY FS_Interval, AgentTypesAssumption DEF Ids
<1>2. IsFiniteSet(D)
  BY <1>1, FS_Subset
<1>3. IsFiniteSet(E) /\ Cardinality(E) <= Cardinality(D)
  BY <1>2, FS_Subset
<1> QED BY <1>2, <1>3, FS_CardinalityType

\* replace makes room before it inserts.
LEMMA ReplaceRespectsCapacity ==
  ASSUME IsTable(bindings), now \in Nat, CapacityRespected,
         NEW old_id, NEW new_id \in 0..MaxId, NEW descriptor \in Activation,
         replace(old_id, new_id, descriptor)
  PROVE  CapacityRespected'
<1> DEFINE fresh == Pruned(bindings)
           kept  == Erased(fresh, old_id)
           entry == [descriptor |-> descriptor, created_at |-> now]
<1>1. /\ IsTable(kept) /\ DOMAIN kept \subseteq DOMAIN bindings
  <2>1. IsTable(fresh) /\ DOMAIN fresh \subseteq DOMAIN bindings
    BY PrunedIsPart
  <2> HIDE DEF fresh
  <2>2. IsTable(kept) /\ DOMAIN kept = DOMAIN fresh \ {old_id}
    BY <2>1, ErasedIsPart
  <2> HIDE DEF kept
  <2> QED BY <2>1, <2>2
<1> HIDE DEF kept
<1>2. /\ IsFiniteSet(DOMAIN kept) /\ Cardinality(DOMAIN kept) \in Nat
      /\ Cardinality(DOMAIN kept) <= kCapacity
  <2>1. DOMAIN bindings \subseteq Ids
    BY DEF IsTable
  <2>2. /\ IsFiniteSet(DOMAIN kept)
        /\ Cardinality(DOMAIN kept) \in Nat /\ Cardinality(DOMAIN bindings) \in Nat
        /\ Cardinality(DOMAIN kept) <= Cardinality(DOMAIN bindings)
    BY <1>1, <2>1, PartOfTable
  <2> QED BY <2>2, BindingsAssumption DEF CapacityRespected
<1>3. CASE bindings' = kept
  BY <1>2, <1>3 DEF CapacityRespected
<1>4. CASE /\ new_id \in DOMAIN kept \/ ~Full(kept)
           /\ bindings' = Inserted(kept, new_id, entry)
  <2>1. DOMAIN bindings' = DOMAIN kept \cup {new_id}
    BY <1>4 DEF Inserted
  <2>2. Cardinality(DOMAIN kept \cup {new_id}) =
          IF new_id \in DOMAIN kept THEN Cardinality(DOMAIN kept)
                                    ELSE Cardinality(DOMAIN kept) + 1
    BY <1>2, FS_AddElement
  <2> QED BY <1>2, <1>4, <2>1, <2>2, BindingsAssumption DEF CapacityRespected, Full
<1>5. CASE \E oldest \in OldestIn(kept) :
             bindings' = Inserted(Erased(kept, oldest), new_id, entry)
  <2>1. PICK oldest \in DOMAIN kept : bindings' = Inserted(Erased(kept, oldest), new_id, entry)
    BY <1>5 DEF OldestIn
  <2> DEFINE rest == DOMAIN kept \ {oldest}
  <2>2. DOMAIN bindings' = rest \cup {new_id}
    BY <2>1 DEF Inserted, Erased, Restrict
  <2>3. IsFiniteSet(rest) /\ Cardinality(rest) = Cardinality(DOMAIN kept) - 1
    BY <1>2, FS_RemoveElement
  <2> HIDE DEF rest
  <2>4. Cardinality(rest \cup {new_id}) =
          IF new_id \in rest THEN Cardinality(rest) ELSE Cardinality(rest) + 1
    BY <2>3, FS_AddElement
  <2> QED BY <1>2, <2>2, <2>3, <2>4, BindingsAssumption DEF CapacityRespected
<1> QED BY <1>3, <1>4, <1>5 DEF replace, kept, fresh, entry

\* Every other step only removes bindings.
LEMMA OthersOnlyRemove ==
  ASSUME TypeOK, [Next]_vars, ~NotifyReplied
  PROVE  DOMAIN bindings' \subseteq DOMAIN bindings
<1>1. CASE handleAction
  BY <1>1 DEF handleAction, consume, Erased, Pruned, Restrict
<1>2. CASE handleClosed
  BY <1>2 DEF handleClosed, close, Erased, Restrict
<1>3. CASE Restart
  BY <1>3 DEF Restart
<1>4. CASE UNCHANGED bindings
  BY <1>4
<1> QED
  BY <1>1, <1>2, <1>3, <1>4
  DEF Next, Handlers, Dispatches, Environment, vars, daemonVars, methodRegisterSession,
      methodPublishEvent, methodEndSession, methodActivateSession, NotifyFailed, NotifyTimedOut,
      PruneSessions, ServerNotify, ServerRefuses, OtherApplicationNotifies, UserActs,
      NotificationCloses, Tick, WallClockSet

\* The binding table never holds more than kCapacity entries (AG-ACT-007).
THEOREM CapacityBound == Spec => []CapacityRespected
<1>1. Init => CapacityRespected
  BY FS_EmptySet, BindingsAssumption DEF Init, BindingsInit, CapacityRespected
<1>2. TypeOK /\ CapacityRespected /\ [Next]_vars => CapacityRespected'
  <2> SUFFICES ASSUME TypeOK, CapacityRespected, [Next]_vars PROVE CapacityRespected'
    OBVIOUS
  <2>1. CASE NotifyReplied
    <3>1. CASE UNCHANGED bindings
      BY <3>1 DEF CapacityRespected
    <3>2. CASE /\ call \in Call
               /\ replace(call.replaces_id, call.assigned_id, call.activation)
      <4>1. call.assigned_id \in 0..MaxId /\ call.activation \in Activation
        BY <3>2 DEF Call
      <4>2. IsTable(bindings) /\ now \in Nat
        BY DEF TypeOK, BindingsTypeOK, IsTable
      <4> QED BY <3>2, <4>1, <4>2, ReplaceRespectsCapacity
    <3> QED BY <2>1, <3>1, <3>2 DEF NotifyReplied, TypeOK, NoCall
  <2>2. CASE ~NotifyReplied
    <3>1. DOMAIN bindings \subseteq Ids
      BY DEF TypeOK, BindingsTypeOK
    <3>2. DOMAIN bindings' \subseteq DOMAIN bindings
      BY <2>2, OthersOnlyRemove
    <3> DEFINE D == DOMAIN bindings
               E == DOMAIN bindings'
    <3> HIDE DEF D, E
    <3>3. Cardinality(D) \in Nat /\ Cardinality(E) \in Nat /\ Cardinality(E) <= Cardinality(D)
      BY <3>1, <3>2, PartOfTable DEF D, E
    <3>4. Cardinality(D) <= kCapacity
      BY DEF CapacityRespected, D
    <3>5. Cardinality(E) <= kCapacity
      BY <3>3, <3>4, BindingsAssumption
    <3> QED BY <3>5 DEF CapacityRespected, E
  <2> QED BY <2>1, <2>2
<1> QED BY <1>1, <1>2, TypeCorrect, PTL DEF Spec

(***************************************************************************)
(* Eviction.                                                               *)
(***************************************************************************)

\* No binding is from the future: the steady clock does not go back.
AgesInv == \A i \in DOMAIN bindings : bindings[i].created_at <= now

\* What replace leaves: the fresh entries other than the replaced one, less at
\* most one that is as old as any of them, and the new entry.
LEMMA ReplaceEvictsOldest ==
  ASSUME IsTable(bindings), now \in Nat, AgesInv,
         NEW old_id, NEW new_id \in 0..MaxId, NEW descriptor \in Activation,
         replace(old_id, new_id, descriptor)
  PROVE  /\ \A i \in DOMAIN bindings' : bindings'[i].created_at <= now
         /\ \E victim :
              \A i \in DOMAIN bindings \ DOMAIN bindings' :
                i # old_id /\ bindings[i].created_at >= now - kLifetime =>
                  /\ i = victim
                  /\ \A j \in DOMAIN bindings' :
                       bindings[i].created_at <= bindings'[j].created_at
<1> DEFINE fresh == Pruned(bindings)
           kept  == Erased(fresh, old_id)
           entry == [descriptor |-> descriptor, created_at |-> now]
<1>1. /\ \A i \in DOMAIN kept : i \in DOMAIN bindings /\ kept[i] = bindings[i]
      /\ \A i \in DOMAIN bindings :
           i # old_id /\ bindings[i].created_at >= now - kLifetime => i \in DOMAIN kept
  BY DEF IsTable, Pruned, Erased, Restrict
<1>2. \A i \in DOMAIN bindings : bindings[i].created_at \in Nat /\ bindings[i].created_at <= now
  BY DEF IsTable, Entry, AgesInv
<1>3. entry.created_at = now
  OBVIOUS
<1> HIDE DEF kept, entry
<1>4. CASE bindings' = kept
  BY <1>1, <1>2, <1>4
<1>5. CASE bindings' = Inserted(kept, new_id, entry)
  <2>1. /\ DOMAIN bindings' = DOMAIN kept \cup {new_id}
        /\ \A i \in DOMAIN bindings' : bindings'[i] = IF i = new_id THEN entry ELSE kept[i]
    BY <1>5 DEF Inserted
  <2> QED BY <1>1, <1>2, <1>3, <2>1
<1>6. CASE \E oldest \in OldestIn(kept) :
             bindings' = Inserted(Erased(kept, oldest), new_id, entry)
  <2>1. PICK oldest \in OldestIn(kept) :
          bindings' = Inserted(Erased(kept, oldest), new_id, entry)
    BY <1>6
  <2>2. /\ DOMAIN bindings' = (DOMAIN kept \ {oldest}) \cup {new_id}
        /\ \A i \in DOMAIN bindings' : bindings'[i] = IF i = new_id THEN entry ELSE kept[i]
    BY <2>1 DEF Inserted, Erased, Restrict
  <2>3. /\ oldest \in DOMAIN kept
        /\ \A j \in DOMAIN kept : kept[oldest].created_at <= kept[j].created_at
    BY <2>1 DEF OldestIn
  <2>4. \A i \in DOMAIN bindings' : bindings'[i].created_at <= now
    BY <1>1, <1>2, <1>3, <2>2
  <2>5. \A j \in DOMAIN bindings' : bindings[oldest].created_at <= bindings'[j].created_at
    BY <1>1, <1>2, <1>3, <2>2, <2>3
  <2>6. \A i \in DOMAIN bindings \ DOMAIN bindings' :
          i # old_id /\ bindings[i].created_at >= now - kLifetime => i = oldest
    BY <1>1, <2>2
  <2> QED BY <2>4, <2>5, <2>6
<1> QED BY <1>4, <1>5, <1>6 DEF replace, kept, fresh, entry

LEMMA RepliedReplaces ==
  ASSUME TypeOK, NotifyReplied
  PROVE  /\ IsTable(bindings) /\ now \in Nat /\ now' = now
         /\ call.assigned_id \in 0..MaxId /\ call.activation \in Activation
         /\ \/ UNCHANGED bindings
            \/ replace(call.replaces_id, call.assigned_id, call.activation)
<1>1. call \in Call
  BY DEF TypeOK, NotifyReplied, NoCall
<1> QED BY <1>1 DEF Call, TypeOK, BindingsTypeOK, IsTable, NotifyReplied

LEMMA NextAges == TypeOK /\ AgesInv /\ [Next]_vars => AgesInv'
<1> SUFFICES ASSUME TypeOK, AgesInv, [Next]_vars PROVE AgesInv'
  OBVIOUS
<1>0. now \in Nat /\ \A i \in DOMAIN bindings : bindings[i].created_at \in Nat
  BY DEF TypeOK, BindingsTypeOK, Entry
<1>1. CASE NotifyReplied
  BY <1>1, RepliedReplaces, ReplaceEvictsOldest DEF AgesInv
<1>2. CASE handleAction
  BY <1>2 DEF handleAction, consume, Erased, Pruned, Restrict, AgesInv
<1>3. CASE handleClosed
  BY <1>3 DEF handleClosed, close, Erased, Restrict, AgesInv
<1>4. CASE Restart
  BY <1>4 DEF Restart, AgesInv
<1>5. CASE Tick
  BY <1>0, <1>5 DEF Tick, daemonVars, AgesInv
<1>6. CASE UNCHANGED <<bindings, now>>
  BY <1>6 DEF AgesInv
<1> QED
  BY <1>1, <1>2, <1>3, <1>4, <1>5, <1>6
  DEF Next, Handlers, Dispatches, Environment, vars, daemonVars, methodRegisterSession,
      methodPublishEvent, methodEndSession, methodActivateSession, NotifyFailed, NotifyTimedOut,
      PruneSessions, ServerNotify, ServerRefuses, OtherApplicationNotifies, UserActs,
      NotificationCloses, WallClockSet

\* A full table gives up at most one live binding of another notification, and
\* that one is as old as any that stays, at any capacity and lifetime.
THEOREM EvictionIsFair == Spec => EvictionSparesYounger
<1> DEFINE lost == {i \in DOMAIN bindings \ DOMAIN bindings' :
                      /\ i # call.replaces_id
                      /\ bindings[i].created_at >= now - kLifetime}
           spares == /\ Cardinality(lost) <= 1
                     /\ \A i \in lost, j \in DOMAIN bindings' :
                          bindings[i].created_at <= bindings'[j].created_at
<1>1. Init => AgesInv
  BY DEF Init, BindingsInit, AgesInv
<1>2. TypeOK /\ AgesInv /\ [Next]_vars => [NotifyReplied => spares]_vars
  <2> SUFFICES ASSUME TypeOK, AgesInv, NotifyReplied PROVE spares
    OBVIOUS
  <2>1. CASE UNCHANGED bindings
    <3>1. lost = {}
      BY <2>1
    <3> QED BY <3>1, FS_EmptySet
  <2>2. CASE replace(call.replaces_id, call.assigned_id, call.activation)
    <3>1. PICK victim :
            \A i \in DOMAIN bindings \ DOMAIN bindings' :
              i # call.replaces_id /\ bindings[i].created_at >= now - kLifetime =>
                /\ i = victim
                /\ \A j \in DOMAIN bindings' :
                     bindings[i].created_at <= bindings'[j].created_at
      BY <2>2, RepliedReplaces, ReplaceEvictsOldest
    <3>2. lost \in SUBSET {victim}
      BY <3>1
    <3>3. \A i \in lost, j \in DOMAIN bindings' :
            bindings[i].created_at <= bindings'[j].created_at
      BY <3>1
    <3>4. Cardinality(lost) <= 1
      <4> HIDE DEF lost
      <4>1. IsFiniteSet({victim}) /\ Cardinality({victim}) = 1
        BY FS_Singleton
      <4>2. Cardinality(lost) <= Cardinality({victim})
        BY <3>2, <4>1, FS_Subset
      <4> QED BY <4>1, <4>2
    <3> QED BY <3>3, <3>4
  <2> QED BY <2>1, <2>2, RepliedReplaces
<1>3. EvictionSparesYounger <=> [][NotifyReplied => spares]_vars
  BY DEF EvictionSparesYounger
<1> HIDE DEF spares, lost
<1> QED BY <1>1, <1>2, <1>3, NextAges, TypeCorrect, PTL DEF Spec

===============================================================================
