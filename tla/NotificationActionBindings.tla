---------------------- MODULE NotificationActionBindings ----------------------
(***************************************************************************)
(* libs/agent/NotificationActionBindings.cpp: the bounded table that       *)
(* remembers, for each desktop notification, which terminal its "Open"     *)
(* action raises.  Entries leave the table when they are consumed, closed, *)
(* replaced, older than kLifetime, or evicted because the table is full.   *)
(*                                                                         *)
(* The operations are actions on `bindings`; AgentDaemon conjoins them with*)
(* the rest of the handlers that call them.                                *)
(***************************************************************************)
EXTENDS AgentTypes, FiniteSets, Functions

CONSTANTS
  kCapacity,     \* 256 in the code
  kLifetime      \* 24 hours in the code

ASSUME BindingsAssumption ==
  /\ kCapacity \in Nat \ {0}
  /\ kLifetime \in Nat

VARIABLES
  bindings,      \* entries_: notification id -> descriptor and creation time
  now            \* the steady clock that now_() reads

Entry == [descriptor : Descriptors, created_at : Nat]

BindingsTypeOK ==
  /\ now \in Nat
  /\ DOMAIN bindings \subseteq Ids
  /\ bindings \in [DOMAIN bindings -> Entry]

BindingsInit == bindings = [i \in {} |-> NoActivation]

-------------------------------------------------------------------------------
(* The steps the operations are made of. *)

Pruned(b) ==
  Restrict(b, {i \in DOMAIN b : b[i].created_at >= now - kLifetime})

Erased(b, id) == Restrict(b, DOMAIN b \ {id})

Inserted(b, id, entry) ==
  [i \in DOMAIN b \cup {id} |-> IF i = id THEN entry ELSE b[i]]

\* Mutant of OldestIn: max_element instead of min_element.
OldestIn_newest(b) ==
  {i \in DOMAIN b : \A j \in DOMAIN b : b[i].created_at >= b[j].created_at}

\* The entries min_element may return: unordered_map fixes no order among ties.
OldestIn(b) ==
  {i \in DOMAIN b : \A j \in DOMAIN b : b[i].created_at <= b[j].created_at}

\* Mutant of Full: off by one.
Full_off_by_one(b) == Cardinality(DOMAIN b) > kCapacity

Full(b) == Cardinality(DOMAIN b) >= kCapacity

-------------------------------------------------------------------------------
(* Operations. *)

replace(old_id, new_id, descriptor) ==
  LET kept  == Erased(Pruned(bindings), old_id)
      entry == [descriptor |-> descriptor, created_at |-> now]
  IN  \/ /\ new_id = 0 \/ descriptor = NoActivation
         /\ bindings' = kept
      \/ /\ new_id # 0 /\ descriptor # NoActivation
         /\ new_id \in DOMAIN kept \/ ~Full(kept)
         /\ bindings' = Inserted(kept, new_id, entry)
      \/ /\ new_id # 0 /\ descriptor # NoActivation
         /\ new_id \notin DOMAIN kept /\ Full(kept)
         /\ \E oldest \in OldestIn(kept) :
              bindings' = Inserted(Erased(kept, oldest), new_id, entry)

\* The descriptor consume returns, NoActivation for std::nullopt.
Consumed(id) ==
  LET kept == Pruned(bindings)
  IN  IF id \in DOMAIN kept THEN kept[id].descriptor ELSE NoActivation

consume(id) == bindings' = Erased(Pruned(bindings), id)

close(id) == bindings' = Erased(bindings, id)

===============================================================================
