---------------------------- MODULE RelayResolver ---------------------------
(***************************************************************************)
(* The relay state of every circuit (relay_resolver.py): three maps and    *)
(* the precedence                                                          *)
(*        locked > /set override > load-shed > default-CLOSED.             *)
(*                                                                         *)
(* The three Python dicts always hold the same keys, the registered        *)
(* circuits, and state() reads them with .get(id, default).  They are      *)
(* total functions here, an unregistered circuit holding the default, and  *)
(* `registered' is their common set of keys.  The modules that compose the *)
(* resolver with the commands and the ticks take it as an instance over    *)
(* their own variables.                                                    *)
(***************************************************************************)
CONSTANTS
  Circuits,
  NoOverride      \* Python's None in the override map, neither of the states

VARIABLES
  registered,
  always_on,        \* always_on[c]: the locked bit of the manifest
  user_overrides,   \* user_overrides[c]: what the operator commanded last
  shed              \* shed[c]: the shedding policy wants c open

RelayStates == {"OPEN", "CLOSED"}
Overrides   == RelayStates \union {NoOverride}
Requesters  == {"CONFIGURATION", "USER", "LOAD_SHED", "NONE"}
Resolution  == [relay : RelayStates, requester : Requesters]

\* Slip: the shedding policy beats the operator.
StateShedFirst(c) ==
  IF always_on[c] THEN [relay |-> "CLOSED", requester |-> "CONFIGURATION"]
  ELSE IF shed[c] THEN [relay |-> "OPEN", requester |-> "LOAD_SHED"]
  ELSE IF user_overrides[c] # NoOverride
       THEN [relay |-> user_overrides[c], requester |-> "USER"]
  ELSE [relay |-> "CLOSED", requester |-> "NONE"]

\* state(): the relay state of c and the source that decided it.
State(c) ==
  IF always_on[c] THEN [relay |-> "CLOSED", requester |-> "CONFIGURATION"]
  ELSE IF user_overrides[c] # NoOverride
       THEN [relay |-> user_overrides[c], requester |-> "USER"]
  ELSE IF shed[c] THEN [relay |-> "OPEN", requester |-> "LOAD_SHED"]
  ELSE [relay |-> "CLOSED", requester |-> "NONE"]

Init ==
  /\ registered = {}
  /\ always_on = [c \in Circuits |-> FALSE]
  /\ user_overrides = [c \in Circuits |-> NoOverride]
  /\ shed = [c \in Circuits |-> FALSE]

\* A first registration and a repeated one write the locked bit alike; the
\* override and the shed decision of a repeated one stay (setdefault).
Register(c, locked) ==
  /\ registered' = registered \union {c}
  /\ always_on' = [always_on EXCEPT ![c] = locked]
  /\ UNCHANGED <<user_overrides, shed>>

\* Slip: the lock is left to state() to enforce.
SetUserOverrideUnchecked(c, v) ==
  /\ c \in registered
  /\ user_overrides' = [user_overrides EXCEPT ![c] = v]
  /\ UNCHANGED shed

\* set_user_override() and clear_user_override() (v = NoOverride): a locked
\* circuit drops the command.  An unregistered one raises: nothing happens.
SetUserOverride(c, v) ==
  /\ c \in registered
  /\ user_overrides' = IF always_on[c] THEN user_overrides
                       ELSE [user_overrides EXCEPT ![c] = v]
  /\ UNCHANGED shed

\* clear_all_shed().
ClearAllShed ==
  /\ shed' = [c \in Circuits |-> FALSE]
  /\ UNCHANGED user_overrides

\* The emitter's loop of set_shed(c, open_relay=True) over a set of registered
\* circuits, a locked one dropping the request; only the thread that runs it
\* reads or writes `shed'.
ShedAll(ids) ==
  /\ shed' = [c \in Circuits |-> shed[c] \/ (c \in ids /\ ~always_on[c])]
  /\ UNCHANGED user_overrides
=============================================================================
