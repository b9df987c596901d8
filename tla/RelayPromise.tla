---------------------------- MODULE RelayPromise ----------------------------
(***************************************************************************)
(* What the emitter promises an operator about relays, whatever the        *)
(* interleaving of /set commands with the tick that is being built: a tick *)
(* publishes, for every circuit, a relay state and a requester that some   *)
(* command in force at some moment of that tick accounts for, under the    *)
(* precedence  locked > /set > load-shed > closed,  and a load shed only   *)
(* while the tick says the panel is off grid.                              *)
(*                                                                         *)
(* `window' remembers the commands in force since the tick began.          *)
(***************************************************************************)
CONSTANTS
  Circuits,
  Locked,         \* Locked[c]: the circuit is commissioned locked
  NoOverride,
  Unpublished     \* no tick has been published yet

VARIABLES
  command,      \* command[c]: the operator's standing command on c
  ticking,      \* a tick is being built
  window,       \* window[c]: the commands in force on c since it began
  gridOnline,   \* what the producer says of the grid in it
  published     \* the relay state and requester of every circuit

vars == <<command, ticking, window, gridOnline, published>>

RelayStates == {"OPEN", "CLOSED"}

\* The relay states a tick may publish for c.
Permitted(c) ==
  IF Locked[c] THEN {[relay |-> "CLOSED", requester |-> "CONFIGURATION"]}
  ELSE {[relay |-> v, requester |-> "USER"] : v \in window[c] \ {NoOverride}}
       \union
       {r \in {[relay |-> "CLOSED", requester |-> "NONE"],
               [relay |-> "OPEN", requester |-> "LOAD_SHED"]} :
          /\ NoOverride \in window[c]
          /\ r.requester = "LOAD_SHED" => ~gridOnline}

Init ==
  /\ command = [c \in Circuits |-> NoOverride]
  /\ ticking = FALSE
  /\ window = [c \in Circuits |-> {NoOverride}]
  /\ gridOnline = TRUE
  /\ published = Unpublished

\* The operator commands an unlocked circuit, or its command is cleared.
Command(c, v) ==
  /\ ~Locked[c]
  /\ command' = [command EXCEPT ![c] = v]
  /\ window' = [window EXCEPT ![c] = (IF ticking THEN @ ELSE {}) \union {v}]
  /\ UNCHANGED <<ticking, gridOnline, published>>

\* A tick begins, with what the producer says of the grid.
Begin(g) ==
  /\ ~ticking
  /\ ticking' = TRUE
  /\ gridOnline' = g
  /\ UNCHANGED <<command, window, published>>

Publish ==
  /\ ticking
  /\ ticking' = FALSE
  /\ published' \in [Circuits -> UNION {Permitted(c) : c \in Circuits}]
  /\ \A c \in Circuits : published'[c] \in Permitted(c)
  /\ window' = [c \in Circuits |-> {command[c]}]
  /\ gridOnline' = TRUE
  /\ UNCHANGED command

Next ==
  \/ \E c \in Circuits, v \in RelayStates \union {NoOverride} : Command(c, v)
  \/ \E g \in BOOLEAN : Begin(g)
  \/ Publish

Spec == Init /\ [][Next]_vars
=============================================================================
