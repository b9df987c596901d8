---------------------------- MODULE TickPipeline ----------------------------
(***************************************************************************)
(* The relay and priority path of Emitter.publish_tick, run by the         *)
(* producer's thread, against the /set handlers, run by the MQTT client's  *)
(* network thread (wire/set_router.py).  No lock separates them: a handler *)
(* may run between any two reads the tick makes.                           *)
(*                                                                         *)
(* A tick reads the priority of each circuit (to decide the shed set), its *)
(* relay state (to gate its power) and, after the metering, its relay      *)
(* state and its priority once more (to publish them).  Each pass visits   *)
(* the circuits in manifest order, so a circuit is named by its place in   *)
(* the manifest.  A Python dict read or write is one step; the relay read  *)
(* and the priority read of one circuit in the last pass are one step,     *)
(* as no property compares the moments of the two.                         *)
(*                                                                         *)
(* Power is abstracted to whether a circuit's reading passes the gate: the *)
(* producer reports power on every circuit, and gated[c] says whether it   *)
(* is kept (TRUE) or forced to 0 W.  The battery is abstracted to the      *)
(* state of charge its dispatch yields, any of SocValues.                  *)
(***************************************************************************)
EXTENDS Integers

CONSTANTS
  NumCircuits,
  Locked,           \* Locked[c]: relay locked, RelayResolver's always_on
  PriorityLocked,   \* PriorityLocked[c]: in Emitter._priority_locked
  DefaultPriority,  \* DefaultPriority[c]: the manifest's default-priority
  Priorities,       \* the priorities in play, as names
  SocValues,        \* the states of charge in play, NoSoc among them if wanted
  Thresholds,       \* the shed thresholds in play, NoPolicy among them if wanted
  NoOverride, NoSoc, NoPolicy, Unpublished

Circuits == 1 .. NumCircuits

ASSUME PipelineAssumption ==
  /\ NumCircuits \in Nat \ {0}
  /\ Locked \in [Circuits -> BOOLEAN]
  /\ PriorityLocked \in [Circuits -> BOOLEAN]
  /\ DefaultPriority \in [Circuits -> Priorities]
  /\ NoOverride \notin Priorities \union {"OPEN", "CLOSED"}

VARIABLES
  user_overrides,      \* RelayResolver's maps
  shed,
  priority_overrides,  \* Emitter._priority_overrides
  threshold,           \* LoadSheddingConfig.soc_threshold_pct
  phase,               \* where the tick thread is
  next,                \* the circuit its current pass visits next
  gridOnline, soc,     \* the tick's grid state and min_soc
  effective,           \* effective_priorities, as far as built
  gated,               \* gated_powers, as far as built
  snapshot,            \* circuit_snaps, as far as built
  last_snapshot,       \* relay and requester of every circuit as last published
  window,              \* history: overrides in force since the tick began
  priority_order       \* history: <<p, q>> in priority_order[c] iff c had priority p
                       \* and, then or later in the tick, priority q
                       \* (both restart when a tick ends)

relayVars   == <<user_overrides, shed>>
vars == <<user_overrides, shed, priority_overrides, threshold, phase, next, gridOnline,
          soc, effective, gated, snapshot, last_snapshot, window, priority_order>>

Relays == INSTANCE RelayResolver WITH registered <- Circuits, always_on <- Locked
Policy == INSTANCE LoadShedding

Phases == {"idle", "decide", "gate", "snapshot", "publish"}

\* A circuit as the tick publishes it.  `live': its power passed the gate.
CircuitSnapshot ==
  [relay : Relays!RelayStates, requester : Relays!Requesters,
   live : BOOLEAN, priority : Priorities]

\* The part of it that last_snapshot keeps here.
Published(s) == [relay |-> s.relay, requester |-> s.requester]

Unread  == [c \in Circuits |-> NoOverride]   \* nothing built yet in this pass
Ungated == [c \in Circuits |-> FALSE]

\* The history of c's overrides after one more write of user_overrides.
Widened(c) ==
  [window EXCEPT ![c] = (IF phase = "idle" THEN {} ELSE @) \union {user_overrides'[c]}]

\* Slip: the manifest's default is not consulted.
PriorityOverrideOnly(c) == priority_overrides[c]

\* _priority_overrides.get(id, record.default_priority).
Priority(c) ==
  IF priority_overrides[c] # NoOverride THEN priority_overrides[c] ELSE DefaultPriority[c]

\* The history of c's priorities after one more write of priority_overrides.
Reprioritised(c) ==
  LET q == Priority(c)'
  IN  [priority_order EXCEPT ![c] =
         {<<q, q>>} \union
         (IF phase = "idle" THEN {} ELSE @ \union {<<m[1], q>> : m \in @})]

\* Type invariant: every map of the emitter stays total over the manifest's
\* circuits and well-valued, whatever the interleaving.
TypeOK ==
  /\ user_overrides \in [Circuits -> Relays!Overrides]
  /\ shed \in [Circuits -> BOOLEAN]
  /\ priority_overrides \in [Circuits -> Priorities \union {NoOverride}]
  /\ threshold \in Thresholds
  /\ phase \in Phases
  /\ next \in 1 .. NumCircuits + 1
  /\ gridOnline \in BOOLEAN
  /\ soc \in SocValues \union {NoSoc}
  /\ effective \in [Circuits -> Priorities \union {NoOverride}]
  /\ gated \in [Circuits -> BOOLEAN]
  /\ snapshot \in [Circuits -> CircuitSnapshot \union {Unpublished}]
  /\ last_snapshot \in [Circuits -> Relays!Resolution] \union {Unpublished}
  /\ window \in [Circuits -> SUBSET Relays!Overrides]
  /\ priority_order \in [Circuits -> SUBSET (Priorities \X Priorities)]

Init ==
  /\ user_overrides = [c \in Circuits |-> NoOverride]
  /\ shed = [c \in Circuits |-> FALSE]
  /\ priority_overrides = [c \in Circuits |-> NoOverride]
  /\ threshold \in Thresholds
  /\ phase = "idle"
  /\ next = 1
  /\ gridOnline = TRUE
  /\ soc = NoSoc
  /\ effective = Unread
  /\ gated = Ungated
  /\ snapshot = [c \in Circuits |-> Unpublished]
  /\ last_snapshot = Unpublished
  /\ window = [c \in Circuits |-> {NoOverride}]
  /\ priority_order = [c \in Circuits |-> {<<DefaultPriority[c], DefaultPriority[c]>>}]

-----------------------------------------------------------------------------
(* The network thread: the emitter's own /set handlers. *)

\* on_circuit_relay.
OnCircuitRelay(c, v) ==
  /\ Relays!SetUserOverride(c, v)
  /\ window' = Widened(c)
  /\ UNCHANGED <<priority_overrides, threshold, phase, next, gridOnline, soc, effective,
                 gated, snapshot, last_snapshot, priority_order>>

\* on_shed_priority.
OnShedPriority(c, p) ==
  /\ ~PriorityLocked[c]
  /\ priority_overrides' = [priority_overrides EXCEPT ![c] = p]
  /\ priority_order' = Reprioritised(c)
  /\ UNCHANGED <<user_overrides, shed, threshold, phase, next, gridOnline, soc, effective,
                 gated, snapshot, last_snapshot, window>>

-----------------------------------------------------------------------------
(* The producer's thread, between two ticks. *)

\* emitter.relays.clear_user_override(c).
ClearOverride(c) ==
  /\ phase = "idle"
  /\ Relays!SetUserOverride(c, NoOverride)
  /\ window' = Widened(c)
  /\ UNCHANGED <<priority_overrides, threshold, phase, next, gridOnline, soc, effective,
                 gated, snapshot, last_snapshot, priority_order>>

UpdateLoadSheddingConfig(t) ==
  /\ phase = "idle"
  /\ t # NoPolicy
  /\ threshold' = t
  /\ UNCHANGED <<user_overrides, shed, priority_overrides, phase, next, gridOnline, soc,
                 effective, gated, snapshot, last_snapshot, window, priority_order>>

-----------------------------------------------------------------------------
(* The producer's thread, inside publish_tick. *)

\* Slip: the shed decisions of the tick before are not dropped.
BeginTickKeepingShed(g, s) ==
  /\ phase = "idle"
  /\ phase' = IF threshold = NoPolicy THEN "gate" ELSE "decide"
  /\ next' = 1
  /\ gridOnline' = g
  /\ soc' = s
  /\ UNCHANGED <<user_overrides, shed, priority_overrides, threshold, effective, gated,
                 snapshot, last_snapshot, window, priority_order>>

\* Steps 1 to 3: the battery's charge is known, every shed decision of the
\* tick before is dropped; without a shedding policy no priority is read.
BeginTick(g, s) ==
  /\ phase = "idle"
  /\ phase' = IF threshold = NoPolicy THEN "gate" ELSE "decide"
  /\ next' = 1
  /\ gridOnline' = g
  /\ soc' = s
  /\ Relays!ClearAllShed
  /\ UNCHANGED <<priority_overrides, threshold, effective, gated, snapshot, last_snapshot,
                 window, priority_order>>

\* Slip: the policy decides on the manifest's priorities.
ReadDefaultPriority ==
  /\ phase = "decide"
  /\ next \in Circuits
  /\ effective' = [effective EXCEPT ![next] = DefaultPriority[next]]
  /\ next' = next + 1
  /\ UNCHANGED <<user_overrides, shed, priority_overrides, threshold, phase, gridOnline, soc,
                 gated, snapshot, last_snapshot, window, priority_order>>

\* effective_priorities: one read of the override map per circuit.
ReadPriority ==
  /\ phase = "decide"
  /\ next \in Circuits
  /\ effective' = [effective EXCEPT ![next] = Priority(next)]
  /\ next' = next + 1
  /\ UNCHANGED <<user_overrides, shed, priority_overrides, threshold, phase, gridOnline, soc,
                 gated, snapshot, last_snapshot, window, priority_order>>

\* decide_shed and the set_shed loop.
ApplyShed ==
  /\ phase = "decide"
  /\ next = NumCircuits + 1
  /\ Relays!ShedAll(Policy!DecideShed(gridOnline, soc, threshold, effective))
  /\ phase' = "gate"
  /\ next' = 1
  /\ UNCHANGED <<priority_overrides, threshold, gridOnline, soc, effective, gated, snapshot,
                 last_snapshot, window, priority_order>>

\* Slip: only a shed circuit loses its power, not one the operator opened.
GateShedPower ==
  /\ phase = "gate"
  /\ gated' = [gated EXCEPT ![next] = ~shed[next]]
  /\ phase' = IF next = NumCircuits THEN "snapshot" ELSE phase
  /\ next' = IF next = NumCircuits THEN 1 ELSE next + 1
  /\ UNCHANGED <<user_overrides, shed, priority_overrides, threshold, gridOnline, soc,
                 effective, snapshot, last_snapshot, window, priority_order>>

\* Step 4: the first read of the relay state; an open relay zeroes the power.
GatePower ==
  /\ phase = "gate"
  /\ gated' = [gated EXCEPT ![next] = Relays!State(next).relay # "OPEN"]
  /\ phase' = IF next = NumCircuits THEN "snapshot" ELSE phase
  /\ next' = IF next = NumCircuits THEN 1 ELSE next + 1
  /\ UNCHANGED <<user_overrides, shed, priority_overrides, threshold, gridOnline, soc,
                 effective, snapshot, last_snapshot, window, priority_order>>

\* Step 6: the second read, of the relay state and of the priority.
SnapshotCircuit ==
  /\ phase = "snapshot"
  /\ snapshot' = [snapshot EXCEPT ![next] =
                    [relay |-> Relays!State(next).relay,
                     requester |-> Relays!State(next).requester,
                     live |-> gated[next], priority |-> Priority(next)]]
  /\ phase' = IF next = NumCircuits THEN "publish" ELSE phase
  /\ next' = IF next = NumCircuits THEN 1 ELSE next + 1
  /\ UNCHANGED <<user_overrides, shed, priority_overrides, threshold, gridOnline, soc,
                 effective, gated, last_snapshot, window, priority_order>>

\* The snapshot goes out and the tick's locals are gone.
Publish ==
  /\ phase = "publish"
  /\ last_snapshot' = [c \in Circuits |-> Published(snapshot[c])]
  /\ phase' = "idle"
  /\ effective' = Unread
  /\ gated' = Ungated
  /\ snapshot' = [c \in Circuits |-> Unpublished]
  /\ gridOnline' = TRUE
  /\ soc' = NoSoc
  /\ window' = [c \in Circuits |-> {user_overrides[c]}]
  /\ priority_order' = [c \in Circuits |-> {<<Priority(c), Priority(c)>>}]
  /\ UNCHANGED <<user_overrides, shed, priority_overrides, threshold, next>>

Tick ==
  \/ \E g \in BOOLEAN, s \in SocValues : BeginTick(g, s)
  \/ ReadPriority \/ ApplyShed \/ GatePower \/ SnapshotCircuit \/ Publish

Next ==
  \/ Tick
  \/ \E c \in Circuits, v \in Relays!RelayStates : OnCircuitRelay(c, v)
  \/ \E c \in Circuits, p \in Priorities : OnShedPriority(c, p)
  \/ \E c \in Circuits : ClearOverride(c)
  \/ \E t \in Thresholds : UpdateLoadSheddingConfig(t)

Spec == Init /\ [][Next]_vars

\* The producer calls publish_tick again and again, and no call blocks.
FairSpec == Spec /\ WF_vars(Tick)

-----------------------------------------------------------------------------
(* What a published tick may be relied on for. *)

\* No command on c took effect since the tick began.
Settled(c) == window[c] = {user_overrides[c]}

\* A tick during which nobody commanded a circuit publishes that circuit's
\* power and relay in agreement: its reading if CLOSED, 0 W if OPEN, although
\* the gate and the snapshot read the relay at two different moments
\* (emitter.py, steps 4 and 6).
SettledTickIsConsistent ==
  phase = "publish" =>
    \A c \in Circuits :
       Settled(c) => (snapshot[c].live <=> snapshot[c].relay = "CLOSED")

\* Dropping the shed decisions at the start of a tick re-closes exactly the
\* circuits whose requester was LOAD_SHED and moves no other relay, the
\* attribution a consumer relies on (relay_resolver.py, clear_all_shed, state).
RestoreClosesExactlyTheShed ==
  [][phase = "idle" /\ phase' # "idle" =>
       \A c \in Circuits :
          Relays!State(c).relay # (Relays!State(c).relay)'
            <=> Relays!State(c).requester = "LOAD_SHED"]_vars

\* What the policy makes of circuit c in this tick if c's priority is p.
Sheds(c, p) ==
  /\ threshold # NoPolicy
  /\ c \in Policy!DecideShed(gridOnline, soc, threshold, [d \in Circuits |-> p])

\* Priorities explain published sheds, although the decision and the snapshot
\* read them at two moments (emitter.py:948 and 1050): a circuit nobody
\* commanded during the tick is attributed to LOAD_SHED exactly if the policy
\* sheds, with the tick's own grid state and charge, the priority it publishes
\* or one it had in this tick before that one.  Where nobody set the priority
\* meanwhile that is the published one; nothing lingers from the tick before,
\* and the published priority is never older than the one decided on.
ShedFollowsPublishedPriority ==
  phase = "publish" =>
    \A c \in Circuits :
       ~Locked[c] /\ window[c] = {NoOverride} =>
         \E p \in Priorities :
            /\ <<p, snapshot[c].priority>> \in priority_order[c]
            /\ snapshot[c].requester = "LOAD_SHED" <=> Sheds(c, p)

\* A relay command on an unlocked circuit, if it stands, is published.
\* (DESIGN.md: "A /set override takes effect on the next tick".)
Shows(c, v) == last_snapshot # Unpublished /\ last_snapshot[c].relay = v

CommandReachesTheWire ==
  \A c \in Circuits, v \in Relays!RelayStates :
     user_overrides[c] = v ~> (Shows(c, v) \/ user_overrides[c] # v)

\* Every published relay state answers some moment of its own tick.
Promise ==
  INSTANCE RelayPromise WITH
    command <- user_overrides, published <- last_snapshot, ticking <- (phase # "idle")

ImplementsRelayPromise == Promise!Spec

-----------------------------------------------------------------------------
(* What the documents and tests say of every tick, commanded or not. *)

\* An open relay carries no power: relay_resolver state gates power
\* (DESIGN.md), "if relay open, no energy flows" (emitter.py).
OpenRelayCarriesNoPower ==
  phase = "publish" =>
    \A c \in Circuits : snapshot[c].relay = "OPEN" => ~snapshot[c].live

-----------------------------------------------------------------------------
(* The inductive invariant behind the two safety properties and the
   refinement. *)

Building == phase \in {"gate", "snapshot", "publish"}
Visited(c, ph) == phase = ph /\ c < next

\* What the history variables record.
HistoryInv ==
  \A c \in Circuits :
     /\ user_overrides[c] \in window[c]
     /\ phase = "idle" => Settled(c)
     /\ <<Priority(c), Priority(c)>> \in priority_order[c]
     /\ \A m \in priority_order[c] : <<m[1], Priority(c)>> \in priority_order[c]
     /\ Locked[c] => user_overrides[c] = NoOverride /\ ~shed[c]

\* What effective_priorities holds, the circuit had before its present priority.
DecideInv ==
  \A c \in Circuits :
     Visited(c, "decide") \/ (Building /\ threshold # NoPolicy)
       => <<effective[c], Priority(c)>> \in priority_order[c]

\* The shed map is empty until decided, then it is the policy's decision.
ShedInv ==
  /\ phase = "decide" => threshold # NoPolicy /\ \A c \in Circuits : ~shed[c]
  /\ Building =>
       \A c \in Circuits : ~Locked[c] =>
          (shed[c] <=> /\ threshold # NoPolicy
                       /\ c \in Policy!DecideShed(gridOnline, soc, threshold, effective))

\* The gate agrees with the relay on every settled circuit it has passed.
GateInv ==
  \A c \in Circuits :
     /\ Settled(c)
     /\ Visited(c, "gate") \/ phase \in {"snapshot", "publish"}
     => (gated[c] <=> Relays!State(c).relay # "OPEN")

\* What a visited circuit's snapshot holds.
SnapshotInv ==
  \A c \in Circuits :
     Visited(c, "snapshot") \/ phase = "publish" =>
       /\ snapshot[c] \in CircuitSnapshot
       /\ snapshot[c].live = gated[c]
       /\ <<snapshot[c].priority, snapshot[c].priority>> \in priority_order[c]
       /\ threshold # NoPolicy =>
            <<effective[c], snapshot[c].priority>> \in priority_order[c]
       /\ Published(snapshot[c]) \in Promise!Permitted(c)
       /\ Settled(c) => Published(snapshot[c]) = Relays!State(c)

PhaseInv == phase \in {"gate", "snapshot"} => next \in Circuits

\* The inductive invariant of tick and handlers together.
IInv == TypeOK /\ PhaseInv /\ HistoryInv /\ DecideInv /\ ShedInv /\ GateInv /\ SnapshotInv
=============================================================================
