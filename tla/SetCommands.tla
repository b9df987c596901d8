----------------------------- MODULE SetCommands ----------------------------
(***************************************************************************)
(* One circuit and one EVSE from their commissioning to the wire: what the *)
(* installer's metadata locks, what the device description declares to be  *)
(* $settable, which commands the emitter's own /set handlers obey, and     *)
(* what the ticks publish.  The description is derived from the raw        *)
(* metadata (wire/graph_builder.py), the handlers' locks from the parsed   *)
(* physics (manifest_physics.py, emitter.py): two roads to one answer.     *)
(*                                                                         *)
(* A handler may be called whatever the description declares: a producer   *)
(* may route commands into the registry itself.  Commands and ticks are    *)
(* one step each here; their interleaving is TickPipeline's subject.       *)
(***************************************************************************)
EXTENDS Integers

CONSTANTS
  Circuit,
  Variants,
  RelayBehaviors, Systems, DefaultPriorities,   \* the metadata in play
  RelayPayloads, PriorityPayloads, AmpPayloads, \* the /set payloads in play
  LockPayloads,
  MaxCurrents,        \* the EVSE's commissioned maxima in play, in amps
  Firmwares,          \* the firmware strings in play, as segments
  SocValues, Threshold,
  NoOverride, NoSoc, None, Unpublished

\* Python's None is no value, in any of the three maps.
ASSUME CommandsAssumption ==
  /\ NoOverride \notin {"OPEN", "CLOSED"} \union PriorityPayloads
  /\ MaxCurrents \subseteq Int /\ AmpPayloads \subseteq Int
  /\ None \notin Int \union {"OPEN", "CLOSED", "LOCKED", "UNLOCKED", "UNKNOWN",
                          "OFF_GRID", "SOC_THRESHOLD", "NEVER"}

VARIABLES
  variant,
  metadata,            \* the circuit's
  evse,                \* the EVSE's metadata: [max, user], user None if absent
  conventions,         \* those of the panel's firmware
  status,              \* "new", "refused" or "running"
  registered, always_on, user_overrides, shed,   \* RelayResolver
  priority_override,   \* _priority_overrides, of the circuit
  user_max_override,   \* _evse_user_max_override, of the EVSE
  lock_override,       \* _evse_lock_override, of the EVSE
  published,           \* what the last tick put on the wire
  asked,               \* history: what the last command of each kind asks for
  fresh                \* history: no command since the last tick

Circuits == {Circuit}

Relays == INSTANCE RelayResolver
Policy == INSTANCE LoadShedding
Firmware == INSTANCE Firmware
Capture == INSTANCE CaptureValues

site == <<variant, metadata, evse, conventions>>
relayVars == <<registered, always_on, user_overrides, shed>>
evseVars == <<user_max_override, lock_override>>
vars == <<site, status, relayVars, priority_override, evseVars, published, asked, fresh>>

Metadata ==
  [relay_behavior : RelayBehaviors, always_on : BOOLEAN, never_backup : BOOLEAN,
   system : Systems \union {None}, priority : DefaultPriorities]

EvseMin == 6   \* EVSE_MIN_CHARGE_CURRENT_A

-----------------------------------------------------------------------------
(* Commissioning. *)

RelayLocked(md) == \/ md.relay_behavior # "controllable"
                   \/ md.always_on
                   \/ md.system # None

PriorityLocked(md) == md.never_backup \/ md.system # None

\* _parse_circuit and the emitter's check of the variant: contradictions.
Contradictory(md) ==
  \/ md.never_backup /\ md.priority # "OFF_GRID"
  \/ md.system # None /\ md.priority # "NEVER"
  \/ md.system # None /\ variant = "span-alpha-test-b2"

\* Slip: the description overlooks the always-on key and the system.
RelaySettableByBehavior(md) == md.relay_behavior = "controllable"

\* _settable_for, from the raw metadata.
RelaySettable(md)    == ~RelayLocked(md)
PrioritySettable(md) ==
  ~(PriorityLocked(md) \/ (variant = "span-alpha-test-b2" /\ RelayLocked(md)))

\* Slip: the variant's rule is applied to the description alone.
PriorityLockOfPhysics == PriorityLocked(metadata)

\* _priority_locked, from the physics view.
EmitterPriorityLock ==
  PriorityLocked(metadata) \/ (variant = "span-alpha-test-b2" /\ always_on[Circuit])

Larger(m, n)  == IF m > n THEN m ELSE n
Smaller(m, n) == IF m < n THEN m ELSE n

\* The range on_evse_user_max keeps a request in.
Clamp(amps, max) == Larger(EvseMin, Smaller(amps, max))

\* _evse_user_max_override as the emitter starts with it.
StartingUserMax(e) == IF e.user = None THEN None ELSE Clamp(e.user, e.max)

Init ==
  /\ variant \in Variants
  /\ metadata \in Metadata
  /\ evse \in [max : MaxCurrents, user : AmpPayloads \union {None}]
  /\ conventions \in {Firmware!Conventions(variant, Firmware!ReleaseBuild(f)) : f \in Firmwares}
  /\ status = "new"
  /\ Relays!Init
  /\ priority_override = NoOverride
  /\ user_max_override = None
  /\ lock_override = None
  /\ published = Unpublished
  /\ asked = [relay |-> None, priority |-> None, amps |-> None, lock |-> None]
  /\ fresh = FALSE

Refuse ==
  /\ status = "new"
  /\ Contradictory(metadata)
  /\ status' = "refused"
  /\ UNCHANGED <<site, relayVars, priority_override, evseVars, published, asked, fresh>>

\* Emitter.__init__: the relay is registered, a user limit is clamped.
Construct ==
  /\ status = "new"
  /\ ~Contradictory(metadata)
  /\ status' = "running"
  /\ Relays!Register(Circuit, RelayLocked(metadata))
  /\ user_max_override' = StartingUserMax(evse)
  /\ UNCHANGED <<site, priority_override, lock_override, published, asked, fresh>>

-----------------------------------------------------------------------------
(* The /set handlers. *)

\* on_circuit_relay: every payload that does not say closed opens the relay,
\* the enum's own UNKNOWN included.
OnCircuitRelay(payload) ==
  /\ status = "running"
  /\ LET new_state == IF payload = "CLOSED" THEN "CLOSED" ELSE "OPEN"
     IN  /\ Relays!SetUserOverride(Circuit, new_state)
         /\ asked' = [asked EXCEPT !.relay = new_state]
  /\ fresh' = FALSE
  /\ UNCHANGED <<site, status, registered, always_on, priority_override, evseVars, published>>

\* on_shed_priority: any text is taken unless the priority is locked.
OnShedPriority(payload) ==
  /\ status = "running"
  /\ priority_override' = IF EmitterPriorityLock THEN priority_override ELSE payload
  /\ asked' = IF PrioritySettable(metadata) THEN [asked EXCEPT !.priority = payload] ELSE asked
  /\ fresh' = FALSE
  /\ UNCHANGED <<site, status, relayVars, evseVars, published>>

\* make_set_callback: a payload that does not decode never reaches the handler.
\* Payloads that come to the handler by another road it checks itself.
Decoded(amps) == amps # None

\* on_evse_user_max.
OnEvseUserMax(amps) ==
  /\ status = "running"
  /\ user_max_override' = IF Decoded(amps) THEN Clamp(amps, evse.max) ELSE user_max_override
  /\ asked' = IF Decoded(amps) THEN [asked EXCEPT !.amps = amps] ELSE asked
  /\ fresh' = FALSE
  /\ UNCHANGED <<site, status, relayVars, priority_override, lock_override, published>>

LockStates == {"LOCKED", "UNLOCKED"}

\* Slip: any text is stored.
OnEvseLockUnchecked(payload) ==
  /\ status = "running"
  /\ lock_override' = payload
  /\ asked' = IF payload \in LockStates THEN [asked EXCEPT !.lock = payload] ELSE asked
  /\ fresh' = FALSE
  /\ UNCHANGED <<site, status, relayVars, priority_override, user_max_override, published>>

\* on_evse_lock: anything but the two states is refused.
OnEvseLock(payload) ==
  /\ status = "running"
  /\ IF payload \in LockStates
     THEN /\ lock_override' = payload
          /\ asked' = [asked EXCEPT !.lock = payload]
     ELSE UNCHANGED <<lock_override, asked>>
  /\ fresh' = FALSE
  /\ UNCHANGED <<site, status, relayVars, priority_override, user_max_override, published>>

-----------------------------------------------------------------------------
(* The tick. *)

Priority == IF priority_override # NoOverride THEN priority_override ELSE metadata.priority

\* _circuit_shed_priority: names the enum does not know become UNKNOWN.
WirePriority(p) == IF p \in {"OFF_GRID", "SOC_THRESHOLD", "NEVER"} THEN p ELSE "UNKNOWN"

\* CONFIGURATION is not in the format of span-alpha-test-b2.
WireRequester(requester) ==
  IF variant = "span-alpha-test-b2" /\ requester = "CONFIGURATION" THEN "NONE" ELSE requester

UserMax(override, max) ==
  IF override # None THEN override
  ELSE IF conventions.user_max_preset THEN max ELSE None

\* A car that charges locks the connector, unless a command says otherwise.
LockState(charging) ==
  IF lock_override # None THEN lock_override
  ELSE IF charging THEN "LOCKED" ELSE "UNLOCKED"

\* A tick: last tick's shed decision goes, this one's comes, and both devices
\* are published.  (Relays!State reads the shed map of this tick.)
Tick(grid_online, soc, charging) ==
  /\ status = "running"
  /\ shed' = [c \in Circuits |->
                /\ c \in Policy!DecideShed(grid_online, soc, Threshold,
                                           [d \in Circuits |-> Priority])
                /\ ~always_on[c]]
  /\ UNCHANGED <<registered, always_on, user_overrides>>
  /\ published' = [relay        |-> (Relays!State(Circuit).relay)',
                   requester    |-> WireRequester((Relays!State(Circuit).requester)'),
                   controllable |-> ~always_on[Circuit],
                   priority     |-> WirePriority(Priority),
                   user_max     |-> UserMax(user_max_override, evse.max),
                   lock_state   |-> LockState(charging)]
  /\ fresh' = TRUE
  /\ UNCHANGED <<site, status, priority_override, evseVars, asked>>

Next ==
  \/ Refuse
  \/ Construct
  \/ \E payload \in RelayPayloads : OnCircuitRelay(payload)
  \/ \E payload \in PriorityPayloads : OnShedPriority(payload)
  \/ \E amps \in AmpPayloads \union {None} : OnEvseUserMax(amps)
  \/ \E payload \in LockPayloads : OnEvseLock(payload)
  \/ \E grid_online \in BOOLEAN, soc \in SocValues, charging \in BOOLEAN :
       Tick(grid_online, soc, charging)

Spec == Init /\ [][Next]_vars

-----------------------------------------------------------------------------
Published == published # Unpublished

\* The range the description declares for the user limit, of this EVSE.
UserMaxFormat == EvseMin .. evse.max

\* A property the description declares read-only never moves, whatever commands
\* reach its handler by whatever road, and a locked circuit stays closed.
\* (DESIGN.md: "the description and the values cannot disagree".)
ReadOnlyNeverMoves ==
  [][Published =>
       /\ ~RelaySettable(metadata) => published'.relay = "CLOSED"
                            /\ published'.requester = published.requester
       /\ ~PrioritySettable(metadata) => published'.priority = WirePriority(metadata.priority)]_vars

\* relay-controllable is published exactly where $settable is declared.
\* (tests/test_relay_controllability.py)
ControllableMeansSettable == Published => (published.controllable <=> RelaySettable(metadata))

\* What a commanded limit comes to: itself within the declared range, else the
\* nearer end of it, and the minimum where the commissioned maximum lies below.
InForce(limit, amps, max) ==
  /\ amps \in EvseMin .. max => limit = amps
  /\ amps > max /\ max >= EvseMin => limit = max
  /\ amps < EvseMin \/ max < EvseMin => limit = EvseMin

\* A command a consumer may send takes effect on the next tick and holds until
\* the next one, through off-grid ticks, shed decisions, garbage and refusals.
\* A relay payload that says neither opens, and stands like any other command.
\* (DESIGN.md: "takes effect on the next tick ... can override a safety-shed",
\* "clamped into [6, max-charge-current]".)
LastCommandWins ==
  fresh =>
    /\ RelaySettable(metadata) /\ asked.relay # None =>
         published.relay = asked.relay /\ published.requester = "USER"
    /\ PrioritySettable(metadata) /\ asked.priority # None =>
         published.priority = WirePriority(asked.priority)
    /\ asked.amps # None => InForce(published.user_max, asked.amps, evse.max)
    /\ asked.lock # None => published.lock_state = asked.lock

\* Every published value is one its declared $format admits, for an EVSE
\* commissioned for the minimum at least (profiles/circuit.json, graph_builder.py).
PublishedInFormat ==
  Published =>
    /\ published.requester \in {"NONE", "LOAD_SHED", "USER"}
                                 \union (IF variant = "span-alpha-test-b2" THEN {}
                                         ELSE {"CONFIGURATION"})
    /\ published.priority \in {"UNKNOWN", "OFF_GRID", "SOC_THRESHOLD", "NEVER"}
    /\ evse.max >= EvseMin => published.user_max \in UserMaxFormat \union {None}
    /\ published.lock_state \in LockStates

\* What is captured from the published values loads again and comes out the same:
\* the same commands are declared settable and the same values published, though
\* commands have moved some of them since the commissioning.  Left out are a
\* circuit with both locks, whose never-backup the capture drops unless the
\* variant locks the priority anyway, and an EVSE below the minimum.  A system's
\* circuit has its system's name. (README.md: "a panel definition that reproduces it".)
CaptureReproduces ==
  Published =>
    LET md  == Capture!CapturedCircuit(published, PrioritySettable(metadata), metadata.system)
        cap == Capture!CapturedEvse([max |-> evse.max, user_max |-> published.user_max])
        BothLocks == metadata.never_backup /\ RelayLocked(metadata)
    IN  /\ ~BothLocks \/ variant = "span-alpha-test-b2" =>
             /\ ~Contradictory(md)
             /\ RelaySettable(md) = RelaySettable(metadata)
             /\ PrioritySettable(md) = PrioritySettable(metadata)
             /\ WirePriority(md.priority) = published.priority
        /\ evse.max >= EvseMin => UserMax(StartingUserMax(cap), cap.max) = published.user_max
=============================================================================
