-------------------------- MODULE SetCommands_proofs -------------------------
(***************************************************************************)
(* Proofs about SetCommands, for any metadata, limits, firmware strings    *)
(* and /set payloads.                                                      *)
(***************************************************************************)
EXTENDS SetCommands, TLAPS

-----------------------------------------------------------------------------
(* The inductive invariant. *)

TypeInv ==
  /\ status \in {"new", "refused", "running"}
  /\ metadata \in Metadata
  /\ evse \in [max : MaxCurrents, user : AmpPayloads \union {None}]
  /\ conventions.user_max_preset \in BOOLEAN
  /\ always_on \in [Circuits -> BOOLEAN]
  /\ user_overrides \in [Circuits -> Relays!Overrides]
  /\ shed \in [Circuits -> BOOLEAN]
  /\ user_max_override \in Int \union {None}
  /\ lock_override \in LockStates \union {None}
  /\ asked \in [relay : {"OPEN", "CLOSED", None}, priority : PriorityPayloads \union {None},
                amps : AmpPayloads \union {None}, lock : LockStates \union {None}]

\* Nothing is published or commanded before the emitter is built, and what is
\* built has the locks of the metadata.
StartInv ==
  /\ status = "running" =>
       ~Contradictory(metadata) /\ (always_on[Circuit] <=> RelayLocked(metadata))
  /\ status # "running" =>
       /\ ~Published /\ ~fresh
       /\ asked = [relay |-> None, priority |-> None, amps |-> None, lock |-> None]

\* A locked property has no override, a user limit is within its range.
OverrideInv ==
  /\ RelayLocked(metadata) => user_overrides[Circuit] = NoOverride
  /\ ~PrioritySettable(metadata) => priority_override = NoOverride
  /\ evse.max >= EvseMin => user_max_override \in UserMaxFormat \union {None}

\* The maps hold what was asked last.
AskedInv ==
  /\ RelaySettable(metadata) /\ asked.relay # None => user_overrides[Circuit] = asked.relay
  /\ PrioritySettable(metadata) /\ asked.priority # None => priority_override = asked.priority
  /\ asked.amps # None =>
       user_max_override # None /\ InForce(user_max_override, asked.amps, evse.max)
  /\ asked.lock # None => lock_override = asked.lock

\* What is published of a locked property is what it was commissioned with.
LockedInv ==
  Published =>
    /\ RelayLocked(metadata) =>
         published.relay = "CLOSED" /\ published.requester = WireRequester("CONFIGURATION")
    /\ ~PrioritySettable(metadata) => published.priority = WirePriority(metadata.priority)
    /\ published.user_max = None => ~conventions.user_max_preset

IInv ==
  /\ TypeInv /\ StartInv /\ OverrideInv /\ AskedInv /\ LockedInv
  /\ ControllableMeansSettable /\ PublishedInFormat /\ LastCommandWins

-----------------------------------------------------------------------------
\* A limit that has been clamped is in the range its description declares, at
\* the end of it nearest to what was asked.
LEMMA Clamped ==
  ASSUME NEW amps \in Int, NEW max \in Int
  PROVE  /\ Clamp(amps, max) \in Int
         /\ max >= EvseMin => Clamp(amps, max) \in EvseMin .. max
         /\ InForce(Clamp(amps, max), amps, max)
  BY DEF Clamp, Larger, Smaller, EvseMin, InForce

\* The invariant holds before the emitter is built.
LEMMA CommandsInit == Init => IInv
<1> SUFFICES ASSUME Init PROVE IInv
  OBVIOUS
<1> USE DEF Init, Relays!Init
<1>1. TypeInv
  <2>1. conventions.user_max_preset \in BOOLEAN
    <3>1. PICK f \in Firmwares :
            conventions = Firmware!Conventions(variant, Firmware!ReleaseBuild(f))
      OBVIOUS
    <3>2. conventions.user_max_preset = Firmware!Earlier(variant, Firmware!ReleaseBuild(f))
      BY <3>1 DEF Firmware!Conventions
    <3>3. Firmware!Earlier(variant, Firmware!ReleaseBuild(f)) \in BOOLEAN
      BY DEF Firmware!Earlier
    <3>4. QED
      BY <3>2, <3>3
  <2>2. QED
    BY <2>1 DEF TypeInv, Relays!Overrides
<1>2. StartInv /\ LockedInv /\ ControllableMeansSettable /\ PublishedInFormat
  BY DEF StartInv, Published, LockedInv, ControllableMeansSettable, PublishedInFormat
<1>3. OverrideInv
  BY DEF OverrideInv, Circuits
<1>4. AskedInv /\ LastCommandWins
  BY CommandsAssumption DEF AskedInv, LastCommandWins
<1>5. QED
  BY <1>1, <1>2, <1>3, <1>4 DEF IInv

\* Building the emitter: the locks are those of the metadata, the starting user
\* limit is clamped.
LEMMA ConstructStep ==
  ASSUME IInv, Construct
  PROVE  IInv'
<1> USE DEF IInv, Construct, site, StartInv, Published
<1>1. TypeInv'
  <2>1. RelayLocked(metadata) \in BOOLEAN
    BY DEF RelayLocked
  <2>2. always_on' \in [Circuits -> BOOLEAN]
    BY <2>1 DEF TypeInv, Relays!Register
  <2>3. user_max_override' \in Int \union {None}
    <3>1. CASE evse.user = None
      BY <3>1 DEF StartingUserMax
    <3>2. CASE evse.user # None
      <4>1. evse.user \in Int /\ evse.max \in Int
        BY <3>2, CommandsAssumption DEF TypeInv
      <4>2. QED
        BY <3>2, <4>1, Clamped DEF StartingUserMax
    <3>3. QED
      BY <3>1, <3>2
  <2>4. QED
    BY <2>2, <2>3 DEF TypeInv, Relays!Register
<1>2. StartInv'
  BY DEF Relays!Register, TypeInv, Circuits, Contradictory, RelayLocked
<1>3. OverrideInv'
  <2>1. evse.max >= EvseMin => user_max_override' \in UserMaxFormat \union {None}
    <3>1. CASE evse.user = None
      BY <3>1 DEF StartingUserMax
    <3>2. CASE evse.user # None
      <4>1. evse.user \in Int /\ evse.max \in Int
        BY <3>2, CommandsAssumption DEF TypeInv
      <4>2. QED
        BY <3>2, <4>1, Clamped DEF StartingUserMax, UserMaxFormat
    <3>3. QED
      BY <3>1, <3>2
  <2>2. QED
    BY <2>1 DEF OverrideInv, Relays!Register, RelayLocked, PrioritySettable, PriorityLocked,
                UserMaxFormat
<1>4. AskedInv'
  <2>1. asked' = [relay |-> None, priority |-> None, amps |-> None, lock |-> None]
    OBVIOUS
  <2>2. QED
    BY <2>1 DEF AskedInv
<1>5. (LockedInv /\ ControllableMeansSettable /\ PublishedInFormat /\ LastCommandWins)'
  BY DEF LockedInv, ControllableMeansSettable, PublishedInFormat, LastCommandWins
<1>6. QED
  BY <1>1, <1>2, <1>3, <1>4, <1>5

\* A handler publishes nothing: what is on the wire stays as true as it was.
LEMMA NothingPublished ==
  ASSUME IInv, UNCHANGED <<site, always_on, published>>, ~fresh'
  PROVE  (LockedInv /\ ControllableMeansSettable /\ PublishedInFormat /\ LastCommandWins)'
  BY DEF IInv, site, LockedInv, ControllableMeansSettable, PublishedInFormat, LastCommandWins,
         Published, WireRequester, PrioritySettable, PriorityLocked, RelayLocked, RelaySettable,
         WirePriority, UserMaxFormat

\* on_circuit_relay: a locked relay has no override, before and after.
LEMMA RelayStep ==
  ASSUME IInv, NEW payload \in RelayPayloads, OnCircuitRelay(payload)
  PROVE  IInv'
<1> DEFINE v == IF payload = "CLOSED" THEN "CLOSED" ELSE "OPEN"
<1> USE DEF IInv, OnCircuitRelay, Relays!SetUserOverride
<1>1. user_overrides' = IF always_on[Circuit] THEN user_overrides
                        ELSE [user_overrides EXCEPT ![Circuit] = v]
  OBVIOUS
<1>2. always_on[Circuit] <=> RelayLocked(metadata)
  BY DEF StartInv
<1>3. TypeInv'
  <2>1. user_overrides' \in [Circuits -> Relays!Overrides]
    BY <1>1 DEF TypeInv, Relays!Overrides, Relays!RelayStates
  <2>2. asked'.relay \in {"OPEN", "CLOSED", None}
    BY DEF TypeInv
  <2>3. asked' \in [relay : {"OPEN", "CLOSED", None}, priority : PriorityPayloads \union {None},
                    amps : AmpPayloads \union {None}, lock : LockStates \union {None}]
    BY <2>2 DEF TypeInv
  <2>4. QED
    BY <2>1, <2>3 DEF TypeInv, site, evseVars
<1>4. StartInv'
  BY DEF StartInv, site, Contradictory, RelayLocked
<1>5. OverrideInv'
  BY <1>1, <1>2 DEF OverrideInv, site, evseVars, RelayLocked, PrioritySettable, PriorityLocked,
                    UserMaxFormat
<1>6. AskedInv'
  <2>1. RelaySettable(metadata) /\ asked'.relay # None => user_overrides'[Circuit] = asked'.relay
    BY <1>1, <1>2 DEF TypeInv, RelaySettable, Circuits
  <2>2. /\ asked'.amps = asked.amps /\ asked'.lock = asked.lock
        /\ asked'.priority = asked.priority
    BY DEF TypeInv
  <2>3. QED
    BY <2>1, <2>2 DEF AskedInv, site, evseVars, RelaySettable, RelayLocked, PrioritySettable,
                      PriorityLocked
<1>7. QED
  BY <1>3, <1>4, <1>5, <1>6, NothingPublished

\* on_shed_priority: a locked priority has no override, before and after.
LEMMA PriorityStep ==
  ASSUME IInv, NEW payload \in PriorityPayloads, OnShedPriority(payload)
  PROVE  IInv'
<1> USE DEF IInv, OnShedPriority
<1>1. EmitterPriorityLock <=> ~PrioritySettable(metadata)
  BY DEF StartInv, EmitterPriorityLock, PrioritySettable
<1>2. TypeInv' /\ StartInv'
  BY DEF TypeInv, StartInv, site, relayVars, evseVars, Contradictory, RelayLocked
<1>3. OverrideInv'
  BY <1>1 DEF OverrideInv, site, relayVars, evseVars, RelayLocked, PrioritySettable,
              PriorityLocked, UserMaxFormat
<1>4. AskedInv'
  <2>1. /\ asked'.relay = asked.relay /\ asked'.amps = asked.amps /\ asked'.lock = asked.lock
        /\ PrioritySettable(metadata) => asked'.priority = payload
    BY DEF TypeInv
  <2>2. QED
    BY <1>1, <2>1 DEF AskedInv, site, relayVars, evseVars, RelaySettable, RelayLocked,
                      PrioritySettable, PriorityLocked
<1>5. QED
  BY <1>2, <1>3, <1>4, NothingPublished DEF relayVars

\* on_evse_user_max: what is stored is clamped.
LEMMA UserMaxStep ==
  ASSUME IInv, NEW amps \in AmpPayloads \union {None}, OnEvseUserMax(amps)
  PROVE  IInv'
<1> USE DEF IInv, OnEvseUserMax, Decoded
<1>1. CASE amps = None
  <2>1. UNCHANGED <<site, status, relayVars, priority_override, user_max_override,
                    lock_override, asked>>
    BY <1>1
  <2>2. TypeInv' /\ StartInv' /\ OverrideInv' /\ AskedInv'
    BY <2>1 DEF TypeInv, StartInv, OverrideInv, AskedInv, site, relayVars, Contradictory,
                RelayLocked, RelaySettable, PrioritySettable, PriorityLocked, UserMaxFormat
  <2>3. QED
    BY <2>2, NothingPublished DEF relayVars
<1>2. CASE amps # None
  <2>1. amps \in Int /\ evse.max \in Int
    BY <1>2, CommandsAssumption DEF TypeInv
  <2>2. /\ user_max_override' = Clamp(amps, evse.max)
        /\ asked' = [asked EXCEPT !.amps = amps]
    BY <1>2
  <2>3. TypeInv' /\ StartInv'
    BY <2>1, <2>2, Clamped DEF TypeInv, StartInv, site, relayVars, Contradictory, RelayLocked
  <2>4. OverrideInv'
    BY <2>1, <2>2, Clamped DEF OverrideInv, site, relayVars, RelayLocked, PrioritySettable,
                               PriorityLocked, UserMaxFormat
  <2>5. AskedInv'
    <3>1. /\ asked'.relay = asked.relay /\ asked'.lock = asked.lock
          /\ asked'.priority = asked.priority /\ asked'.amps = amps
      BY <2>2 DEF TypeInv
    <3>2. user_max_override' # None /\ InForce(user_max_override', amps, evse.max)
      BY <2>1, <2>2, Clamped, CommandsAssumption
    <3>3. QED
      BY <3>1, <3>2 DEF AskedInv, site, relayVars, RelaySettable, RelayLocked,
                        PrioritySettable, PriorityLocked
  <2>6. QED
    BY <2>3, <2>4, <2>5, NothingPublished DEF relayVars
<1>3. QED
  BY <1>1, <1>2

\* on_evse_lock: only the two states are stored.
LEMMA LockStep ==
  ASSUME IInv, NEW payload \in LockPayloads, OnEvseLock(payload)
  PROVE  IInv'
<1> USE DEF IInv, OnEvseLock
<1>1. TypeInv' /\ StartInv'
  BY DEF TypeInv, StartInv, site, relayVars, Contradictory, RelayLocked
<1>2. OverrideInv'
  BY DEF OverrideInv, site, relayVars, RelayLocked, PrioritySettable, PriorityLocked, UserMaxFormat
<1>3. AskedInv'
  BY DEF AskedInv, TypeInv, site, relayVars, RelaySettable, RelayLocked, PrioritySettable,
         PriorityLocked
<1>4. QED
  BY <1>1, <1>2, <1>3, NothingPublished DEF relayVars

\* A tick publishes what the maps hold; a locked property has no override there.
LEMMA TickPublishes ==
  ASSUME IInv, NEW grid_online, NEW soc, NEW charging, Tick(grid_online, soc, charging)
  PROVE  LET resolved ==
               IF always_on[Circuit] THEN [relay |-> "CLOSED", requester |-> "CONFIGURATION"]
               ELSE IF user_overrides[Circuit] # NoOverride
               THEN [relay |-> user_overrides[Circuit], requester |-> "USER"]
               ELSE IF shed'[Circuit] THEN [relay |-> "OPEN", requester |-> "LOAD_SHED"]
               ELSE [relay |-> "CLOSED", requester |-> "NONE"]
         IN  /\ published'.relay = resolved.relay
             /\ published'.requester = WireRequester(resolved.requester)
             /\ published'.controllable = ~always_on[Circuit]
             /\ published'.priority = WirePriority(Priority)
             /\ published'.user_max = UserMax(user_max_override, evse.max)
             /\ published'.lock_state = LockState(charging)
             /\ RelayLocked(metadata) => published'.relay = "CLOSED"
                           /\ published'.requester = WireRequester("CONFIGURATION")
             /\ ~PrioritySettable(metadata) =>
                  published'.priority = WirePriority(metadata.priority)
<1> DEFINE resolved == (Relays!State(Circuit))'
<1>1. /\ published'.relay = resolved.relay
      /\ published'.requester = WireRequester(resolved.requester)
      /\ published'.controllable = ~always_on[Circuit]
      /\ published'.priority = WirePriority(Priority)
      /\ published'.user_max = UserMax(user_max_override, evse.max)
      /\ published'.lock_state = LockState(charging)
  BY DEF Tick, site, WireRequester
<1>2. resolved = IF always_on[Circuit] THEN [relay |-> "CLOSED", requester |-> "CONFIGURATION"]
                 ELSE IF user_overrides[Circuit] # NoOverride
                 THEN [relay |-> user_overrides[Circuit], requester |-> "USER"]
                 ELSE IF shed'[Circuit] THEN [relay |-> "OPEN", requester |-> "LOAD_SHED"]
                 ELSE [relay |-> "CLOSED", requester |-> "NONE"]
  BY DEF Tick, Relays!State
<1>3. always_on[Circuit] <=> RelayLocked(metadata)
  BY DEF Tick, IInv, StartInv
<1> HIDE DEF resolved
<1>4. RelayLocked(metadata) =>
        published'.relay = "CLOSED" /\ published'.requester = WireRequester("CONFIGURATION")
  BY <1>1, <1>2, <1>3
<1>5. ~PrioritySettable(metadata) => published'.priority = WirePriority(metadata.priority)
  BY <1>1 DEF IInv, OverrideInv, Priority
<1>6. QED
  BY <1>1, <1>2, <1>4, <1>5

\* A tick keeps the invariant.
LEMMA TickStep ==
  ASSUME IInv, NEW grid_online \in BOOLEAN, NEW soc \in SocValues, NEW charging \in BOOLEAN,
         Tick(grid_online, soc, charging)
  PROVE  IInv'
<1> USE DEF IInv, Tick, site, evseVars
<1>1. TypeInv' /\ StartInv' /\ OverrideInv' /\ AskedInv'
  <2>1. shed' \in [Circuits -> BOOLEAN]
    OBVIOUS
  <2>2. TypeInv'
    BY <2>1 DEF TypeInv
  <2>3. QED
    BY <2>2 DEF StartInv, OverrideInv, AskedInv, Contradictory, RelayLocked, RelaySettable,
                PrioritySettable, PriorityLocked, UserMaxFormat
<1> DEFINE resolved == IF always_on[Circuit]
                       THEN [relay |-> "CLOSED", requester |-> "CONFIGURATION"]
                       ELSE IF user_overrides[Circuit] # NoOverride
                       THEN [relay |-> user_overrides[Circuit], requester |-> "USER"]
                       ELSE IF shed'[Circuit] THEN [relay |-> "OPEN", requester |-> "LOAD_SHED"]
                       ELSE [relay |-> "CLOSED", requester |-> "NONE"]
<1>2. /\ published'.relay = resolved.relay
      /\ published'.requester = WireRequester(resolved.requester)
      /\ published'.controllable = ~always_on[Circuit]
      /\ published'.priority = WirePriority(Priority)
      /\ published'.user_max = UserMax(user_max_override, evse.max)
      /\ published'.lock_state = LockState(charging)
  BY TickPublishes
<1>3. resolved.requester \in {"CONFIGURATION", "USER", "LOAD_SHED", "NONE"}
  OBVIOUS
<1>4. /\ always_on[Circuit] <=> RelayLocked(metadata)
      /\ metadata' = metadata /\ variant' = variant /\ evse' = evse
      /\ conventions' = conventions
  BY DEF StartInv
<1>5. /\ RelayLocked(metadata)' <=> RelayLocked(metadata)
      /\ RelaySettable(metadata)' <=> ~RelayLocked(metadata)
      /\ PrioritySettable(metadata)' <=> PrioritySettable(metadata)
      /\ WirePriority(metadata.priority)' = WirePriority(metadata.priority)
      /\ WireRequester("CONFIGURATION")' = WireRequester("CONFIGURATION")
  BY <1>4 DEF RelayLocked, RelaySettable, PrioritySettable, PriorityLocked, WirePriority,
              WireRequester
<1> HIDE DEF resolved, Tick, site, evseVars
<1>6. LockedInv'
  <2>1. RelayLocked(metadata) =>
          published'.relay = "CLOSED" /\ published'.requester = WireRequester("CONFIGURATION")
    BY TickPublishes
  <2>2. ~PrioritySettable(metadata) => published'.priority = WirePriority(metadata.priority)
    BY TickPublishes
  <2>3. published'.user_max = None => ~conventions.user_max_preset
    <3>1. evse.max # None
      BY CommandsAssumption DEF TypeInv
    <3>2. QED
      BY <1>2, <3>1 DEF UserMax
  <2>4. QED
    BY <1>4, <1>5, <2>1, <2>2, <2>3 DEF LockedInv
<1>7. ControllableMeansSettable'
  BY <1>2, <1>4, <1>5 DEF ControllableMeansSettable
<1>8. PublishedInFormat'
  <2>1. published'.requester \in {"NONE", "LOAD_SHED", "USER"}
                                    \union (IF variant = "span-alpha-test-b2" THEN {}
                                            ELSE {"CONFIGURATION"})
    BY <1>2, <1>3 DEF WireRequester
  <2>2. published'.priority \in {"UNKNOWN", "OFF_GRID", "SOC_THRESHOLD", "NEVER"}
    BY <1>2 DEF WirePriority
  <2>3. evse.max >= EvseMin => published'.user_max \in UserMaxFormat \union {None}
    <3>1. evse.max \in Int
      BY CommandsAssumption DEF TypeInv
    <3>2. evse.max >= EvseMin => evse.max \in UserMaxFormat
      BY <3>1 DEF UserMaxFormat, EvseMin
    <3>3. QED
      BY <1>2, <3>2 DEF UserMax, OverrideInv
  <2>4. published'.lock_state \in LockStates
    BY <1>2 DEF LockState, TypeInv, LockStates
  <2>5. QED
    BY <1>4, <2>1, <2>2, <2>3, <2>4 DEF PublishedInFormat, UserMaxFormat
<1>9. LastCommandWins'
  <2>1. asked' = asked
    BY DEF Tick
  <2>2. RelaySettable(metadata)' /\ asked.relay # None =>
          published'.relay = asked.relay /\ published'.requester = "USER"
    <3> SUFFICES ASSUME RelaySettable(metadata)', asked.relay # None
                 PROVE  published'.relay = asked.relay /\ published'.requester = "USER"
      OBVIOUS
    <3>1. user_overrides[Circuit] = asked.relay /\ ~always_on[Circuit]
      BY <1>4, <1>5 DEF AskedInv, RelaySettable
    <3>2. user_overrides[Circuit] # NoOverride
      BY <3>1, CommandsAssumption DEF TypeInv
    <3>3. resolved = [relay |-> asked.relay, requester |-> "USER"]
      BY <3>1, <3>2 DEF resolved
    <3>4. QED
      BY <1>2, <3>3 DEF WireRequester
  <2>3. PrioritySettable(metadata)' /\ asked.priority # None =>
          published'.priority = WirePriority(asked.priority)
    <3>1. asked.priority # None => asked.priority # NoOverride
      BY CommandsAssumption DEF TypeInv
    <3>2. QED
      BY <1>2, <1>5, <3>1 DEF AskedInv, Priority
  <2>4. asked.amps # None => InForce(published'.user_max, asked.amps, evse.max)
    BY <1>2 DEF AskedInv, UserMax
  <2>5. asked.lock # None => published'.lock_state = asked.lock
    BY <1>2 DEF AskedInv, LockState
  <2>6. QED
    BY <1>4, <2>1, <2>2, <2>3, <2>4, <2>5 DEF LastCommandWins, WirePriority, InForce
<1>10. QED
  BY <1>1, <1>6, <1>7, <1>8, <1>9

\* The invariant is inductive.
LEMMA CommandsStep == IInv /\ [Next]_vars => IInv'
<1> SUFFICES ASSUME IInv, [Next]_vars PROVE IInv'
  OBVIOUS
<1>1. CASE Refuse
  <2>1. /\ UNCHANGED <<site, relayVars, priority_override, evseVars, published, asked, fresh>>
        /\ status = "new" /\ status' = "refused"
    BY <1>1 DEF Refuse
  <2>2. TypeInv' /\ StartInv' /\ OverrideInv' /\ AskedInv'
    BY <2>1 DEF IInv, TypeInv, StartInv, OverrideInv, AskedInv, site, relayVars, evseVars,
                Published, Contradictory, RelayLocked, RelaySettable, PrioritySettable,
                PriorityLocked, UserMaxFormat
  <2>3. QED
    BY <2>1, <2>2, NothingPublished DEF IInv, StartInv, relayVars
<1>2. CASE Construct
  BY <1>2, ConstructStep
<1>3. ASSUME NEW payload \in RelayPayloads, OnCircuitRelay(payload) PROVE IInv'
  BY <1>3, RelayStep
<1>4. ASSUME NEW payload \in PriorityPayloads, OnShedPriority(payload) PROVE IInv'
  BY <1>4, PriorityStep
<1>5. ASSUME NEW amps \in AmpPayloads \union {None}, OnEvseUserMax(amps) PROVE IInv'
  BY <1>5, UserMaxStep
<1>6. ASSUME NEW payload \in LockPayloads, OnEvseLock(payload) PROVE IInv'
  BY <1>6, LockStep
<1>7. ASSUME NEW grid_online \in BOOLEAN, NEW soc \in SocValues, NEW charging \in BOOLEAN,
             Tick(grid_online, soc, charging)
      PROVE  IInv'
  BY <1>7, TickStep
<1>8. CASE UNCHANGED vars
  BY <1>8 DEF vars, site, relayVars, evseVars, IInv, TypeInv, StartInv, OverrideInv, AskedInv,
              LockedInv, ControllableMeansSettable, PublishedInFormat, LastCommandWins, Published,
              WireRequester, WirePriority, Contradictory, RelayLocked, RelaySettable,
              PrioritySettable, PriorityLocked, UserMaxFormat
<1>9. QED
  BY <1>1, <1>2, <1>3, <1>4, <1>5, <1>6, <1>7, <1>8 DEF Next

\* The invariant holds in every state of every run.
THEOREM CommandsInvariance == Spec => []IInv
  BY CommandsInit, CommandsStep, PTL DEF Spec

\* relay-controllable is published exactly where $settable is declared.
THEOREM ControllableDeclared == Spec => []ControllableMeansSettable
<1>1. IInv => ControllableMeansSettable
  BY DEF IInv
<1>2. QED
  BY <1>1, CommandsInvariance, PTL

\* Every published value is one its declared format admits.
THEOREM FormatKept == Spec => []PublishedInFormat
<1>1. IInv => PublishedInFormat
  BY DEF IInv
<1>2. QED
  BY <1>1, CommandsInvariance, PTL

\* A command that may be sent is on the wire after the next tick and stays there
\* until the next command, whatever else happens.
THEOREM CommandStands == Spec => []LastCommandWins
<1>1. IInv => LastCommandWins
  BY DEF IInv
<1>2. QED
  BY <1>1, CommandsInvariance, PTL

\* Nothing moves what the description declares read-only.
THEOREM ReadOnlyStays == Spec => ReadOnlyNeverMoves
<1>1. IInv /\ [Next]_vars =>
        [Published =>
           /\ ~RelaySettable(metadata) => published'.relay = "CLOSED"
                                /\ published'.requester = published.requester
           /\ ~PrioritySettable(metadata) =>
                published'.priority = WirePriority(metadata.priority)]_vars
  <2> SUFFICES ASSUME IInv, [Next]_vars, Published
               PROVE  /\ ~RelaySettable(metadata) => published'.relay = "CLOSED"
                                           /\ published'.requester = published.requester
                      /\ ~PrioritySettable(metadata) =>
                           published'.priority = WirePriority(metadata.priority)
    OBVIOUS
  <2>1. CASE Published'
    <3>1. IInv'
      BY CommandsStep
    <3>2. variant' = variant /\ metadata' = metadata
      BY DEF Next, vars, site, Refuse, Construct, OnCircuitRelay, OnShedPriority, OnEvseUserMax,
             OnEvseLock, Tick
    <3>3. LockedInv /\ LockedInv'
      BY <3>1 DEF IInv
    <3>4. QED
      BY <2>1, <3>2, <3>3 DEF LockedInv, RelaySettable, RelayLocked, PrioritySettable,
                              PriorityLocked, WireRequester, WirePriority
  <2>2. CASE ~Published'
    <3>1. published' # published
      BY <2>2 DEF Published
    <3>2. PICK grid_online \in BOOLEAN, soc \in SocValues, charging \in BOOLEAN :
            Tick(grid_online, soc, charging)
      BY <3>1 DEF Next, vars, Refuse, Construct, OnCircuitRelay, OnShedPriority, OnEvseUserMax,
                  OnEvseLock
    <3>3. /\ RelayLocked(metadata) => published'.relay = "CLOSED"
                          /\ published'.requester = WireRequester("CONFIGURATION")
          /\ ~PrioritySettable(metadata) =>
               published'.priority = WirePriority(metadata.priority)
      BY <3>2, TickPublishes
    <3>4. QED
      BY <3>3 DEF IInv, LockedInv, RelaySettable
  <2>3. QED
    BY <2>1, <2>2
<1>2. QED
  BY <1>1, CommandsInvariance, PTL DEF Spec, ReadOnlyNeverMoves

\* A published limit, captured and commissioned again, is published again.
LEMMA LimitReproduced ==
  ASSUME IInv, Published, evse.max >= EvseMin
  PROVE  LET cap == Capture!CapturedEvse([max |-> evse.max, user_max |-> published.user_max])
         IN  UserMax(StartingUserMax(cap), cap.max) = published.user_max
<1> DEFINE cap == [max |-> evse.max, user |-> published.user_max]
<1>1. /\ evse.max \in Int /\ None \notin Int
      /\ published.user_max \in (EvseMin .. evse.max) \union {None}
      /\ published.user_max = None => ~conventions.user_max_preset
  BY CommandsAssumption DEF IInv, TypeInv, PublishedInFormat, UserMaxFormat, LockedInv
<1>2. CASE published.user_max = None
  <2>1. StartingUserMax(cap) = None
    BY <1>2 DEF StartingUserMax
  <2>2. UserMax(StartingUserMax(cap), cap.max) = None
    BY <1>1, <1>2, <2>1 DEF UserMax
  <2>3. QED
    BY <1>2, <2>2 DEF Capture!CapturedEvse
<1>3. CASE published.user_max # None
  <2>1. published.user_max \in EvseMin .. evse.max /\ published.user_max \in Int
    BY <1>1, <1>3 DEF EvseMin
  <2>2. StartingUserMax(cap) = published.user_max
    BY <1>1, <1>3, <2>1, Clamped DEF StartingUserMax, InForce
  <2>3. UserMax(StartingUserMax(cap), cap.max) = published.user_max
    BY <1>3, <2>2 DEF UserMax
  <2>4. QED
    BY <2>3 DEF Capture!CapturedEvse
<1>4. QED
  BY <1>2, <1>3

\* A circuit's locks are found again in what is published of it, unless it has
\* both and the variant lets its priority be set.
LEMMA CircuitReproduced ==
  ASSUME IInv, Published,
         metadata.never_backup /\ RelayLocked(metadata) => variant = "span-alpha-test-b2"
  PROVE  LET md == Capture!CapturedCircuit(published, PrioritySettable(metadata), metadata.system)
         IN  /\ ~Contradictory(md)
             /\ RelaySettable(md) <=> RelaySettable(metadata)
             /\ PrioritySettable(md) <=> PrioritySettable(metadata)
             /\ WirePriority(md.priority) = published.priority
<1> DEFINE locked == RelayLocked(metadata)
           settable == PrioritySettable(metadata)
           md == Capture!CapturedCircuit(published, settable, metadata.system)
<1>1. /\ ~Contradictory(metadata)
      /\ published.controllable <=> ~locked
      /\ published.priority \in {"UNKNOWN", "OFF_GRID", "SOC_THRESHOLD", "NEVER"}
      /\ ~settable => published.priority = WirePriority(metadata.priority)
  BY DEF IInv, StartInv, ControllableMeansSettable, RelaySettable, PublishedInFormat, LockedInv
<1>2. md.priority = IF published.priority = "UNKNOWN" THEN "NICE_TO_HAVE" ELSE published.priority
  BY <1>1, CommandsAssumption DEF Capture!CapturedCircuit, Capture!CapturedPriority
<1>3. WirePriority(md.priority) = published.priority
  BY <1>1, <1>2 DEF WirePriority
<1>4. /\ md.relay_behavior = IF ~locked THEN "controllable" ELSE "non-controllable"
      /\ md.always_on = FALSE
      /\ md.system = IF locked /\ published.priority = "NEVER" /\ ~settable
                     THEN metadata.system ELSE None
      /\ md.never_backup <=> /\ md.system = None /\ ~locked
                             /\ published.priority = "OFF_GRID" /\ ~settable
  BY <1>1 DEF Capture!CapturedCircuit
<1>5. locked <=> /\ ~(metadata.relay_behavior = "controllable" /\ ~metadata.always_on
                        /\ metadata.system = None)
  BY DEF RelayLocked
<1>6. settable <=> ~(\/ metadata.never_backup \/ metadata.system # None
                     \/ variant = "span-alpha-test-b2" /\ locked)
  BY DEF PrioritySettable, PriorityLocked
<1>7. /\ metadata.never_backup => metadata.priority = "OFF_GRID"
      /\ metadata.system # None => metadata.priority = "NEVER" /\ variant # "span-alpha-test-b2"
  BY <1>1 DEF Contradictory
<1> HIDE DEF md, locked, settable
<1>8. RelayLocked(md) <=> locked
  BY <1>4 DEF RelayLocked
<1>9. ~Contradictory(md)
  BY <1>2, <1>4, <1>7 DEF Contradictory
<1>10. PrioritySettable(md) <=> settable
  <2>1. CASE ~locked
    <3>1. ~settable => metadata.never_backup /\ published.priority = "OFF_GRID"
      BY <1>1, <1>5, <1>6, <1>7, <2>1 DEF WirePriority
    <3>2. QED
      BY <1>4, <1>8, <2>1, <3>1 DEF PrioritySettable, PriorityLocked
  <2>2. CASE locked /\ variant = "span-alpha-test-b2"
    BY <1>6, <1>8, <2>2 DEF PrioritySettable
  <2>3. CASE locked /\ variant # "span-alpha-test-b2"
    <3>1. ~metadata.never_backup
      BY <2>3 DEF locked
    <3>2. ~settable => metadata.system # None /\ published.priority = "NEVER"
      BY <1>1, <1>6, <1>7, <2>3, <3>1 DEF WirePriority
    <3>3. QED
      BY <1>4, <2>3, <3>2 DEF PrioritySettable, PriorityLocked
  <2>4. QED
    BY <2>1, <2>2, <2>3
<1>11. QED
  BY <1>3, <1>8, <1>9, <1>10 DEF md, locked, settable, RelaySettable

\* Whatever was commanded, the definition captured from the wire declares and
\* publishes the same.
THEOREM CaptureKeeps == Spec => []CaptureReproduces
<1>1. IInv => CaptureReproduces
  <2> SUFFICES ASSUME IInv, Published PROVE CaptureReproduces
    BY DEF CaptureReproduces
  <2> DEFINE md == Capture!CapturedCircuit(published, PrioritySettable(metadata), metadata.system)
  <2>1. ASSUME ~(metadata.never_backup /\ RelayLocked(metadata))
                 \/ variant = "span-alpha-test-b2"
        PROVE  /\ ~Contradictory(md)
               /\ RelaySettable(md) = RelaySettable(metadata)
               /\ PrioritySettable(md) = PrioritySettable(metadata)
               /\ WirePriority(md.priority) = published.priority
    <3>1. /\ ~Contradictory(md)
          /\ RelaySettable(md) <=> RelaySettable(metadata)
          /\ PrioritySettable(md) <=> PrioritySettable(metadata)
          /\ WirePriority(md.priority) = published.priority
      BY <2>1, CircuitReproduced
    <3> HIDE DEF md
    <3>2. /\ RelaySettable(md) \in BOOLEAN /\ RelaySettable(metadata) \in BOOLEAN
          /\ PrioritySettable(md) \in BOOLEAN /\ PrioritySettable(metadata) \in BOOLEAN
      BY DEF RelaySettable, PrioritySettable
    <3>3. QED
      BY <3>1, <3>2
  <2>2. QED
    BY <2>1, LimitReproduced DEF CaptureReproduces
<1>2. QED
  BY <1>1, CommandsInvariance, PTL
=============================================================================
