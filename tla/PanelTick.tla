------------------------------ MODULE PanelTick -----------------------------
(***************************************************************************)
(* One tick after another through the whole physical model of              *)
(* Emitter._build_snapshot_from_tick: the batteries dispatch against the   *)
(* producer's raw powers, the shedding policy opens relays, relays gate    *)
(* the powers, the panel meter adds them up and the energy registers       *)
(* integrate what their own meters read.  A tick is one step here; what    *)
(* commands can do in the middle of one is TickPipeline's subject.         *)
(***************************************************************************)
EXTENDS Integers, FiniteSets, Functions

CONSTANTS
  Circuits, Placement,
  Role,                                \* a circuit's feeds-role; LOADS if it has none
  BessFeeds,                           \* the circuits the batteries are fed through
  Locked, Priority,                    \* a circuit's relay lock and shed priority
  Bess,                                \* the manifest's batteries
  Configs,                             \* the configurations update_bess_config may set
  InitialEnergy,                       \* what a circuit's register holds at first
  InitialConfigs,                      \* the configuration of each battery that has one at first
  InitialSoc,                          \* initial_soc_pct of every configuration
  StepsPerHour,
  Threshold,                           \* soc_threshold_pct
  Readings,                            \* the readings a producer takes: each a power per circuit
  Intervals,                           \* the tick intervals, in steps
  UpstreamLugs, DownstreamLugs, RemoteCt,
  NoOverride, NoSoc,
  MaxTicks                             \* bound: the length of the run

LugsAndCt == {UpstreamLugs, DownstreamLugs, RemoteCt}
Meters    == Circuits \union LugsAndCt

\* How span-alpha-test-b2 books the circuits; it refuses any other role.
BookedRoles     == {"LOADS", "UNUSED", "SOLAR", "STORAGE"}
SolarCircuits   == {c \in Circuits : Role[c] = "SOLAR"}
BatteryCircuits == {c \in Circuits : Role[c] = "STORAGE"} \union BessFeeds

ByRoleAllowed == \A c \in Circuits : Role[c] \in BookedRoles

\* The configurations a definition may name, in the units of BessDevice: a
\* capacity is positive (definition.py, _config) and a limit not negative.
BessConfigs ==
  [nameplate : Nat \ {0}, max_charge : Nat, max_discharge : Nat, reserve_pct : Nat,
   draw : Nat \ {0}, loss : Nat \ {0}, charge_mode : {"self-consumption", "backup-only"}]

\* The lugs and the remote CT are meters of their own; a battery's breaker is a
\* circuit; powers and times are numbers of either sign.
ASSUME PanelAssumption ==
  /\ IsFiniteSet(Circuits) /\ IsFiniteSet(Bess) /\ BessFeeds \subseteq Circuits
  /\ LugsAndCt \intersect Circuits = {}
  /\ UpstreamLugs # DownstreamLugs /\ UpstreamLugs # RemoteCt /\ DownstreamLugs # RemoteCt
  /\ Locked \in [Circuits -> BOOLEAN]
  /\ NoOverride \notin {"OPEN", "CLOSED"} /\ NoSoc \notin Nat
  /\ Configs \subseteq BessConfigs
  /\ DOMAIN InitialConfigs \subseteq Bess
  /\ InitialConfigs \in [DOMAIN InitialConfigs -> BessConfigs]
  /\ InitialEnergy \in [Circuits -> [consumed : Nat, produced : Nat]]
  /\ InitialSoc \in Nat /\ Threshold \in Int /\ StepsPerHour \in Nat \ {0}
  /\ Readings \subseteq [Circuits -> Int] /\ Intervals \subseteq Int
  /\ MaxTicks \in Nat

VARIABLES
  by_role,               \* the variant is span-alpha-test-b2
  user_overrides, shed,  \* RelayResolver
  config, battery,       \* _bess: each configured battery's configuration and state
  energy,                \* EnergyIntegrator._states
  tick,                  \* the TickInputs published last
  dispatch,              \* dispatch[b]: each battery's power in that tick, 0 without a configuration
  gated,                 \* gated[c]: each circuit's power in that tick
  reading,               \* the panel meter's reading of that tick
  ticks,                 \* the number of ticks so far
  forward                \* history: the steps the clock moved forward since the first

Relays      == INSTANCE RelayResolver WITH registered <- Circuits, always_on <- Locked
Policy      == INSTANCE LoadShedding
Device      == INSTANCE BessDevice
Integrator  == INSTANCE EnergyIntegrator
Meter       == INSTANCE PanelMeter WITH FlowsByRole <- by_role
Bag         == INSTANCE BagBuilder
Conventions == INSTANCE Firmware
Capture     == INSTANCE CaptureValues WITH None <- NoOverride

vars == <<by_role, user_overrides, shed, config, battery, energy, tick, dispatch, gated, reading,
          ticks, forward>>
published == <<by_role, energy, tick, dispatch, gated, reading, ticks, forward>>

TickInputs == [grid_online : BOOLEAN, dt : Intervals, powers : Readings]

\* A remote CT is published only by span-alpha-test-b2.
Registers == IF by_role THEN Meters ELSE Meters \ {RemoteCt}

NoPower == [c \in Circuits |-> 0]

Configured == DOMAIN config

Init ==
  /\ by_role \in BOOLEAN /\ (by_role => ByRoleAllowed)
  /\ user_overrides = [c \in Circuits |-> NoOverride]
  /\ shed = [c \in Circuits |-> FALSE]
  /\ config = InitialConfigs
  /\ battery = [b \in Configured |-> Device!NewBattery(config[b], InitialSoc)]
  /\ energy = [m \in Meters |->
                 IF m \in Circuits
                 THEN Integrator!Seeded(Integrator!NewRegister, InitialEnergy[m].consumed,
                                        InitialEnergy[m].produced)
                 ELSE Integrator!NewRegister]
  /\ tick = [grid_online |-> TRUE, dt |-> 0, powers |-> NoPower]
  /\ dispatch = [b \in Bess |-> 0]
  /\ gated = NoPower
  /\ reading = Meter!Resolve(NoPower, 0, TRUE)
  /\ ticks = 0
  /\ forward = 0

-----------------------------------------------------------------------------
(* The producer and the operator between two ticks. *)

OnCircuitRelay(c, v) ==
  /\ Relays!SetUserOverride(c, v)
  /\ UNCHANGED <<config, battery, published>>

\* A configuration replaces a battery's own and leaves its charge, or adds one.
UpdateBessConfig(b, cfg) ==
  /\ config' = [d \in Configured \union {b} |-> IF d = b THEN cfg ELSE config[d]]
  /\ battery' = [d \in Configured \union {b} |->
                   IF d \in Configured THEN battery[d] ELSE Device!NewBattery(cfg, InitialSoc)]
  /\ UNCHANGED <<user_overrides, shed, published>>

SeedBessSoe(b, soe) ==
  /\ b \in Configured
  /\ battery' = [battery EXCEPT ![b] = Device!Restored(config[b], @, soe)]
  /\ UNCHANGED <<user_overrides, shed, config, published>>

-----------------------------------------------------------------------------
(* The tick. *)

\* Step 1: what the dispatch sees of the circuits, before any relay is asked.
RawLoad(powers) == Meter!Sum(powers, Meter!Drawing(powers))
RawPv(powers)   == -Meter!Sum(powers, Meter!Producing(powers))

\* Step 2: every battery decides for itself.
DispatchOf(t) ==
  [b \in Bess |-> IF b \in Configured
                  THEN Device!Dispatch(config[b], battery[b].soe, t.grid_online,
                                       RawLoad(t.powers), RawPv(t.powers))
                  ELSE 0]

Min(S) == CHOOSE n \in S : \A m \in S : n <= m

\* The most depleted battery decides on shedding.
MinSoc(batteries) ==
  IF DOMAIN batteries = {} THEN NoSoc ELSE Min({batteries[b].soc : b \in DOMAIN batteries})

\* Step 4: an open relay zeroes the reading.  (A state() with the shed decisions
\* of this tick: user_overrides stay, shed is the primed one.)
Gated(powers) ==
  [c \in Circuits |-> IF (Relays!State(c).relay)' = "OPEN" THEN 0 ELSE powers[c]]

\* Slip: a lugs meter is handed the gross sum of the circuits behind it.
MeteredGross(m, powers, panel) ==
  IF m \in Circuits THEN powers[m]
  ELSE IF m = DownstreamLugs
       THEN Meter!Sum(powers, Meter!Downstream \intersect Meter!Drawing(powers))
  ELSE IF m = UpstreamLugs THEN panel.upstream
  ELSE panel.grid

\* What a meter reads, given the gated powers and the panel meter's reading.
Metered(m, powers, panel) ==
  IF m \in Circuits THEN powers[m]
  ELSE IF m = DownstreamLugs THEN panel.feedthrough
  ELSE IF m = UpstreamLugs THEN panel.upstream
  ELSE panel.grid

\* _build_snapshot_from_tick, in its order; only the shed map and not the
\* override map moves, and the meters read this tick's powers.
PublishTick(t) ==
  /\ tick' = t
  /\ dispatch' = DispatchOf(t)
  /\ battery' = [b \in Configured |-> Device!Ticked(config[b], battery[b], dispatch'[b], t.dt)]
  /\ shed' = [c \in Circuits |->
                /\ c \in Policy!DecideShed(t.grid_online, MinSoc(battery'), Threshold, Priority)
                /\ ~Locked[c]]
  /\ UNCHANGED <<by_role, user_overrides, config>>
  /\ gated' = Gated(t.powers)
  /\ reading' = Meter!Resolve(gated', Meter!Sum(dispatch', Bess), t.grid_online)
  /\ energy' = [m \in Meters |->
                  IF m \in Registers THEN Integrator!Observe(energy[m], Metered(m, gated', reading'), t.dt)
                  ELSE energy[m]]
  /\ ticks' = ticks + 1
  /\ forward' = IF ticks = 0 \/ t.dt <= 0 THEN forward ELSE forward + t.dt

\* Nothing that comes after the last tick would be published.
Next ==
  /\ ticks < MaxTicks
  /\ \/ \E c \in Circuits, v \in Relays!RelayStates : OnCircuitRelay(c, v)
     \/ \E b \in Bess, cfg \in Configs : UpdateBessConfig(b, cfg)
     \/ \E b \in Bess, cfg \in Configs : SeedBessSoe(b, cfg.nameplate)
     \/ \E t \in TickInputs : PublishTick(t)

Spec == Init /\ [][Next]_vars

-----------------------------------------------------------------------------
(* What the bag builder makes of the last tick. *)

Releases == {Conventions!NoRelease, Conventions!CurrentConventionsRelease,
             Conventions!CurrentConventionsRelease - 1}

FrameOf(release) ==
  Conventions!Conventions(IF by_role THEN "span-alpha-test-b2" ELSE "span",
                          release).bess_meter_frame

WirePower(m) ==
  IF m \in Circuits THEN Bag!CircuitActivePower(gated[m]) ELSE Metered(m, gated, reading)

WireImported(m) ==
  IF m \in Circuits THEN Bag!CircuitImported(energy[m]) ELSE energy[m].consumed

WireExported(m) ==
  IF m \in Circuits THEN Bag!CircuitExported(energy[m]) ELSE energy[m].produced

-----------------------------------------------------------------------------
(* What panel-sim-capture makes of the last tick's values, and what the tick *)
(* it records does to an emitter that starts from the definition it writes.  *)

\* The threshold in the shed policy a panel publishes until a consumer sets one.
PublishedThreshold == 20

CapturedPowers ==
  [c \in Circuits |-> Capture!CapturedPower(WirePower(c), c \in BessFeeds)]

CapturedRegisters ==
  [c \in Circuits |-> Capture!CapturedRegister(WireImported(c), WireExported(c))]

\* A battery without a configuration publishes no charge; every one gets one.
CapturedBatteries ==
  [b \in Bess |-> [soc |-> Capture!CapturedSoc(IF b \in Configured THEN battery[b].soc
                                              ELSE NoOverride)]]

\* The first tick of a battery keeps the charge it starts from, so the replay
\* sheds by the captured charge and by the captured threshold.
ShedInReplay ==
  {c \in Policy!DecideShed(tick.grid_online, MinSoc(CapturedBatteries), PublishedThreshold,
                           Priority) :
     ~Locked[c]}

ReplayedPowers == [c \in Circuits |-> IF c \in ShedInReplay THEN 0 ELSE CapturedPowers[c]]

ReplayedRegister(c) ==
  Integrator!Observe(Integrator!Seeded(Integrator!NewRegister, CapturedRegisters[c].consumed,
                                       CapturedRegisters[c].produced),
                     ReplayedPowers[c], 0)

-----------------------------------------------------------------------------
\* Type invariant: powers are integers, charges and registers never negative.
TypeOK ==
  /\ by_role \in BOOLEAN
  /\ user_overrides \in [Circuits -> Relays!Overrides]
  /\ shed \in [Circuits -> BOOLEAN]
  /\ Configured \subseteq Bess /\ config \in [Configured -> Configs \union Range(InitialConfigs)]
  /\ battery \in [Configured -> [soe : Nat, soc : Nat, ticked : BOOLEAN]]
  /\ energy \in [Meters -> [consumed : Nat, produced : Nat, ticked : BOOLEAN]]
  /\ tick \in [grid_online : BOOLEAN, dt : Intervals \union {0}, powers : [Circuits -> Int]]
  /\ dispatch \in [Bess -> Int]
  /\ gated \in [Circuits -> Int]
  /\ ticks \in 0 .. MaxTicks
  /\ forward \in Nat

\* A battery publishes no more than its capacity in any tick but its first,
\* though its configuration may shrink under it at any time (bess.py, tick).
SocWithinNameplate ==
  [][\A b \in Configured : ticks' # ticks /\ battery[b].ticked =>
       battery'[b].soe <= config[b].nameplate /\ battery'[b].soc <= 100]_vars

\* On grid, a tick whose interval is no longer than the discharge efficiency
\* share of an hour leaves the backup reserve untouched; the dispatch bounds
\* power by the hour, so a longer one may not (bess.py, _decide_dispatch).
ReserveSurvivesShortTicks ==
  [][\A b \in Configured :
       /\ ticks' # ticks
       /\ tick'.grid_online
       /\ tick'.dt * config[b].draw <= StepsPerHour
       /\ battery[b].soe >= Device!BackupFloor(config[b])
       /\ config[b].nameplate >= battery[b].soe
       => battery'[b].soe >= Device!BackupFloor(config[b])]_vars

\* The four flows sum to zero on grid; off grid they do whenever the batteries'
\* dispatch is the panel's net load after gating (panel_meter.py, node frame).
FlowsBalanceWhenCovered ==
  tick.grid_online \/ Meter!Sum(dispatch, Bess) = Meter!Sum(gated, Circuits)
    => Meter!FlowSum(reading) = 0

\* The downstream lugs have imported, net, exactly what the enclosure has
\* exported to the circuits behind them beyond what these started with, whatever
\* relays opened and however long the ticks were: the two sets of registers are
\* integrated at different places of the tick and published in opposite frames.
DownstreamLugsAgree ==
  WireImported(DownstreamLugs) - WireExported(DownstreamLugs) =
    Meter!Sum([c \in Circuits |->
                 (WireExported(c) - InitialEnergy[c].consumed)
                   - (WireImported(c) - InitialEnergy[c].produced)], Meter!Downstream)

\* A consumer finds Kirchhoff's law in the published meters on grid, whichever
\* firmware the panel reports and however its flows are booked: at the busbar
\* the circuits and the upstream lugs balance; beyond the lugs the utility and
\* the batteries supply what the lugs carry (bag_builder.py, panel_meter.py).
WireMetersBalance ==
  tick.grid_online =>
    /\ Meter!Sum([c \in Circuits |-> WirePower(c)], Circuits) + WirePower(UpstreamLugs) = 0
    /\ \A release \in Releases :
         LET frame == FrameOf(release)
             bess  == Meter!Sum([b \in Bess |-> Bag!BessActivePower(frame, dispatch[b])], Bess)
         IN  WirePower(UpstreamLugs) =
               WirePower(RemoteCt) + (IF frame = "device" THEN bess ELSE -bess)

\* On the wire a register advances only the way its own meter points in that
\* tick, though power and energy are relabelled in different places
\* (bag_builder.py, "relabelled for the same reason").
WireRegistersFollowMeters ==
  [][\A m \in Meters :
       /\ WireImported(m)' > WireImported(m) => WirePower(m)' > 0
       /\ WireExported(m)' > WireExported(m) => WirePower(m)' < 0]_vars

\* A tick recorded off the wire and replayed on the captured definition shows the
\* circuits' meters and registers as they were, shed or opened loads included:
\* power and energy are put in the enclosure's frame and out of it again in four
\* places.  Battery breakers are left out of a recording, and a circuit an
\* operator holds closed may be shed in the replay.
\* (README.md: "writes the samples as replayable ticks".)
RecordedTickReplays ==
  [][ticks' # ticks /\ Threshold >= PublishedThreshold =>
       \A c \in Circuits :
         /\ c \notin BessFeeds /\ user_overrides[c] # "CLOSED" =>
              Bag!CircuitActivePower(ReplayedPowers[c])' = WirePower(c)'
         /\ Bag!CircuitImported(ReplayedRegister(c))' = WireImported(c)'
         /\ Bag!CircuitExported(ReplayedRegister(c))' = WireExported(c)']_vars

\* No register advances in both directions in one tick, none goes back, and a
\* tick that does not move the clock forward adds no energy (emitter.py: "One
\* direction can accrue per tick").
OneDirectionPerTick ==
  [][\A m \in Meters :
       /\ energy'[m].consumed >= energy[m].consumed
       /\ energy'[m].produced >= energy[m].produced
       /\ \/ energy'[m].consumed = energy[m].consumed
          \/ energy'[m].produced = energy[m].produced
       /\ energy'[m] # energy[m] => forward' > forward \/ ticks = 0]_vars

\* What the module and its test say of every reading, off grid included: the
\* four flows sum to zero.
FlowsSumToZero == Meter!FlowSum(reading) = 0

\* What bess.py says of a backup-only battery: on grid it charges from the PV
\* surplus only, "never charge from utility grid".  Meant for instances whose
\* configurations do not change between the tick and the look.
BackupOnlyNeverChargesFromGrid ==
  /\ tick.grid_online
  /\ \A b \in Configured : config[b].charge_mode = "backup-only"
  /\ \E b \in Bess : dispatch[b] < 0
  => reading.grid <= 0
=============================================================================
