-------------------------- MODULE PanelTick_proofs --------------------------
(***************************************************************************)
(* Proofs about PanelTick, for any circuits, roles, batteries, readings    *)
(* and intervals: what the meters, the registers and the batteries show    *)
(* after any number of ticks, configurations and relay commands.           *)
(***************************************************************************)
EXTENDS PanelTick, Sums, TLAPS

\* What the panel meter showed follows from the powers it was given.
ReadingInv == reading = Meter!Resolve(gated, Meter!Sum(dispatch, Bess), tick.grid_online)

\* All published registers have been observed as often.
TickedInv == \A m \in Registers : energy[m].ticked <=> ticks > 0

IInv == TypeOK /\ ReadingInv /\ TickedInv /\ DownstreamLugsAgree

-----------------------------------------------------------------------------
(* The panel meter's sums. *)

LEMMA MeterSum ==
  ASSUME NEW powers, NEW cs
  PROVE  Meter!Sum(powers, cs) = SumFunctionOnSet(powers, cs)
  BY DEF Meter!Sum, Meter!SumFunctionOnSet, Meter!FoldFunctionOnSet, Meter!MapThenFoldSet,
         SumFunctionOnSet, FoldFunctionOnSet, MapThenFoldSet

-----------------------------------------------------------------------------
(* The battery. *)

Batteries == [soe : Nat, soc : Nat, ticked : BOOLEAN]

LEMMA Percentage ==
  ASSUME NEW n \in Nat \ {0}, NEW e \in Nat
  PROVE  Device!Percent(e, n) \in Nat /\ (e <= n => Device!Percent(e, n) <= 100)
  BY DEF Device!Percent

LEMMA Products ==
  ASSUME NEW a \in Int, NEW b \in Nat
  PROVE  /\ a * b \in Int /\ (-a) * b = -(a * b)
         /\ (a >= 0 => a * b >= 0) /\ (a <= 0 => a * b <= 0) /\ (a = 0 \/ b = 0 => a * b = 0)
         /\ a * b > 0 => a > 0
         /\ a * b < 0 => a < 0
  OBVIOUS

LEMMA Quotient ==
  ASSUME NEW a \in Int, NEW n \in Nat \ {0}
  PROVE  a \div n \in Int /\ (a \div n) * n <= a
  OBVIOUS

LEMMA FloorType ==
  ASSUME NEW cfg \in BessConfigs
  PROVE  Device!BackupFloor(cfg) \in Nat
<1>1. cfg.nameplate * cfg.reserve_pct \in Nat
  BY DEF BessConfigs
<1>2. QED
  BY <1>1 DEF Device!BackupFloor

\* A dispatch is a power; on grid a battery that is no fuller than its capacity
\* discharges no more in an hour than it has above its reserve.
LEMMA DispatchBound ==
  ASSUME NEW cfg \in BessConfigs, NEW soe \in Nat, NEW online \in BOOLEAN,
         NEW load \in Int, NEW pv \in Int
  PROVE  LET power == Device!Dispatch(cfg, soe, online, load, pv)
         IN  /\ power \in Int
             /\ online /\ soe <= cfg.nameplate /\ power > 0
                  => power * StepsPerHour <= soe - Device!BackupFloor(cfg)
<1> DEFINE floor == Device!BackupFloor(cfg)
           power == Device!Dispatch(cfg, soe, online, load, pv)
<1>1. /\ cfg.nameplate \in Nat /\ cfg.max_charge \in Nat /\ cfg.max_discharge \in Nat
      /\ floor \in Nat /\ StepsPerHour \in Nat \ {0}
  BY FloorType, PanelAssumption DEF BessConfigs
<1>2. /\ Device!Headroom(cfg, soe) \in Int
      /\ soe <= cfg.nameplate => Device!Headroom(cfg, soe) >= 0
  BY <1>1 DEF Device!Headroom
<1>3. /\ Device!Available(cfg, soe) \in Int
      /\ Device!Available(cfg, soe) * StepsPerHour <= soe - floor
  <2>1. soe - floor \in Int
    BY <1>1
  <2> HIDE DEF floor
  <2>2. Device!Available(cfg, soe) = (soe - floor) \div StepsPerHour
    BY DEF Device!Available, floor
  <2>3. QED
    BY <1>1, <2>1, <2>2, Quotient
<1> HIDE DEF floor
<1>4. power \in Int
  BY <1>1, <1>2, <1>3 DEF Device!Dispatch, Device!Greatest, Device!Least
<1>5. online /\ soe <= cfg.nameplate /\ power > 0 => power <= Device!Available(cfg, soe)
  BY <1>1, <1>2, <1>3 DEF Device!Dispatch, Device!Greatest, Device!Least
<1> HIDE DEF power
<1>6. power <= Device!Available(cfg, soe)
        => power * StepsPerHour <= Device!Available(cfg, soe) * StepsPerHour
  BY <1>1, <1>3, <1>4
<1>7. power * StepsPerHour \in Int /\ Device!Available(cfg, soe) * StepsPerHour \in Int
  BY <1>1, <1>3, <1>4
<1>8. QED
  BY <1>1, <1>3, <1>4, <1>5, <1>6, <1>7 DEF floor, power

\* The charge after a tick lies between nothing and the capacity.
LEMMA ChargeRange ==
  ASSUME NEW cfg \in BessConfigs, NEW soe \in Nat, NEW power \in Int, NEW dt \in Int
  PROVE  /\ Device!Charge(cfg, soe, power, dt) \in Nat
         /\ Device!Charge(cfg, soe, power, dt) <= cfg.nameplate
<1> DEFINE steps == Device!Greatest(0, dt)
           moved == IF power > 0 THEN soe - power * steps * cfg.draw
                    ELSE soe + (-power * steps) \div cfg.loss
<1>1. steps \in Nat
  BY DEF Device!Greatest
<1>2. cfg.nameplate \in Nat /\ cfg.draw \in Nat /\ cfg.loss \in Nat \ {0}
  BY DEF BessConfigs
<1>3. moved \in Int
  <2>1. power * steps * cfg.draw \in Int
    BY <1>1, <1>2
  <2>2. -power * steps \in Int
    BY <1>1
  <2>3. (-power * steps) \div cfg.loss \in Int
    BY <1>2, <2>2
  <2>4. QED
    BY <2>1, <2>3
<1>4. Device!Charge(cfg, soe, power, dt) = Device!Greatest(0, Device!Least(cfg.nameplate, moved))
  BY DEF Device!Charge
<1>5. QED
  BY <1>2, <1>3, <1>4 DEF Device!Greatest, Device!Least

LEMMA TickedBattery ==
  ASSUME NEW cfg \in BessConfigs, NEW old \in Batteries, NEW power \in Int, NEW dt \in Int
  PROVE  LET new == Device!Ticked(cfg, old, power, dt)
         IN  /\ new \in Batteries
             /\ old.ticked => /\ new.soe = Device!Charge(cfg, old.soe, power, dt)
                              /\ new.soe <= cfg.nameplate /\ new.soc <= 100
             /\ ~old.ticked => new.soe = old.soe
<1>1. old.soe \in Nat /\ old = [soe |-> old.soe, soc |-> old.soc, ticked |-> old.ticked]
      /\ old.soc \in Nat
  BY DEF Batteries
<1> DEFINE soe == Device!Charge(cfg, old.soe, power, dt)
<1>2. soe \in Nat /\ soe <= cfg.nameplate
  BY <1>1, ChargeRange
<1>3. Device!Percent(soe, cfg.nameplate) \in Nat /\ Device!Percent(soe, cfg.nameplate) <= 100
  BY <1>2, Percentage DEF BessConfigs
<1> HIDE DEF soe
<1>4. CASE old.ticked
  <2>1. Device!Ticked(cfg, old, power, dt) =
          [soe |-> soe, soc |-> Device!Percent(soe, cfg.nameplate), ticked |-> TRUE]
    BY <1>4 DEF Device!Ticked, soe
  <2>2. QED
    BY <1>2, <1>3, <1>4, <2>1 DEF Batteries, soe
<1>5. CASE ~old.ticked
  <2>1. Device!Ticked(cfg, old, power, dt) = [old EXCEPT !.ticked = TRUE]
    BY <1>5 DEF Device!Ticked
  <2>2. QED
    BY <1>1, <1>5, <2>1 DEF Batteries
<1>6. QED
  BY <1>4, <1>5 DEF Batteries

LEMMA NewAndRestored ==
  ASSUME NEW cfg \in BessConfigs
  PROVE  /\ Device!NewBattery(cfg, InitialSoc) \in Batteries
         /\ \A old \in Batteries, soe \in Nat : Device!Restored(cfg, old, soe) \in Batteries
<1>1. cfg.nameplate \in Nat \ {0} /\ InitialSoc \in Nat
  BY PanelAssumption DEF BessConfigs
<1>2. Device!NewBattery(cfg, InitialSoc) \in Batteries
  <2>1. cfg.nameplate * InitialSoc \in Nat
    BY <1>1
  <2>2. (cfg.nameplate * InitialSoc) \div 100 \in Nat
    BY <2>1
  <2>3. QED
    BY <1>1, <2>2 DEF Device!NewBattery, Batteries
<1>3. ASSUME NEW old \in Batteries, NEW soe \in Nat
      PROVE  Device!Restored(cfg, old, soe) \in Batteries
  <2> DEFINE capped == Device!Greatest(0, Device!Least(cfg.nameplate, soe))
  <2>1. capped \in Nat
    BY <1>1 DEF Device!Greatest, Device!Least
  <2>2. Device!Percent(capped, cfg.nameplate) \in Nat
    BY <1>1, <2>1, Percentage
  <2>3. Device!Restored(cfg, old, soe) =
          [old EXCEPT !.soe = capped, !.soc = Device!Percent(capped, cfg.nameplate)]
    BY DEF Device!Restored
  <2> HIDE DEF capped
  <2>4. QED
    BY <2>1, <2>2, <2>3 DEF Batteries
<1>4. QED
  BY <1>2, <1>3

-----------------------------------------------------------------------------
(* The registers. *)

EnergyRegisters == [consumed : Nat, produced : Nat, ticked : BOOLEAN]

\* The time a register integrates over.
Elapsed(register, dt) == IF register.ticked /\ dt > 0 THEN dt ELSE 0

LEMMA Observed ==
  ASSUME NEW r \in EnergyRegisters, NEW power \in Int, NEW dt \in Int,
         NEW new, new = Integrator!Observe(r, power, dt)
  PROVE  /\ new \in EnergyRegisters
         /\ new.ticked
         /\ new.consumed >= r.consumed /\ new.produced >= r.produced
         /\ new.consumed = r.consumed \/ new.produced = r.produced
         /\ new.consumed > r.consumed => power > 0
         /\ new.produced > r.produced => power < 0
         /\ r.ticked /\ dt <= 0 => new = r
         /\ new.consumed - new.produced =
              (r.consumed - r.produced) + power * Elapsed(r, dt)
<1> DEFINE moved == power * Elapsed(r, dt)
<1>1. r = [consumed |-> r.consumed, produced |-> r.produced, ticked |-> r.ticked]
      /\ r.consumed \in Nat /\ r.produced \in Nat /\ r.ticked \in BOOLEAN
  BY DEF EnergyRegisters
<1>2. CASE ~r.ticked
  <2>1. new = [r EXCEPT !.ticked = TRUE] /\ moved = 0
    BY <1>2 DEF Integrator!Observe, Elapsed
  <2> HIDE DEF moved
  <2>2. new.consumed = r.consumed /\ new.produced = r.produced /\ new.ticked
        /\ new \in EnergyRegisters
    BY <1>1, <2>1 DEF EnergyRegisters
  <2>3. new.consumed - new.produced = (r.consumed - r.produced) + moved
    BY <1>1, <2>1, <2>2
  <2>4. QED
    BY <1>1, <1>2, <2>2, <2>3 DEF moved
<1>3. CASE r.ticked /\ dt <= 0
  <2>1. new = r /\ moved = 0
    BY <1>3 DEF Integrator!Observe, Elapsed
  <2> HIDE DEF moved
  <2>2. new.consumed - new.produced = (r.consumed - r.produced) + moved
    BY <1>1, <2>1
  <2>3. QED
    BY <1>1, <1>3, <2>1, <2>2 DEF moved
<1>4. CASE r.ticked /\ dt > 0
  <2>1. /\ moved = power * dt /\ moved \in Int
        /\ power >= 0 => moved >= 0
        /\ power <= 0 => moved <= 0
        /\ moved < 0 => power < 0
    BY <1>4, Products DEF Elapsed
  <2>2. /\ power > 0 => new = [r EXCEPT !.consumed = @ + moved]
        /\ ~(power > 0) => new = [r EXCEPT !.produced = @ - moved]
    BY <1>4, <2>1 DEF Integrator!Observe
  <2> HIDE DEF moved
  <2>3. CASE power > 0
    <3>1. new.consumed = r.consumed + moved /\ new.produced = r.produced /\ new.ticked
          /\ new \in EnergyRegisters
      BY <1>1, <1>4, <2>1, <2>2, <2>3 DEF EnergyRegisters
    <3>2. new.consumed - new.produced = (r.consumed - r.produced) + moved
      BY <1>1, <2>1, <3>1
    <3>3. QED
      BY <1>1, <1>4, <2>1, <2>3, <3>1, <3>2 DEF moved
  <2>4. CASE power <= 0
    <3>1. new.produced = r.produced - moved /\ new.consumed = r.consumed /\ new.ticked
          /\ new \in EnergyRegisters
      BY <1>1, <1>4, <2>1, <2>2, <2>4 DEF EnergyRegisters
    <3>2. new.consumed - new.produced = (r.consumed - r.produced) + moved
      BY <1>1, <2>1, <3>1
    <3>3. QED
      BY <1>1, <1>4, <2>1, <2>4, <3>1, <3>2 DEF moved
  <2>5. QED
    BY <2>3, <2>4
<1>5. QED
  BY <1>1, <1>2, <1>3, <1>4

-----------------------------------------------------------------------------
(* The panel meter. *)

\* No circuit is booked twice.
FeedsBookedOnce == SolarCircuits \intersect BatteryCircuits = {}

LEMMA PowersAddUp ==
  ASSUME NEW powers \in [Circuits -> Int], NEW cs \in SUBSET Circuits
  PROVE  IsFiniteSet(cs) /\ Meter!Sum(powers, cs) \in Int
<1>1. IsFiniteSet(cs)
  BY PanelAssumption, FS_Subset
<1>2. SumFunctionOnSet(powers, cs) \in Int
  BY <1>1, SumInt
<1>3. QED
  BY <1>1, <1>2, MeterSum

LEMMA BatteryCircuitsAreCircuits ==
  SolarCircuits \subseteq Circuits /\ BatteryCircuits \subseteq Circuits
  BY PanelAssumption DEF SolarCircuits, BatteryCircuits

LEMMA BookedInt ==
  ASSUME NEW powers \in [Circuits -> Int]
  PROVE  /\ Meter!PvAvailable(powers) \in Int /\ Meter!LoadDemand(powers) \in Int
         /\ Meter!BatteryBreakers(powers) \in Int
         /\ Meter!UpstreamActive(powers) \in Int
<1>1. ASSUME NEW cs \in SUBSET Circuits PROVE Meter!Sum(powers, cs) \in Int
  BY PowersAddUp
<1>2. /\ Meter!Producing(powers) \in SUBSET Circuits
      /\ Meter!Drawing(powers) \in SUBSET Circuits
  BY DEF Meter!Producing, Meter!Drawing
<1>3. Meter!PvAvailable(powers) \in Int
  <2>1. CASE by_role
    BY <1>1, <2>1, BatteryCircuitsAreCircuits DEF Meter!PvAvailable
  <2>2. CASE ~by_role
    BY <1>1, <1>2, <2>2 DEF Meter!PvAvailable
  <2>3. QED
    BY <2>1, <2>2
<1>4. Meter!LoadDemand(powers) \in Int
  BY <1>1, <1>2, BatteryCircuitsAreCircuits DEF Meter!LoadDemand
<1>5. Meter!BatteryBreakers(powers) \in Int
  BY <1>1, <1>2, BatteryCircuitsAreCircuits DEF Meter!BatteryBreakers
<1>6. QED
  BY <1>3, <1>4, <1>5 DEF Meter!UpstreamActive

LEMMA ReadingInt ==
  ASSUME NEW powers \in [Circuits -> Int], NEW bess \in Int, NEW online \in BOOLEAN,
         NEW r, r = Meter!Resolve(powers, bess, online)
  PROVE  /\ r.grid \in Int /\ r.upstream \in Int /\ r.feedthrough \in Int
         /\ r.feedthrough = Meter!Sum(powers, Meter!Downstream)
         /\ r.upstream = IF online THEN Meter!UpstreamActive(powers) ELSE 0
         /\ r.grid = IF online THEN Meter!UpstreamActive(powers) - bess ELSE 0
         /\ Meter!FlowSum(r) = IF online THEN 0 ELSE Meter!UpstreamActive(powers) - bess
<1> DEFINE pv == Meter!PvAvailable(powers)
           load == Meter!LoadDemand(powers)
           breakers == Meter!BatteryBreakers(powers)
           upstream == Meter!UpstreamActive(powers)
           grid == IF online THEN upstream - bess ELSE 0
<1>1. pv \in Int /\ load \in Int /\ breakers \in Int /\ upstream \in Int
  BY BookedInt
<1>2. upstream = load - pv + breakers
  BY DEF Meter!UpstreamActive
<1>3. Meter!Downstream \subseteq Circuits
  BY DEF Meter!Downstream
<1>4. Meter!Sum(powers, Meter!Downstream) \in Int
  BY <1>3, PowersAddUp
<1> HIDE DEF pv, load, breakers, upstream
<1>5. r = [grid        |-> grid,
           upstream    |-> IF online THEN upstream ELSE 0,
           feedthrough |-> Meter!Sum(powers, Meter!Downstream),
           flows |-> [pv |-> -pv, battery |-> breakers - bess, grid |-> -grid, site |-> load]]
  BY DEF Meter!Resolve, Meter!GridPower, pv, load, breakers, upstream
<1>6. Meter!FlowSum(r) = -pv + (breakers - bess) + (-grid) + load
  BY <1>5 DEF Meter!FlowSum
<1>7. Meter!FlowSum(r) = IF online THEN 0 ELSE upstream - bess
  BY <1>1, <1>2, <1>6
<1>8. QED
  BY <1>1, <1>4, <1>5, <1>7 DEF upstream

\* The upstream flow is every circuit, as long as none is booked twice.
LEMMA UpstreamIsEveryCircuit ==
  ASSUME NEW powers \in [Circuits -> Int], by_role => FeedsBookedOnce
  PROVE  Meter!UpstreamActive(powers) = Meter!Sum(powers, Circuits)
<1> DEFINE Sum(cs) == SumFunctionOnSet(powers, cs)
<1>1. ASSUME NEW A \in SUBSET Circuits, NEW B \in SUBSET Circuits, A \intersect B = {}
      PROVE  Sum(A \union B) = Sum(A) + Sum(B)
  <2>1. IsFiniteSet(A \union B)
    BY PanelAssumption, FS_Subset
  <2>2. QED
    BY <1>1, <2>1, SumOfParts
<1>2. ASSUME NEW A \in SUBSET Circuits PROVE Sum(A) \in Int
  BY MeterSum, PowersAddUp
<1>3. \A cs : Meter!Sum(powers, cs) = Sum(cs)
  BY MeterSum
<1>4. SolarCircuits \in SUBSET Circuits /\ BatteryCircuits \in SUBSET Circuits
  BY BatteryCircuitsAreCircuits
<1>5. CASE by_role
  <2> DEFINE Booked == SolarCircuits \union BatteryCircuits
             Rest == Circuits \ Booked
  <2>1. /\ Meter!PvAvailable(powers) = -Sum(SolarCircuits)
        /\ Meter!LoadDemand(powers) = Sum(Rest)
        /\ Meter!BatteryBreakers(powers) = Sum(BatteryCircuits)
    BY <1>3, <1>5 DEF Meter!PvAvailable, Meter!LoadDemand, Meter!BatteryBreakers
  <2> HIDE DEF Sum
  <2>2. Sum(Booked) = Sum(SolarCircuits) + Sum(BatteryCircuits)
    BY <1>1, <1>4, <1>5 DEF FeedsBookedOnce
  <2>3. Sum(Circuits) = Sum(Rest) + Sum(Booked)
    <3>1. Rest \in SUBSET Circuits /\ Booked \in SUBSET Circuits /\ Rest \intersect Booked = {}
          /\ Rest \union Booked = Circuits
      BY <1>4
    <3>2. QED
      BY <1>1, <3>1
  <2>4. Rest \in SUBSET Circuits
    OBVIOUS
  <2> HIDE DEF Rest, Booked
  <2>5. Meter!UpstreamActive(powers) = Sum(Rest) - (-Sum(SolarCircuits)) + Sum(BatteryCircuits)
    BY <2>1 DEF Meter!UpstreamActive
  <2>6. QED
    BY <1>2, <1>3, <1>4, <2>2, <2>3, <2>4, <2>5
<1>6. CASE ~by_role
  <2> DEFINE Drawing == {c \in Circuits : powers[c] > 0}
             Producing == {c \in Circuits : powers[c] < 0}
  <2>1. /\ Meter!PvAvailable(powers) = -Sum(Producing)
        /\ Meter!LoadDemand(powers) = Sum(Drawing)
        /\ Meter!BatteryBreakers(powers) = Sum({})
    BY <1>3, <1>6 DEF Meter!PvAvailable, Meter!LoadDemand, Meter!BatteryBreakers,
         Meter!Drawing, Meter!Producing
  <2>2. Sum({}) = 0
    BY FS_EmptySet, SumUnfolds
  <2>3. Sum(Circuits) = Sum(Drawing \union Producing)
    <3>1. /\ Drawing \union Producing \in SUBSET Circuits
          /\ \A c \in Circuits \ (Drawing \union Producing) : powers[c] = 0
      OBVIOUS
    <3>2. QED
      BY <3>1, PanelAssumption, SumWithoutZeros
  <2>4. Drawing \in SUBSET Circuits /\ Producing \in SUBSET Circuits
        /\ Drawing \intersect Producing = {}
    OBVIOUS
  <2> HIDE DEF Sum, Drawing, Producing
  <2>5. Sum(Drawing \union Producing) = Sum(Drawing) + Sum(Producing)
    BY <1>1, <2>4
  <2>6. Meter!UpstreamActive(powers) = Sum(Drawing) - (-Sum(Producing)) + 0
    BY <2>1, <2>2 DEF Meter!UpstreamActive
  <2>7. QED
    BY <1>2, <1>3, <2>3, <2>4, <2>5, <2>6
<1>7. QED
  BY <1>5, <1>6

-----------------------------------------------------------------------------
(* The start. *)

LEMMA TypeInit == Init => TypeOK
<1> SUFFICES ASSUME Init PROVE TypeOK
  OBVIOUS
<1>1. by_role \in BOOLEAN /\ user_overrides \in [Circuits -> Relays!Overrides]
      /\ shed \in [Circuits -> BOOLEAN] /\ gated \in [Circuits -> Int]
      /\ dispatch \in [Bess -> Int] /\ ticks \in 0 .. MaxTicks /\ forward \in Nat
  BY PanelAssumption DEF Init, Relays!Overrides, NoPower
<1>2. Configured \subseteq Bess /\ config \in [Configured -> Configs \union Range(InitialConfigs)]
      /\ config \in [Configured -> BessConfigs]
  BY PanelAssumption DEF Init, Configured, Range
<1>3. battery \in [Configured -> [soe : Nat, soc : Nat, ticked : BOOLEAN]]
  <2>1. \A b \in Configured : Device!NewBattery(config[b], InitialSoc) \in Batteries
    BY <1>2, NewAndRestored
  <2>2. QED
    BY <2>1 DEF Init, Batteries
<1>4. energy \in [Meters -> [consumed : Nat, produced : Nat, ticked : BOOLEAN]]
  <2>1. \A c \in Circuits : InitialEnergy[c].consumed \in Nat /\ InitialEnergy[c].produced \in Nat
    BY PanelAssumption
  <2>2. QED
    BY <2>1 DEF Init, Integrator!Seeded, Integrator!NewRegister
<1>5. tick \in [grid_online : BOOLEAN, dt : Intervals \union {0}, powers : [Circuits -> Int]]
  BY DEF Init, NoPower
<1>6. QED
  BY <1>1, <1>2, <1>3, <1>4, <1>5 DEF TypeOK

LEMMA NothingFlows ==
  ASSUME NEW S, IsFiniteSet(S), NEW f, \A x \in S : f[x] = 0
  PROVE  SumFunctionOnSet(f, S) = 0
<1>1. SumFunctionOnSet(f, S) = SumFunctionOnSet(f, {})
  BY SumWithoutZeros
<1>2. QED
  BY <1>1, FS_EmptySet, SumUnfolds

LEMMA InitHolds == Init => IInv
<1> SUFFICES ASSUME Init PROVE IInv
  OBVIOUS
<1>1. ReadingInv
  <2>1. Meter!Sum(dispatch, Bess) = 0
    BY PanelAssumption, MeterSum, NothingFlows DEF Init
  <2>2. QED
    BY <2>1 DEF Init, ReadingInv
<1>2. TickedInv
  <2>1. Registers \subseteq Meters
    BY DEF Registers
  <2>2. \A m \in Meters : ~energy[m].ticked
    BY DEF Init, Integrator!Seeded, Integrator!NewRegister
  <2>3. ticks = 0
    BY DEF Init
  <2>4. QED
    BY <2>1, <2>2, <2>3 DEF TickedInv
<1>3. DownstreamLugsAgree
  <2> DEFINE Net == [c \in Circuits |->
                       (WireExported(c) - InitialEnergy[c].consumed)
                         - (WireImported(c) - InitialEnergy[c].produced)]
  <2>1. \A c \in Circuits : /\ energy[c].consumed = InitialEnergy[c].consumed
                            /\ energy[c].produced = InitialEnergy[c].produced
                            /\ InitialEnergy[c].consumed \in Nat /\ InitialEnergy[c].produced \in Nat
    BY PanelAssumption DEF Init, Meters, Integrator!Seeded, Integrator!NewRegister
  <2>2. \A c \in Circuits : Net[c] = 0
    BY <2>1 DEF WireExported, WireImported, Bag!CircuitExported, Bag!CircuitImported
  <2>3. Meter!Downstream \subseteq Circuits
    BY DEF Meter!Downstream
  <2>4. IsFiniteSet(Meter!Downstream)
    BY <2>3, PanelAssumption, FS_Subset
  <2> HIDE DEF Net
  <2>5. Meter!Sum(Net, Meter!Downstream) = 0
    BY <2>2, <2>3, <2>4, MeterSum, NothingFlows
  <2>6. DownstreamLugs \in Meters /\ DownstreamLugs \notin Circuits
    BY PanelAssumption DEF Meters, LugsAndCt
  <2>7. WireImported(DownstreamLugs) = 0 /\ WireExported(DownstreamLugs) = 0
    BY <2>6 DEF Init, WireImported, WireExported, Integrator!NewRegister
  <2>8. QED
    BY <2>5, <2>7 DEF DownstreamLugsAgree, Net
<1>4. QED
  BY <1>1, <1>2, <1>3, TypeInit DEF IInv

-----------------------------------------------------------------------------
(* The commands between two ticks. *)

LEMMA ConfigsTyped ==
  ASSUME TypeOK
  PROVE  config \in [Configured -> BessConfigs] /\ battery \in [Configured -> Batteries]
<1>1. Configs \union Range(InitialConfigs) \subseteq BessConfigs
  BY PanelAssumption DEF Range
<1>2. QED
  BY <1>1 DEF TypeOK, Batteries

LEMMA RelayStep ==
  ASSUME TypeOK, NEW c \in Circuits, NEW v \in Relays!RelayStates, OnCircuitRelay(c, v)
  PROVE  TypeOK'
<1>1. user_overrides' \in [Circuits -> Relays!Overrides]
  BY DEF TypeOK, OnCircuitRelay, Relays!SetUserOverride, Relays!Overrides
<1>2. QED
  BY <1>1 DEF TypeOK, OnCircuitRelay, Relays!SetUserOverride, Configured, published

LEMMA ConfigStep ==
  ASSUME TypeOK, NEW b \in Bess, NEW cfg \in Configs, UpdateBessConfig(b, cfg)
  PROVE  TypeOK'
<1>1. Configured' = Configured \union {b}
  BY DEF UpdateBessConfig, Configured
<1>2. config' \in [Configured' -> Configs \union Range(InitialConfigs)]
  BY <1>1 DEF TypeOK, UpdateBessConfig
<1>3. battery' \in [Configured' -> [soe : Nat, soc : Nat, ticked : BOOLEAN]]
  <2>1. cfg \in BessConfigs
    BY PanelAssumption
  <2>2. Device!NewBattery(cfg, InitialSoc) \in Batteries
    BY <2>1, NewAndRestored
  <2>3. QED
    BY <1>1, <2>2 DEF TypeOK, UpdateBessConfig, Batteries
<1>4. Configured' \subseteq Bess
  BY <1>1 DEF TypeOK
<1>5. QED
  BY <1>2, <1>3, <1>4 DEF TypeOK, UpdateBessConfig, published

LEMMA SeedStep ==
  ASSUME TypeOK, NEW b \in Bess, NEW cfg \in Configs, SeedBessSoe(b, cfg.nameplate)
  PROVE  TypeOK'
<1>1. battery' \in [Configured -> [soe : Nat, soc : Nat, ticked : BOOLEAN]]
  <2>1. b \in Configured /\ cfg.nameplate \in Nat
    BY PanelAssumption DEF SeedBessSoe, BessConfigs
  <2>2. battery \in [Configured -> Batteries] /\ config[b] \in BessConfigs
    BY <2>1, ConfigsTyped
  <2>3. Device!Restored(config[b], battery[b], cfg.nameplate) \in Batteries
    BY <2>1, <2>2, NewAndRestored
  <2>4. battery' = [battery EXCEPT ![b] = Device!Restored(config[b], battery[b], cfg.nameplate)]
    BY DEF SeedBessSoe
  <2>5. QED
    BY <2>1, <2>2, <2>3, <2>4 DEF Batteries
<1>2. QED
  BY <1>1 DEF TypeOK, SeedBessSoe, Configured, published

LEMMA MetersStay ==
  ASSUME IInv, UNCHANGED published
  PROVE  ReadingInv' /\ TickedInv' /\ DownstreamLugsAgree'
<1>1. ReadingInv'
  BY DEF IInv, ReadingInv, published, Meter!Sum, Meter!Resolve, Meter!PvAvailable,
     Meter!LoadDemand, Meter!BatteryBreakers, Meter!UpstreamActive, Meter!GridPower
<1>2. TickedInv'
  BY DEF IInv, TickedInv, published, Registers
<1>3. DownstreamLugsAgree'
  BY DEF IInv, DownstreamLugsAgree, WireImported, WireExported, published
<1>4. QED
  BY <1>1, <1>2, <1>3

-----------------------------------------------------------------------------
(* The tick. *)

\* What the parts of a tick are.
LEMMA TickParts ==
  ASSUME TypeOK, NEW t \in TickInputs, PublishTick(t)
  PROVE  /\ t.dt \in Int /\ t.grid_online \in BOOLEAN /\ t.powers \in [Circuits -> Int]
         /\ dispatch' \in [Bess -> Int] /\ battery' \in [Configured -> Batteries]
         /\ gated' \in [Circuits -> Int]
         /\ Meter!Sum(dispatch', Bess) \in Int
         /\ RawLoad(t.powers) \in Int /\ RawPv(t.powers) \in Int
<1>1. t.dt \in Int /\ t.grid_online \in BOOLEAN /\ t.powers \in [Circuits -> Int]
  BY PanelAssumption DEF TickInputs
<1>2. RawLoad(t.powers) \in Int /\ RawPv(t.powers) \in Int
  <2>1. /\ Meter!Drawing(t.powers) \in SUBSET Circuits
        /\ Meter!Producing(t.powers) \in SUBSET Circuits
    BY DEF Meter!Drawing, Meter!Producing
  <2>2. /\ Meter!Sum(t.powers, Meter!Drawing(t.powers)) \in Int
        /\ Meter!Sum(t.powers, Meter!Producing(t.powers)) \in Int
    BY <1>1, <2>1, PowersAddUp
  <2>3. QED
    BY <2>2 DEF RawLoad, RawPv
<1>3. config \in [Configured -> BessConfigs] /\ battery \in [Configured -> Batteries]
  BY ConfigsTyped
<1>4. dispatch' \in [Bess -> Int]
  <2>1. ASSUME NEW b \in Configured
        PROVE  Device!Dispatch(config[b], battery[b].soe, t.grid_online,
                               RawLoad(t.powers), RawPv(t.powers)) \in Int
    BY <1>1, <1>2, <1>3, DispatchBound DEF Batteries
  <2>2. QED
    BY <2>1 DEF PublishTick, DispatchOf
<1>5. battery' \in [Configured -> Batteries]
  <2>1. ASSUME NEW b \in Configured
        PROVE  Device!Ticked(config[b], battery[b], dispatch'[b], t.dt) \in Batteries
    <3>1. b \in Bess
      BY DEF TypeOK
    <3>2. QED
      BY <1>1, <1>3, <1>4, <3>1, TickedBattery
  <2>2. battery' = [b \in Configured |-> Device!Ticked(config[b], battery[b], dispatch'[b], t.dt)]
    BY DEF PublishTick
  <2>3. QED
    BY <2>1, <2>2
<1>6. gated' \in [Circuits -> Int]
  BY <1>1 DEF PublishTick, Gated
<1>7. Meter!Sum(dispatch', Bess) \in Int
  BY <1>4, PanelAssumption, SumInt, MeterSum
<1>8. QED
  BY <1>1, <1>2, <1>4, <1>5, <1>6, <1>7

\* Every published register observes its own meter; the others stay.
LEMMA RegistersObserve ==
  ASSUME TypeOK, NEW t \in TickInputs, PublishTick(t)
  PROVE  /\ \A m \in Meters : Metered(m, gated', reading') \in Int
         /\ \A m \in Registers :
              energy'[m] = Integrator!Observe(energy[m], Metered(m, gated', reading'), t.dt)
         /\ \A m \in Meters \ Registers : energy'[m] = energy[m]
         /\ energy' \in [Meters -> EnergyRegisters]
<1>1. reading'.grid \in Int /\ reading'.upstream \in Int /\ reading'.feedthrough \in Int
  <2>1. reading' = Meter!Resolve(gated', Meter!Sum(dispatch', Bess), t.grid_online)
    BY DEF PublishTick
  <2>2. QED
    BY <2>1, TickParts, ReadingInt
<1>2. ASSUME NEW m \in Meters PROVE Metered(m, gated', reading') \in Int
  BY <1>1, TickParts DEF Metered, Meters
<1>3. Registers \subseteq Meters
  BY DEF Registers
<1>4. energy' = [m \in Meters |->
                   IF m \in Registers
                   THEN Integrator!Observe(energy[m], Metered(m, gated', reading'), t.dt)
                   ELSE energy[m]]
  BY DEF PublishTick
<1>5. \A m \in Meters : energy[m] \in EnergyRegisters
  BY DEF TypeOK, EnergyRegisters
<1>6. \A m \in Meters :
        Integrator!Observe(energy[m], Metered(m, gated', reading'), t.dt) \in EnergyRegisters
  BY <1>2, <1>5, TickParts, Observed
<1>7. QED
  BY <1>2, <1>3, <1>4, <1>5, <1>6

LEMMA TickTypes ==
  ASSUME TypeOK, ticks < MaxTicks, NEW t \in TickInputs, PublishTick(t)
  PROVE  TypeOK'
<1>1. Configured' = Configured /\ config' = config /\ by_role' = by_role
      /\ user_overrides' = user_overrides
  BY DEF PublishTick, Configured
<1>2. energy' \in [Meters -> EnergyRegisters]
  BY RegistersObserve
<1>3. shed' \in [Circuits -> BOOLEAN]
  BY DEF PublishTick
<1>4. tick' \in [grid_online : BOOLEAN, dt : Intervals \union {0}, powers : [Circuits -> Int]]
  BY PanelAssumption DEF PublishTick, TickInputs
<1>5. ticks' \in 0 .. MaxTicks
  BY PanelAssumption DEF TypeOK, PublishTick
<1>6. forward' \in Nat
  BY TickParts DEF TypeOK, PublishTick
<1>7. QED
  BY <1>1, <1>2, <1>3, <1>4, <1>5, <1>6, TickParts DEF TypeOK, EnergyRegisters, Batteries

\* What flows into the circuits behind the lugs in a tick flows through the lugs.
LEMMA LugsStep ==
  ASSUME IInv, NEW t \in TickInputs, PublishTick(t)
  PROVE  DownstreamLugsAgree'
<1> DEFINE e == IF ticks > 0 /\ t.dt > 0 THEN t.dt ELSE 0
           net == [c \in Circuits |->
                     (WireExported(c) - InitialEnergy[c].consumed)
                       - (WireImported(c) - InitialEnergy[c].produced)]
           net2 == [c \in Circuits |->
                     (energy'[c].consumed - InitialEnergy[c].consumed)
                       - (energy'[c].produced - InitialEnergy[c].produced)]
           flow == [c \in Circuits |-> gated'[c] * e]
           lugs == Meter!Sum(gated', Meter!Downstream)
<1>1. e \in Int
  BY TickParts DEF IInv
<1>2. /\ energy \in [Meters -> EnergyRegisters] /\ energy' \in [Meters -> EnergyRegisters]
      /\ Circuits \subseteq Registers /\ DownstreamLugs \in Registers \ Circuits
      /\ Registers \subseteq Meters
  BY RegistersObserve, PanelAssumption
     DEF IInv, TypeOK, EnergyRegisters, Registers, Meters, LugsAndCt
<1>3. gated' \in [Circuits -> Int] /\ t.dt \in Int
  BY TickParts DEF IInv
<1>4. ASSUME NEW m \in Registers
      PROVE  energy'[m].consumed - energy'[m].produced =
               (energy[m].consumed - energy[m].produced) + Metered(m, gated', reading') * e
  <2>1. Elapsed(energy[m], t.dt) = e
    BY <1>4 DEF IInv, TickedInv, Elapsed
  <2>2. energy'[m] = Integrator!Observe(energy[m], Metered(m, gated', reading'), t.dt)
        /\ Metered(m, gated', reading') \in Int
    BY <1>2, RegistersObserve DEF IInv
  <2>3. energy[m] \in EnergyRegisters
    BY <1>2
  <2> HIDE DEF e
  <2>4. energy'[m].consumed - energy'[m].produced =
          (energy[m].consumed - energy[m].produced)
            + Metered(m, gated', reading') * Elapsed(energy[m], t.dt)
    BY <1>3, <2>2, <2>3, Observed
  <2>5. QED
    BY <2>1, <2>4
<1>5. Metered(DownstreamLugs, gated', reading') = lugs
  <2>1. reading' = Meter!Resolve(gated', Meter!Sum(dispatch', Bess), t.grid_online)
    BY DEF PublishTick
  <2>2. reading'.feedthrough = lugs
    BY <2>1, TickParts, ReadingInt DEF IInv
  <2>3. QED
    BY <1>2, <2>2 DEF Metered
<1> HIDE DEF e
<1>6. ASSUME NEW c \in Circuits
      PROVE  /\ net[c] \in Int /\ flow[c] \in Int
             /\ net2[c] = net[c] + flow[c]
  <2>1. /\ energy'[c].consumed - energy'[c].produced =
             (energy[c].consumed - energy[c].produced) + gated'[c] * e
    BY <1>2, <1>4 DEF Metered
  <2>2. gated'[c] * e \in Int
    BY <1>1, <1>3
  <2>3. net[c] = (energy[c].consumed - InitialEnergy[c].consumed)
                   - (energy[c].produced - InitialEnergy[c].produced)
    BY DEF WireExported, WireImported, Bag!CircuitExported, Bag!CircuitImported
  <2>4. /\ energy[c].consumed \in Nat /\ energy[c].produced \in Nat
        /\ energy'[c].consumed \in Nat /\ energy'[c].produced \in Nat
        /\ InitialEnergy[c].consumed \in Nat /\ InitialEnergy[c].produced \in Nat
    BY <1>2, PanelAssumption DEF EnergyRegisters
  <2>5. net2[c] = (energy'[c].consumed - InitialEnergy[c].consumed)
                    - (energy'[c].produced - InitialEnergy[c].produced)
        /\ flow[c] = gated'[c] * e
    OBVIOUS
  <2> HIDE DEF net, net2, flow
  <2>6. QED
    BY <2>1, <2>2, <2>3, <2>4, <2>5
<1>7. Meter!Downstream \subseteq Circuits /\ IsFiniteSet(Meter!Downstream)
  BY PanelAssumption, FS_Subset DEF Meter!Downstream
<1>8. SumFunctionOnSet(flow, Meter!Downstream) = lugs * e
  <2>1. \A c \in Meter!Downstream : gated'[c] \in Int /\ flow[c] = gated'[c] * e
    BY <1>3, <1>7
  <2> HIDE DEF flow
  <2>2. SumFunctionOnSet(flow, Meter!Downstream) = SumFunctionOnSet(gated', Meter!Downstream) * e
    BY <1>1, <1>7, <2>1, SumScaled
  <2>3. QED
    BY <2>2, MeterSum
<1>9. Meter!Sum(net2, Meter!Downstream) = Meter!Sum(net, Meter!Downstream) + lugs * e
  <2> HIDE DEF net, net2, flow, lugs
  <2>1. SumFunctionOnSet(net2, Meter!Downstream) =
          SumFunctionOnSet(net, Meter!Downstream) + SumFunctionOnSet(flow, Meter!Downstream)
    BY <1>6, <1>7, SumOfSums
  <2>2. QED
    BY <1>8, <2>1, MeterSum
<1>10. energy[DownstreamLugs].consumed - energy[DownstreamLugs].produced =
         Meter!Sum(net, Meter!Downstream)
  BY <1>2 DEF IInv, DownstreamLugsAgree, WireImported, WireExported
<1>11. energy'[DownstreamLugs].consumed - energy'[DownstreamLugs].produced =
         Meter!Sum(net2, Meter!Downstream)
  <2>1. energy'[DownstreamLugs].consumed - energy'[DownstreamLugs].produced =
          (energy[DownstreamLugs].consumed - energy[DownstreamLugs].produced) + lugs * e
    BY <1>2, <1>4, <1>5
  <2> HIDE DEF net, net2, lugs
  <2>2. QED
    BY <1>9, <1>10, <2>1
<1>12. net2 = [c \in Circuits |->
                 (WireExported(c)' - InitialEnergy[c].consumed)
                   - (WireImported(c)' - InitialEnergy[c].produced)]
  BY DEF WireExported, WireImported, Bag!CircuitExported, Bag!CircuitImported
<1>13. WireImported(DownstreamLugs)' - WireExported(DownstreamLugs)' =
         energy'[DownstreamLugs].consumed - energy'[DownstreamLugs].produced
  BY <1>2 DEF WireImported, WireExported
<1> HIDE DEF net2
<1>14. QED
  BY <1>11, <1>12, <1>13 DEF DownstreamLugsAgree

LEMMA TickHolds ==
  ASSUME IInv, ticks < MaxTicks, NEW t \in TickInputs, PublishTick(t)
  PROVE  IInv'
<1>1. TypeOK'
  BY TickTypes DEF IInv
<1>2. ReadingInv'
  <2>1. reading' = Meter!Resolve(gated', Meter!Sum(dispatch', Bess), t.grid_online)
        /\ tick' = t /\ by_role' = by_role
    BY DEF PublishTick
  <2>2. QED
    BY <2>1 DEF ReadingInv, Meter!Sum, Meter!Resolve, Meter!PvAvailable,
       Meter!LoadDemand, Meter!BatteryBreakers, Meter!UpstreamActive, Meter!GridPower
<1>3. TickedInv'
  <2>1. Registers' = Registers
    BY DEF PublishTick, Registers
  <2>2. ticks \in Nat /\ ticks' > 0
    BY PanelAssumption DEF IInv, TypeOK, PublishTick
  <2>3. ASSUME NEW m \in Registers PROVE energy'[m].ticked
    <3>1. energy[m] \in EnergyRegisters /\ m \in Meters
      BY DEF IInv, TypeOK, EnergyRegisters, Registers
    <3>2. energy'[m] = Integrator!Observe(energy[m], Metered(m, gated', reading'), t.dt)
          /\ Metered(m, gated', reading') \in Int /\ t.dt \in Int
      BY <3>1, RegistersObserve, TickParts DEF IInv
    <3>3. QED
      BY <3>1, <3>2, Observed
  <2>4. QED
    BY <2>1, <2>2, <2>3 DEF TickedInv
<1>4. DownstreamLugsAgree'
  BY LugsStep
<1>5. QED
  BY <1>1, <1>2, <1>3, <1>4 DEF IInv

-----------------------------------------------------------------------------
(* The invariant. *)

LEMMA NextHolds == IInv /\ [Next]_vars => IInv'
<1> SUFFICES ASSUME IInv, [Next]_vars PROVE IInv'
  OBVIOUS
<1>1. ASSUME NEW c \in Circuits, NEW v \in Relays!RelayStates, OnCircuitRelay(c, v)
      PROVE  IInv'
  <2>1. UNCHANGED published
    BY <1>1 DEF OnCircuitRelay
  <2>2. QED
    BY <1>1, <2>1, RelayStep, MetersStay DEF IInv
<1>2. ASSUME NEW b \in Bess, NEW cfg \in Configs, UpdateBessConfig(b, cfg) PROVE IInv'
  <2>1. UNCHANGED published
    BY <1>2 DEF UpdateBessConfig
  <2>2. QED
    BY <1>2, <2>1, ConfigStep, MetersStay DEF IInv
<1>3. ASSUME NEW b \in Bess, NEW cfg \in Configs, SeedBessSoe(b, cfg.nameplate) PROVE IInv'
  <2>1. UNCHANGED published
    BY <1>3 DEF SeedBessSoe
  <2>2. QED
    BY <1>3, <2>1, SeedStep, MetersStay DEF IInv
<1>4. ASSUME ticks < MaxTicks, NEW t \in TickInputs, PublishTick(t) PROVE IInv'
  BY <1>4, TickHolds
<1>5. CASE UNCHANGED vars
  <2>1. TypeOK' /\ UNCHANGED published
    BY <1>5 DEF vars, published, IInv, TypeOK, Configured
  <2>2. QED
    BY <2>1, MetersStay DEF IInv
<1>6. QED
  BY <1>1, <1>2, <1>3, <1>4, <1>5 DEF Next

\* The inductive invariant: the types, the panel meter's reading following from
\* the powers it was given, all registers observed as often, and the lugs.
THEOREM PanelInvariance == Spec => []IInv
<1>1. QED
  BY InitHolds, NextHolds, PTL DEF Spec

\* Charges and registers never go below zero and all the rest keeps its type,
\* whatever a producer reads and however an operator reconfigures the batteries.
THEOREM TypesKept == Spec => []TypeOK
<1>1. IInv => TypeOK
  BY DEF IInv
<1>2. QED
  BY <1>1, PanelInvariance, PTL

\* The downstream lugs' registers and those of the circuits behind them never
\* drift apart, though they are integrated in different steps of the tick and
\* published in opposite frames.
THEOREM LugsAgree == Spec => []DownstreamLugsAgree
<1>1. IInv => DownstreamLugsAgree
  BY DEF IInv
<1>2. QED
  BY <1>1, PanelInvariance, PTL

\* The four flows sum to zero on grid however the circuits are booked; off grid
\* they do when the dispatch covers the net load, if no circuit is booked twice.
THEOREM FlowsBalance ==
  Spec => [](/\ tick.grid_online => Meter!FlowSum(reading) = 0
             /\ (by_role => FeedsBookedOnce) => FlowsBalanceWhenCovered)
<1> DEFINE P == /\ tick.grid_online => Meter!FlowSum(reading) = 0
                /\ (by_role => FeedsBookedOnce) => FlowsBalanceWhenCovered
<1>1. ASSUME IInv PROVE P
  <2>1. gated \in [Circuits -> Int] /\ tick.grid_online \in BOOLEAN
        /\ Meter!Sum(dispatch, Bess) \in Int
    BY <1>1, PanelAssumption, SumInt, MeterSum DEF IInv, TypeOK
  <2>2. Meter!FlowSum(reading) =
          IF tick.grid_online THEN 0
          ELSE Meter!UpstreamActive(gated) - Meter!Sum(dispatch, Bess)
    BY <1>1, <2>1, ReadingInt DEF IInv, ReadingInv
  <2>3. (by_role => FeedsBookedOnce) => Meter!UpstreamActive(gated) = Meter!Sum(gated, Circuits)
    BY <2>1, UpstreamIsEveryCircuit
  <2>4. QED
    BY <2>1, <2>2, <2>3 DEF FlowsBalanceWhenCovered
<1>2. QED
  BY <1>1, PanelInvariance, PTL

\* Kirchhoff's law holds of the published meters on grid at every firmware, if no
\* circuit is booked twice: one that has the SOLAR role and feeds a battery would
\* be, and nothing refuses it.
THEOREM MetersBalance == Spec => []((by_role => FeedsBookedOnce) => WireMetersBalance)
<1>1. ASSUME IInv, by_role => FeedsBookedOnce, tick.grid_online
      PROVE  WireMetersBalance
  <2> DEFINE wire == [c \in Circuits |-> WirePower(c)]
             bess == Meter!Sum(dispatch, Bess)
  <2>1. /\ gated \in [Circuits -> Int] /\ dispatch \in [Bess -> Int] /\ bess \in Int
        /\ tick.grid_online \in BOOLEAN
    BY <1>1, PanelAssumption, SumInt, MeterSum DEF IInv, TypeOK
  <2>2. /\ reading.upstream = Meter!UpstreamActive(gated)
        /\ reading.grid = Meter!UpstreamActive(gated) - bess
        /\ Meter!UpstreamActive(gated) \in Int
    <3>1. reading = Meter!Resolve(gated, bess, tick.grid_online) /\ tick.grid_online
      BY <1>1 DEF IInv, ReadingInv
    <3>2. Meter!UpstreamActive(gated) \in Int
      BY <2>1, BookedInt
    <3> HIDE DEF bess
    <3>3. QED
      BY <2>1, <3>1, <3>2, ReadingInt
  <2>3. WirePower(UpstreamLugs) = reading.upstream /\ WirePower(RemoteCt) = reading.grid
    BY PanelAssumption DEF WirePower, Metered, LugsAndCt
  <2>4. Meter!Sum(wire, Circuits) = Meter!Sum(gated, Circuits) * (-1)
    <3>1. \A c \in Circuits : gated[c] \in Int /\ wire[c] = gated[c] * (-1)
      BY <2>1 DEF WirePower, Bag!CircuitActivePower
    <3> HIDE DEF wire
    <3>2. QED
      BY <3>1, PanelAssumption, SumScaled, MeterSum
  <2>5. Meter!Sum(gated, Circuits) \in Int
        /\ Meter!Sum(gated, Circuits) = Meter!UpstreamActive(gated)
    BY <1>1, <2>1, PowersAddUp, UpstreamIsEveryCircuit
  <2>6. Meter!Sum(wire, Circuits) + WirePower(UpstreamLugs) = 0
    BY <2>2, <2>3, <2>4, <2>5
  <2>7. ASSUME NEW release \in Releases
        PROVE  LET frame == FrameOf(release)
                   supplied == Meter!Sum([b \in Bess |-> Bag!BessActivePower(frame, dispatch[b])], Bess)
               IN  WirePower(UpstreamLugs) =
                     WirePower(RemoteCt) + (IF frame = "device" THEN supplied ELSE -supplied)
    <3> DEFINE frame == FrameOf(release)
               shown == [b \in Bess |-> Bag!BessActivePower(frame, dispatch[b])]
               supplied == Meter!Sum(shown, Bess)
    <3>1. CASE frame = "device"
      <4>1. shown = dispatch
        BY <2>1, <3>1 DEF Bag!BessActivePower
      <4> HIDE DEF shown, frame
      <4>2. QED
        BY <2>1, <2>2, <2>3, <3>1, <4>1 DEF shown, frame
    <3>2. CASE frame # "device"
      <4>1. \A b \in Bess : dispatch[b] \in Int /\ shown[b] = dispatch[b] * (-1)
        BY <2>1, <3>2 DEF Bag!BessActivePower
      <4> HIDE DEF shown
      <4>2. supplied = bess * (-1)
        BY <4>1, PanelAssumption, SumScaled, MeterSum
      <4> HIDE DEF supplied, frame, bess
      <4>3. WirePower(UpstreamLugs) = WirePower(RemoteCt) + (-supplied)
        BY <2>1, <2>2, <2>3, <4>2
      <4>4. QED
        BY <3>2, <4>3 DEF supplied, frame, shown
    <3>3. QED
      BY <3>1, <3>2
  <2>8. QED
    BY <2>6, <2>7 DEF WireMetersBalance
<1>2. IInv => ((by_role => FeedsBookedOnce) => WireMetersBalance)
  BY <1>1 DEF WireMetersBalance
<1>3. QED
  BY <1>2, PanelInvariance, PTL

-----------------------------------------------------------------------------
(* What a step may do. *)

\* Only a tick counts as one; nothing else moves what was published.
LEMMA TickOrStay ==
  ASSUME IInv, [Next]_vars
  PROVE  \/ UNCHANGED published
         \/ ticks < MaxTicks /\ \E t \in TickInputs : PublishTick(t)
  BY DEF Next, vars, published, OnCircuitRelay, UpdateBessConfig, SeedBessSoe

LEMMA BatteryTicks ==
  ASSUME IInv, NEW t \in TickInputs, PublishTick(t), NEW b \in Configured
  PROVE  /\ config[b] \in BessConfigs /\ battery[b] \in Batteries
         /\ dispatch'[b] \in Int /\ t.dt \in Int /\ tick' = t
         /\ battery'[b] = Device!Ticked(config[b], battery[b], dispatch'[b], t.dt)
         /\ t.grid_online /\ battery[b].soe <= config[b].nameplate /\ dispatch'[b] > 0
              => dispatch'[b] * StepsPerHour <= battery[b].soe - Device!BackupFloor(config[b])
<1>1. b \in Bess /\ TypeOK
  BY DEF IInv, TypeOK
<1>2. config[b] \in BessConfigs /\ battery[b] \in Batteries /\ battery[b].soe \in Nat
  BY <1>1, ConfigsTyped DEF Batteries
<1>3. dispatch'[b] = Device!Dispatch(config[b], battery[b].soe, t.grid_online,
                                     RawLoad(t.powers), RawPv(t.powers))
  BY <1>1 DEF PublishTick, DispatchOf
<1>4. /\ dispatch'[b] \in Int /\ t.dt \in Int /\ t.grid_online \in BOOLEAN
      /\ RawLoad(t.powers) \in Int /\ RawPv(t.powers) \in Int
  BY <1>1, TickParts
<1>5. tick' = t /\ battery'[b] = Device!Ticked(config[b], battery[b], dispatch'[b], t.dt)
  BY DEF PublishTick
<1>6. QED
  BY <1>2, <1>3, <1>4, <1>5, DispatchBound

\* No battery publishes more than its capacity after its first tick, however it
\* was reconfigured or restored before (bess.py, tick).
THEOREM CapacityKept == Spec => SocWithinNameplate
<1>1. ASSUME IInv, [Next]_vars, NEW b \in Configured, ticks' # ticks, battery[b].ticked
      PROVE  battery'[b].soe <= config[b].nameplate /\ battery'[b].soc <= 100
  <2>1. PICK t \in TickInputs : PublishTick(t)
    BY <1>1, TickOrStay DEF published
  <2>2. QED
    BY <1>1, <2>1, BatteryTicks, TickedBattery
<1>2. IInv /\ [Next]_vars
        => \A b \in Configured : ticks' # ticks /\ battery[b].ticked =>
             battery'[b].soe <= config[b].nameplate /\ battery'[b].soc <= 100
  BY <1>1
<1>3. QED
  BY <1>2, PanelInvariance, PTL DEF Spec, SocWithinNameplate

LEMMA ShortTickKeepsReserve ==
  ASSUME NEW cfg \in BessConfigs, NEW soe \in Nat, NEW power \in Int, NEW dt \in Int,
         soe <= cfg.nameplate, Device!BackupFloor(cfg) <= soe, dt * cfg.draw <= StepsPerHour,
         power > 0 => power * StepsPerHour <= soe - Device!BackupFloor(cfg)
  PROVE  Device!Charge(cfg, soe, power, dt) >= Device!BackupFloor(cfg)
<1> DEFINE steps == Device!Greatest(0, dt)
           floor == Device!BackupFloor(cfg)
           moved == IF power > 0 THEN soe - power * steps * cfg.draw
                    ELSE soe + (-power * steps) \div cfg.loss
<1>1. /\ cfg.nameplate \in Nat /\ cfg.draw \in Nat /\ cfg.loss \in Nat \ {0}
      /\ StepsPerHour \in Nat /\ floor \in Nat
  BY PanelAssumption, FloorType DEF BessConfigs
<1>2. steps \in Nat /\ (steps = dt \/ steps = 0)
  BY DEF Device!Greatest
<1>3. Device!Charge(cfg, soe, power, dt) = Device!Greatest(0, Device!Least(cfg.nameplate, moved))
  BY DEF Device!Charge
<1> HIDE DEF steps, floor
<1>4. moved \in Int /\ moved >= floor
  <2>1. CASE power > 0
    <3> DEFINE share == steps * cfg.draw
    <3>1. share \in Nat /\ share <= StepsPerHour
      BY <1>1, <1>2
    <3>2. power * steps * cfg.draw = power * share
      BY <1>1, <1>2
    <3> HIDE DEF share
    <3>3. power * share <= power * StepsPerHour /\ power * share \in Int
          /\ power * StepsPerHour \in Int
      BY <1>1, <2>1, <3>1
    <3>4. power * share <= soe - floor
      BY <1>1, <2>1, <3>3 DEF floor
    <3>5. moved = soe - power * share
      BY <2>1, <3>2
    <3>6. QED
      BY <1>1, <3>3, <3>4, <3>5
  <2>2. CASE power <= 0
    <3>1. -power * steps \in Nat
      BY <1>2, <2>2, Products
    <3>2. (-power * steps) \div cfg.loss \in Nat
      BY <1>1, <3>1
    <3>3. moved = soe + (-power * steps) \div cfg.loss
      BY <2>2
    <3>4. QED
      BY <1>1, <3>2, <3>3 DEF floor
  <2>3. QED
    BY <2>1, <2>2
<1> HIDE DEF moved
<1>5. QED
  BY <1>1, <1>3, <1>4 DEF Device!Greatest, Device!Least, floor

\* On grid a tick that is short enough for the dispatch's hourly bound leaves the
\* backup reserve untouched, whatever the loads (bess.py, _decide_dispatch).
THEOREM ReserveKept == Spec => ReserveSurvivesShortTicks
<1>1. ASSUME IInv, [Next]_vars, NEW b \in Configured,
             ticks' # ticks, tick'.grid_online, tick'.dt * config[b].draw <= StepsPerHour,
             battery[b].soe >= Device!BackupFloor(config[b]),
             config[b].nameplate >= battery[b].soe
      PROVE  battery'[b].soe >= Device!BackupFloor(config[b])
  <2>1. PICK t \in TickInputs : PublishTick(t)
    BY <1>1, TickOrStay DEF published
  <2>2. /\ config[b] \in BessConfigs /\ battery[b] \in Batteries /\ battery[b].soe \in Nat
        /\ dispatch'[b] \in Int /\ t.dt \in Int /\ tick' = t
        /\ battery'[b] = Device!Ticked(config[b], battery[b], dispatch'[b], t.dt)
        /\ dispatch'[b] > 0
             => dispatch'[b] * StepsPerHour <= battery[b].soe - Device!BackupFloor(config[b])
    BY <1>1, <2>1, BatteryTicks DEF Batteries
  <2>3. Device!BackupFloor(config[b]) \in Nat /\ config[b].nameplate \in Nat
    BY <2>2, FloorType DEF BessConfigs
  <2>4. Device!Charge(config[b], battery[b].soe, dispatch'[b], t.dt)
          >= Device!BackupFloor(config[b])
    BY <1>1, <2>2, <2>3, ShortTickKeepsReserve
  <2>5. CASE battery[b].ticked
    BY <2>2, <2>4, <2>5, TickedBattery
  <2>6. CASE ~battery[b].ticked
    BY <1>1, <2>2, <2>6, TickedBattery
  <2>7. QED
    BY <2>5, <2>6
<1>2. IInv /\ [Next]_vars
        => \A b \in Configured :
             /\ ticks' # ticks
             /\ tick'.grid_online
             /\ tick'.dt * config[b].draw <= StepsPerHour
             /\ battery[b].soe >= Device!BackupFloor(config[b])
             /\ config[b].nameplate >= battery[b].soe
             => battery'[b].soe >= Device!BackupFloor(config[b])
  BY <1>1
<1>3. QED
  BY <1>2, PanelInvariance, PTL DEF Spec, ReserveSurvivesShortTicks

\* A register moves with the meter it observes.
LEMMA RegisterTicks ==
  ASSUME IInv, NEW t \in TickInputs, PublishTick(t), NEW m \in Meters
  PROVE  /\ energy[m] \in EnergyRegisters /\ energy'[m] \in EnergyRegisters
         /\ energy'[m].consumed >= energy[m].consumed
         /\ energy'[m].produced >= energy[m].produced
         /\ energy'[m].consumed = energy[m].consumed \/ energy'[m].produced = energy[m].produced
         /\ energy'[m].consumed > energy[m].consumed => Metered(m, gated', reading') > 0
         /\ energy'[m].produced > energy[m].produced => Metered(m, gated', reading') < 0
         /\ energy'[m] # energy[m] => forward' > forward \/ ticks = 0
<1>1. /\ energy[m] \in EnergyRegisters /\ energy'[m] \in EnergyRegisters
      /\ Metered(m, gated', reading') \in Int /\ t.dt \in Int
  BY RegistersObserve, TickParts DEF IInv, TypeOK, EnergyRegisters
<1>2. CASE m \notin Registers
  <2>1. energy'[m] = energy[m]
    BY <1>2, RegistersObserve DEF IInv
  <2>2. QED
    BY <1>1, <2>1 DEF EnergyRegisters
<1>3. CASE m \in Registers
  <2>1. energy'[m] = Integrator!Observe(energy[m], Metered(m, gated', reading'), t.dt)
    BY <1>3, RegistersObserve DEF IInv
  <2>2. ASSUME energy'[m] # energy[m], ticks # 0 PROVE forward' > forward
    <3>1. ticks \in Nat /\ forward \in Nat
      BY DEF IInv, TypeOK
    <3>2. energy[m].ticked
      BY <1>3, <2>2, <3>1 DEF IInv, TickedInv
    <3>3. ~(t.dt <= 0)
      BY <1>1, <2>1, <2>2, <3>2, Observed
    <3>4. forward' = forward + t.dt
      BY <2>2, <3>3 DEF PublishTick
    <3>5. QED
      BY <1>1, <3>1, <3>3, <3>4
  <2>3. QED
    BY <1>1, <2>1, <2>2, Observed
<1>4. QED
  BY <1>2, <1>3

\* Registers never go back, move one way a tick, and only with the clock
\* (emitter.py: "One direction can accrue per tick").
THEOREM RegistersMoveOneWay == Spec => OneDirectionPerTick
<1>1. ASSUME IInv, [Next]_vars, NEW m \in Meters
      PROVE  /\ energy'[m].consumed >= energy[m].consumed
             /\ energy'[m].produced >= energy[m].produced
             /\ \/ energy'[m].consumed = energy[m].consumed
                \/ energy'[m].produced = energy[m].produced
             /\ energy'[m] # energy[m] => forward' > forward \/ ticks = 0
  <2>1. CASE UNCHANGED published
    <3>1. energy[m].consumed \in Nat /\ energy[m].produced \in Nat
      BY <1>1 DEF IInv, TypeOK
    <3>2. QED
      BY <2>1, <3>1 DEF published
  <2>2. ASSUME NEW t \in TickInputs, PublishTick(t)
        PROVE  /\ energy'[m].consumed >= energy[m].consumed
               /\ energy'[m].produced >= energy[m].produced
               /\ \/ energy'[m].consumed = energy[m].consumed
                  \/ energy'[m].produced = energy[m].produced
               /\ energy'[m] # energy[m] => forward' > forward \/ ticks = 0
    BY <1>1, <2>2, RegisterTicks
  <2>3. QED
    BY <1>1, <2>1, <2>2, TickOrStay
<1>2. IInv /\ [Next]_vars
        => \A m \in Meters :
             /\ energy'[m].consumed >= energy[m].consumed
             /\ energy'[m].produced >= energy[m].produced
             /\ \/ energy'[m].consumed = energy[m].consumed
                \/ energy'[m].produced = energy[m].produced
             /\ energy'[m] # energy[m] => forward' > forward \/ ticks = 0
  BY <1>1
<1>3. QED
  BY <1>2, PanelInvariance, PTL DEF Spec, OneDirectionPerTick

\* On the wire a register advances only the way its own published meter points,
\* though power and energy are put in the published frame in different places.
THEOREM RegistersFollowMeters == Spec => WireRegistersFollowMeters
<1>1. ASSUME IInv, [Next]_vars, NEW m \in Meters
      PROVE  /\ WireImported(m)' > WireImported(m) => WirePower(m)' > 0
             /\ WireExported(m)' > WireExported(m) => WirePower(m)' < 0
  <2>1. CASE UNCHANGED published
    <3>1. energy[m].consumed \in Nat /\ energy[m].produced \in Nat
      BY <1>1 DEF IInv, TypeOK
    <3>2. WireImported(m)' = WireImported(m) /\ WireExported(m)' = WireExported(m)
          /\ WireImported(m) \in Nat /\ WireExported(m) \in Nat
      BY <2>1, <3>1 DEF published, WireImported, WireExported, Bag!CircuitImported,
         Bag!CircuitExported
    <3>3. QED
      BY <3>2
  <2>2. ASSUME NEW t \in TickInputs, PublishTick(t)
        PROVE  /\ WireImported(m)' > WireImported(m) => WirePower(m)' > 0
               /\ WireExported(m)' > WireExported(m) => WirePower(m)' < 0
    <3>1. CASE m \in Circuits
      <4>1. Metered(m, gated', reading') = gated'[m] /\ gated'[m] \in Int
        BY <1>1, <2>2, <3>1, TickParts DEF Metered, IInv
      <4>2. /\ WireImported(m)' = energy'[m].produced /\ WireImported(m) = energy[m].produced
            /\ WireExported(m)' = energy'[m].consumed /\ WireExported(m) = energy[m].consumed
            /\ WirePower(m)' = -gated'[m]
        BY <3>1 DEF WireImported, WireExported, WirePower, Bag!CircuitImported,
           Bag!CircuitExported, Bag!CircuitActivePower
      <4>3. QED
        BY <1>1, <2>2, <4>1, <4>2, RegisterTicks
    <3>2. CASE m \notin Circuits
      <4>1. /\ WireImported(m)' = energy'[m].consumed /\ WireImported(m) = energy[m].consumed
            /\ WireExported(m)' = energy'[m].produced /\ WireExported(m) = energy[m].produced
            /\ WirePower(m)' = Metered(m, gated', reading')
        BY <3>2 DEF WireImported, WireExported, WirePower, Metered
      <4>2. QED
        BY <1>1, <2>2, <4>1, RegisterTicks
    <3>3. QED
      BY <3>1, <3>2
  <2>3. QED
    BY <1>1, <2>1, <2>2, TickOrStay
<1>2. IInv /\ [Next]_vars
        => \A m \in Meters :
             /\ WireImported(m)' > WireImported(m) => WirePower(m)' > 0
             /\ WireExported(m)' > WireExported(m) => WirePower(m)' < 0
  BY <1>1
<1>3. QED
  BY <1>2, PanelInvariance, PTL DEF Spec, WireRegistersFollowMeters

-----------------------------------------------------------------------------
(* A recorded tick, replayed. *)

LEMMA MinOfNaturals ==
  ASSUME NEW S \in SUBSET Nat, S # {}
  PROVE  Min(S) \in S /\ \A m \in S : Min(S) <= m
<1>1. IsWellFoundedOn(OpToRel(<, Nat), Nat)
  BY NatLessThanWellFounded
<1>2. PICK least \in S : \A m \in S : <<m, least>> \notin OpToRel(<, Nat)
  BY <1>1, WFMin
<1>3. \A m \in S : ~(m < least)
  BY <1>2 DEF OpToRel
<1>4. \A m \in S : least <= m
  BY <1>3
<1>5. QED
  BY <1>4 DEF Min

\* The captured charges are no lower than the ones that decided: where the replay
\* sheds by charge, so did the panel.
LEMMA ReplayShedsLess ==
  ASSUME NEW configured \in SUBSET Bess, NEW batteries \in [configured -> Batteries],
         NEW captured,
         captured = [b \in Bess |->
                       [soc |-> Capture!CapturedSoc(IF b \in configured THEN batteries[b].soc
                                                    ELSE NoOverride)]],
         Threshold >= PublishedThreshold,
         Policy!SocLow(MinSoc(captured), PublishedThreshold)
  PROVE  Policy!SocLow(MinSoc(batteries), Threshold)
<1> DEFINE socs == {batteries[b].soc : b \in configured}
           shown == {captured[b].soc : b \in Bess}
<1>1. CASE configured = {}
  <2>1. DOMAIN batteries = {}
    BY <1>1
  <2>2. QED
    BY <2>1 DEF MinSoc, Policy!SocLow
<1>2. CASE configured # {}
  <2>1. /\ DOMAIN batteries = configured /\ DOMAIN captured = Bess
        /\ MinSoc(batteries) = Min(socs) /\ MinSoc(captured) = Min(shown)
    BY <1>2 DEF MinSoc
  <2>2. \A b \in Bess : /\ captured[b].soc \in Nat
                        /\ captured[b].soc # 50
                             => b \in configured /\ captured[b].soc = batteries[b].soc
    BY DEF Capture!CapturedSoc, Batteries
  <2>3. socs \in SUBSET Nat /\ socs # {} /\ shown \in SUBSET Nat /\ shown # {}
    BY <1>2, <2>2 DEF Batteries
  <2>4. Min(shown) \in shown /\ Min(socs) \in socs /\ \A s \in socs : Min(socs) <= s
    BY <2>3, MinOfNaturals
  <2>5. PICK b \in Bess : captured[b].soc = Min(shown)
    BY <2>4
  <2>6. Min(shown) < 20
    BY <2>1, <2>3, <2>4, PanelAssumption DEF Policy!SocLow, PublishedThreshold
  <2>7. b \in configured /\ batteries[b].soc = Min(shown)
    BY <2>2, <2>5, <2>6
  <2>8. Min(socs) <= Min(shown)
    BY <2>4, <2>7
  <2> HIDE DEF socs, shown
  <2>9. Min(socs) < Threshold
    BY <2>3, <2>4, <2>6, <2>8, PanelAssumption DEF PublishedThreshold
  <2>10. QED
    BY <2>1, <2>9 DEF Policy!SocLow
<1>3. QED
  BY <1>1, <1>2

LEMMA ReplayOfTick ==
  ASSUME IInv, NEW t \in TickInputs, PublishTick(t), Threshold >= PublishedThreshold,
         NEW c \in Circuits
  PROVE  /\ c \notin BessFeeds /\ user_overrides[c] # "CLOSED" =>
              Bag!CircuitActivePower(ReplayedPowers[c])' = WirePower(c)'
         /\ Bag!CircuitImported(ReplayedRegister(c))' = WireImported(c)'
         /\ Bag!CircuitExported(ReplayedRegister(c))' = WireExported(c)'
<1>1. gated'[c] \in Int /\ battery' \in [Configured -> Batteries] /\ Configured \subseteq Bess
      /\ t.grid_online \in BOOLEAN
  BY TickParts DEF IInv, TypeOK
<1>2. gated'[c] = (IF Relays!State(c).relay' = "OPEN" THEN 0 ELSE t.powers[c])
      /\ user_overrides' = user_overrides /\ tick' = t /\ Configured' = Configured
  BY DEF PublishTick, Gated, Configured
<1>3. WirePower(c)' = -gated'[c]
  BY DEF WirePower, Bag!CircuitActivePower
<1>4. CapturedPowers'[c] = IF c \in BessFeeds THEN 0 ELSE gated'[c]
  BY <1>1, <1>3 DEF CapturedPowers, Capture!CapturedPower
<1>5. c \in ShedInReplay' => shed'[c] /\ ~Locked[c]
  <2> SUFFICES ASSUME c \in ShedInReplay' PROVE shed'[c] /\ ~Locked[c]
    OBVIOUS
  <2> DEFINE captured == CapturedBatteries'
  <2>1. /\ ~Locked[c] /\ ~t.grid_online
        /\ \/ Priority[c] = "OFF_GRID"
           \/ Priority[c] = "SOC_THRESHOLD" /\ Policy!SocLow(MinSoc(captured), PublishedThreshold)
    BY <1>2 DEF ShedInReplay, Policy!DecideShed, Policy!SocLow, MinSoc
  <2>2. captured = [b \in Bess |->
                      [soc |-> Capture!CapturedSoc(IF b \in Configured THEN battery'[b].soc
                                                   ELSE NoOverride)]]
    BY <1>2 DEF CapturedBatteries
  <2> HIDE DEF captured
  <2>3. Policy!SocLow(MinSoc(captured), PublishedThreshold)
          => Policy!SocLow(MinSoc(battery'), Threshold)
    BY <1>1, <2>2, ReplayShedsLess
  <2>4. c \in Policy!DecideShed(t.grid_online, MinSoc(battery'), Threshold, Priority)
    BY <2>1, <2>3 DEF Policy!DecideShed
  <2>5. QED
    BY <2>1, <2>4 DEF PublishTick
<1>6. ASSUME c \in ShedInReplay', user_overrides[c] # "CLOSED" PROVE gated'[c] = 0
  <2>1. Relays!State(c).relay' = "OPEN"
    BY <1>2, <1>5, <1>6 DEF IInv, TypeOK, Relays!State, Relays!Overrides, Relays!RelayStates
  <2>2. QED
    BY <1>2, <2>1
<1>7. ASSUME c \notin BessFeeds, user_overrides[c] # "CLOSED"
      PROVE  Bag!CircuitActivePower(ReplayedPowers[c])' = WirePower(c)'
  <2>1. ReplayedPowers'[c] = IF c \in ShedInReplay' THEN 0 ELSE gated'[c]
    BY <1>4, <1>7 DEF ReplayedPowers
  <2>2. ReplayedPowers'[c] = gated'[c]
    BY <1>6, <1>7, <2>1
  <2>3. QED
    BY <1>3, <2>2 DEF Bag!CircuitActivePower
<1>8. /\ Bag!CircuitImported(ReplayedRegister(c))' = WireImported(c)'
      /\ Bag!CircuitExported(ReplayedRegister(c))' = WireExported(c)'
  <2>1. ReplayedRegister(c)' =
          [consumed |-> WireExported(c)', produced |-> WireImported(c)', ticked |-> TRUE]
    BY DEF ReplayedRegister, CapturedRegisters, Capture!CapturedRegister, Integrator!Observe,
       Integrator!Seeded, Integrator!NewRegister
  <2>2. QED
    BY <2>1 DEF Bag!CircuitImported, Bag!CircuitExported
<1>9. QED
  BY <1>7, <1>8

\* A recorded tick replayed on the captured definition shows the meters and the
\* registers as they were, for every circuit but a battery's breaker or one an
\* operator holds closed (README.md: "writes the samples as replayable ticks").
THEOREM ReplayShowsTheSame == Spec => RecordedTickReplays
<1>1. ASSUME IInv, [Next]_vars, ticks' # ticks, Threshold >= PublishedThreshold,
             NEW c \in Circuits
      PROVE  /\ c \notin BessFeeds /\ user_overrides[c] # "CLOSED" =>
                  Bag!CircuitActivePower(ReplayedPowers[c])' = WirePower(c)'
             /\ Bag!CircuitImported(ReplayedRegister(c))' = WireImported(c)'
             /\ Bag!CircuitExported(ReplayedRegister(c))' = WireExported(c)'
  <2>1. PICK t \in TickInputs : PublishTick(t)
    BY <1>1, TickOrStay DEF published
  <2>2. QED
    BY <1>1, <2>1, ReplayOfTick
<1>2. IInv /\ [Next]_vars
        => (ticks' # ticks /\ Threshold >= PublishedThreshold =>
              \A c \in Circuits :
                /\ c \notin BessFeeds /\ user_overrides[c] # "CLOSED" =>
                     Bag!CircuitActivePower(ReplayedPowers[c])' = WirePower(c)'
                /\ Bag!CircuitImported(ReplayedRegister(c))' = WireImported(c)'
                /\ Bag!CircuitExported(ReplayedRegister(c))' = WireExported(c)')
  BY <1>1
<1>3. QED
  BY <1>2, PanelInvariance, PTL DEF Spec, RecordedTickReplays
=============================================================================
