----------------------------- MODULE PanelMeter -----------------------------
(***************************************************************************)
(* The panel-level aggregation of panel_meter.py, as a function of the     *)
(* gated power of every circuit and of the battery dispatch.  Only powers  *)
(* and flows are modelled; leg currents, voltages and the state strings    *)
(* derived from the grid state are not.                                    *)
(***************************************************************************)
EXTENDS Integers, Functions

CONSTANTS
  Circuits,
  Placement,        \* Placement[c]: "upstream-of-lugs" or "downstream-of-lugs"
  FlowsByRole,      \* span-alpha-test-b2 books flows by feeds-role, not by sign
  SolarCircuits,    \* its circuits of role SOLAR
  BatteryCircuits   \* its circuits of role STORAGE, and the batteries' breakers

Sum(powers, cs) == SumFunctionOnSet(powers, cs)

Downstream == {c \in Circuits : Placement[c] = "downstream-of-lugs"}

Drawing(powers)   == {c \in Circuits : powers[c] > 0}
Producing(powers) == {c \in Circuits : powers[c] < 0}

\* The flows booked to solar, to the loads and to battery breakers.
PvAvailable(gated) ==
  -Sum(gated, IF FlowsByRole THEN SolarCircuits ELSE Producing(gated))
LoadDemand(gated) ==
  Sum(gated, IF FlowsByRole THEN Circuits \ (SolarCircuits \union BatteryCircuits)
             ELSE Drawing(gated))
BatteryBreakers(gated) == Sum(gated, IF FlowsByRole THEN BatteryCircuits ELSE {})

UpstreamActive(gated) == LoadDemand(gated) - PvAvailable(gated) + BatteryBreakers(gated)

\* Slip: a charging battery is not counted as grid import.
GridPowerClamped(upstream, battery) ==
  IF battery > 0 THEN upstream - battery ELSE upstream

\* _grid_power_from_lugs_and_bess.
GridPower(upstream, battery) == upstream - battery

\* resolve: the meters, in the meter frame, and the four flows, in the node frame.
Resolve(gated, battery, grid_online) ==
  LET upstream == UpstreamActive(gated)
      grid == IF grid_online THEN GridPower(upstream, battery) ELSE 0
  IN  [grid        |-> grid,
       upstream    |-> IF grid_online THEN upstream ELSE 0,
       feedthrough |-> Sum(gated, Downstream),
       flows |-> [pv |-> -PvAvailable(gated),
                  battery |-> BatteryBreakers(gated) - battery,
                  grid |-> -grid,
                  site |-> LoadDemand(gated)]]

FlowSum(reading) ==
  reading.flows.pv + reading.flows.battery + reading.flows.grid + reading.flows.site
=============================================================================
