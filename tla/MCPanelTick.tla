----------------------------- MODULE MCPanelTick ----------------------------
(***************************************************************************)
(* Instances of PanelTick.  Time comes in half hours.  A heater behind the *)
(* downstream lugs may be shed; a solar circuit beside it and a battery    *)
(* breaker upstream of the lugs may not, the breaker's relay being locked. *)
(***************************************************************************)
EXTENDS PanelTick

Heater  == "heater"
Solar   == "solar"
Breaker == "breaker"

MCCircuits  == {Heater, Solar, Breaker}
MCPlacement == [c \in MCCircuits |->
                  IF c = Breaker THEN "upstream-of-lugs" ELSE "downstream-of-lugs"]
MCLocked    == [c \in MCCircuits |-> c = Breaker]
MCRole      == [c \in MCCircuits |-> IF c = Solar THEN "SOLAR" ELSE "LOADS"]
MCFeeds     == {Breaker}
MCEnergy    == [c \in MCCircuits |->
                  IF c = Heater THEN [consumed |-> 5, produced |-> 0]
                  ELSE [consumed |-> 0, produced |-> 1]]
MCPriority  == [c \in MCCircuits |-> IF c = Heater THEN "SOC_THRESHOLD" ELSE "NEVER"]

\* A battery that loses half of what it charges or discharges, half of its
\* capacity in reserve; and a smaller lossless one that only charges on grid.
Big   == [nameplate |-> 16, max_charge |-> 4, max_discharge |-> 4, reserve_pct |-> 50,
          draw |-> 2, loss |-> 2, charge_mode |-> "self-consumption"]
Small == [nameplate |-> 8, max_charge |-> 2, max_discharge |-> 2, reserve_pct |-> 25,
          draw |-> 1, loss |-> 1, charge_mode |-> "backup-only"]

BothConfigs == {Big, Small}
SmallOnly   == {Small}

\* No battery configured at first, or all.
NoneYet  == [b \in {} |-> Big]
AllBig   == [b \in Bess |-> Big]
AllSmall == [b \in Bess |-> Small]

\* The heater takes 4 or nothing, the array gives 3 or nothing; a battery's own
\* breaker reads a charge or a discharge.
Reading(h, s, b) == [c \in MCCircuits |-> IF c = Heater THEN h ELSE IF c = Solar THEN s ELSE b]
MCReadings == {Reading(4, 0, 0), Reading(4, -3, 0), Reading(0, -3, 2), Reading(4, 0, -2)}
MCIntervals == {-1, 1, 3}
=============================================================================
