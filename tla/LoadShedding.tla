---------------------------- MODULE LoadShedding ----------------------------
(***************************************************************************)
(* The load-shedding policy of native_devices/load_shedding.py: a pure     *)
(* function of the grid state, the battery charge and the priority of each *)
(* circuit.  Priorities are compared by name only; every name other than   *)
(* OFF_GRID and SOC_THRESHOLD (NEVER and NICE_TO_HAVE among them) is never *)
(* shed.                                                                   *)
(***************************************************************************)
EXTENDS Integers

CONSTANTS
  Circuits,   \* the circuits of the panel
  NoSoc       \* "no battery reports a state of charge"

SocLow(soc, threshold) == soc = NoSoc \/ soc < threshold

\* Slip: the policy forgets to ask whether the grid is there.
DecideShedAlsoOnGrid(gridOnline, soc, threshold, priorities) ==
  {c \in Circuits :
     \/ priorities[c] = "OFF_GRID"
     \/ priorities[c] = "SOC_THRESHOLD" /\ SocLow(soc, threshold)}

\* decide_shed: the circuits the policy wants open.
DecideShed(gridOnline, soc, threshold, priorities) ==
  {c \in Circuits :
     /\ ~gridOnline
     /\ \/ priorities[c] = "OFF_GRID"
        \/ priorities[c] = "SOC_THRESHOLD" /\ SocLow(soc, threshold)}
=============================================================================
