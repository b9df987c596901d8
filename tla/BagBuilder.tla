----------------------------- MODULE BagBuilder -----------------------------
(***************************************************************************)
(* The frames in which the tree publishes its meters (bag_builder.py).     *)
(* The snapshot holds a circuit in its own frame, positive drawing, and a  *)
(* battery in its own, positive discharging.  On the wire a circuit is in  *)
(* the enclosure's frame, positive into the busbar, and a battery in the   *)
(* frame of the panel's firmware.  Lugs and remote CT go out as they are.  *)
(***************************************************************************)
EXTENDS Integers

CircuitActivePower(power) == -power

\* Slip: the registers keep the circuit's own frame.
CircuitOwnImported(register) == register.consumed

\* What the enclosure imports from a circuit is what the circuit produces.
CircuitImported(register) == register.produced
CircuitExported(register) == register.consumed

\* Slip: the earlier firmware's frame is forgotten.
BessDevicePower(frame, power) == power

\* The enclosure's reading of a battery is positive while it charges.
BessActivePower(frame, power) == IF frame = "device" THEN power ELSE -power
=============================================================================
