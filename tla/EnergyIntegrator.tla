-------------------------- MODULE EnergyIntegrator --------------------------
(***************************************************************************)
(* The energy registers of energy_integrator.py.  A register is a record   *)
(* [consumed, produced, ticked]; `ticked' says that last_tick_time_s is    *)
(* set.  Time is relative: dt is the time since the register's last        *)
(* observation, negative if the producer's clock ran backwards.            *)
(***************************************************************************)
EXTENDS Integers

\* register.
NewRegister == [consumed |-> 0, produced |-> 0, ticked |-> FALSE]

\* seed: the time of the last observation stays.
Seeded(register, consumed, produced) ==
  [register EXCEPT !.consumed = consumed, !.produced = produced]

\* Slip: the direction of time is not asked.
ObserveAnyTime(register, power, dt) ==
  IF ~register.ticked THEN [register EXCEPT !.ticked = TRUE]
  ELSE IF power > 0 THEN [register EXCEPT !.consumed = @ + power * dt]
  ELSE [register EXCEPT !.produced = @ - power * dt]

\* observe: the first one integrates nothing, nor does one no time later.
Observe(register, power, dt) ==
  IF ~register.ticked THEN [register EXCEPT !.ticked = TRUE]
  ELSE IF dt <= 0 THEN register
  ELSE IF power > 0 THEN [register EXCEPT !.consumed = @ + power * dt]
  ELSE [register EXCEPT !.produced = @ - power * dt]
=============================================================================
