----------------------------- MODULE BessDevice -----------------------------
(***************************************************************************)
(* The battery of native_devices/bess.py: the dispatch decision of a tick  *)
(* and the charge it leaves.                                               *)
(*                                                                         *)
(* Powers are integers, time comes in steps of 1/StepsPerHour hour, and    *)
(* energy is counted in power units times steps, so an hour's worth of     *)
(* energy e is the power e \div StepsPerHour.  The efficiencies become a   *)
(* factor on discharge (draw) and a divisor on charge (loss).              *)
(*                                                                         *)
(* A configuration is a record [nameplate, max_charge, max_discharge,      *)
(* reserve_pct, draw, loss, charge_mode]; a battery's state is a record    *)
(* [soe, soc, ticked], `ticked' saying that _last_tick_time is set.        *)
(***************************************************************************)
EXTENDS Integers

CONSTANT StepsPerHour

Least(m, n)    == IF m < n THEN m ELSE n
Greatest(m, n) == IF m > n THEN m ELSE n

Percent(soe, nameplate) == (soe * 100) \div nameplate

\* Reserve floor of the configuration.
BackupFloor(cfg) == (cfg.nameplate * cfg.reserve_pct) \div 100

\* What is left of the capacity, and of the charge above the reserve, as the
\* power that uses it up in one hour.
Headroom(cfg, soe)  == (cfg.nameplate - soe) \div StepsPerHour

\* Slip: the reserve is not held back.
AvailableToEmpty(cfg, soe) == soe \div StepsPerHour

Available(cfg, soe) == (soe - BackupFloor(cfg)) \div StepsPerHour

\* _decide_dispatch: positive discharges, negative charges.
Dispatch(cfg, soe, grid_online, load, pv) ==
  LET deficit == Greatest(0, load - pv)
      surplus == Greatest(0, pv - load)
  IN  IF ~grid_online
      THEN IF soe <= 0 THEN 0 ELSE Least(deficit, cfg.max_discharge)
      ELSE IF surplus > 0 /\ soe < cfg.nameplate
      THEN -Least(cfg.max_charge, Least(surplus, Headroom(cfg, soe)))
      ELSE IF /\ cfg.charge_mode = "self-consumption"
              /\ deficit > 0 /\ soe > BackupFloor(cfg)
      THEN Least(deficit, Least(cfg.max_discharge, Available(cfg, soe)))
      ELSE 0

\* Slip: the result of a charge or a discharge is not clamped.
UnclampedCharge(cfg, soe, power, dt) ==
  LET steps == Greatest(0, dt)
  IN  IF power > 0 THEN soe - power * steps * cfg.draw
      ELSE soe + (-power * steps) \div cfg.loss

\* The charge after dt steps at the dispatched power, a backwards clock counting
\* as no time.
Charge(cfg, soe, power, dt) ==
  LET steps == Greatest(0, dt)
      moved == IF power > 0 THEN soe - power * steps * cfg.draw
               ELSE soe + (-power * steps) \div cfg.loss
  IN  Greatest(0, Least(cfg.nameplate, moved))

\* tick: a battery's first tick moves no energy.
Ticked(cfg, battery, power, dt) ==
  LET soe == Charge(cfg, battery.soe, power, dt)
  IN  IF battery.ticked THEN [soe |-> soe, soc |-> Percent(soe, cfg.nameplate), ticked |-> TRUE]
      ELSE [battery EXCEPT !.ticked = TRUE]

\* A new device starts from the charge its configuration names.
NewBattery(cfg, initial_soc) ==
  [soe |-> (cfg.nameplate * initial_soc) \div 100, soc |-> initial_soc, ticked |-> FALSE]

\* set_soe: a restored charge is clamped to the capacity.
Restored(cfg, battery, soe) ==
  LET capped == Greatest(0, Least(cfg.nameplate, soe))
  IN  [battery EXCEPT !.soe = capped, !.soc = Percent(capped, cfg.nameplate)]
=============================================================================
