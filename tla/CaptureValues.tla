---------------------------- MODULE CaptureValues ----------------------------
(***************************************************************************)
(* What panel-sim-capture reads out of the values of one published device  *)
(* (capture.py, _Mapper and ticks_from_samples): metadata for the          *)
(* definition, and readings for the ticks that replay a recording.         *)
(***************************************************************************)
EXTENDS Integers

CONSTANT None

\* No metadata publishes UNKNOWN but the priorities of the earlier interface.
CapturedPriority(priority) ==
  IF priority = None THEN "NEVER"
  ELSE IF priority = "UNKNOWN" THEN "NICE_TO_HAVE"
  ELSE priority

\* Slip: whatever has the priority of a never-backup circuit is one.
CapturedByPriority(wire, settable, named) ==
  [relay_behavior |-> IF wire.controllable THEN "controllable" ELSE "non-controllable",
   always_on      |-> FALSE,
   system         |-> IF ~wire.controllable /\ wire.priority = "NEVER" THEN named ELSE None,
   never_backup   |-> wire.controllable /\ wire.priority = "OFF_GRID",
   priority       |-> CapturedPriority(wire.priority)]

\* _circuit: a circuit from its published values, whether its priority is
\* settable, and the system its name stands for, if it is such a name.  A
\* system or never-backup is concluded only from a priority nobody can set.
CapturedCircuit(wire, settable, named) ==
  LET system == IF ~wire.controllable /\ wire.priority = "NEVER" /\ ~settable THEN named ELSE None
  IN  [relay_behavior |-> IF wire.controllable THEN "controllable" ELSE "non-controllable",
       always_on      |-> FALSE,   \* relay-behavior says it all
       system         |-> system,
       never_backup   |-> system = None /\ wire.controllable
                            /\ wire.priority = "OFF_GRID" /\ ~settable,
       priority       |-> CapturedPriority(wire.priority)]

\* _evse.
CapturedEvse(wire) == [max |-> wire.max, user |-> wire.user_max]

\* _bess: the charge a battery starts from.
CapturedSoc(soc) == IF soc = None THEN 50 ELSE soc

\* Slip: the registers are read as they are published.
CapturedAsPublished(imported, exported) == [consumed |-> imported, produced |-> exported]

\* The registers a circuit starts from, out of the enclosure's frame.
CapturedRegister(imported, exported) == [consumed |-> exported, produced |-> imported]

\* ticks_from_samples: a circuit's power back in the producer's sign; one that
\* feeds a battery is left to that battery's dispatch.
CapturedPower(wire_power, feeds_battery) == IF feeds_battery THEN 0 ELSE -wire_power
=============================================================================
