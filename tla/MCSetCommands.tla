---------------------------- MODULE MCSetCommands ---------------------------
(***************************************************************************)
(* Instances of SetCommands.                                               *)
(***************************************************************************)
EXTENDS SetCommands, Sequences

\* No firmware; one whose string names no release; one before the change of
\* conventions, a later release after it in the string; and one after it.
MCFirmwares == {<<>>, <<-1, -1>>, <<-1, 202638, 202639>>, <<202639, -1>>}
=============================================================================
