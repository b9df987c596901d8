------------------------ MODULE MCIslandingAssertion ------------------------
(***************************************************************************)
(* Instances of IslandingAssertion.                                        *)
(***************************************************************************)
EXTENDS IslandingAssertion

\* span-alpha-test-b2: UNKNOWN does not make an assertion acceptable.
AcceptingB2 == {"DEGRADED", "LOST"}
\* Otherwise any state but OK does.
NotOK == LinkStates \ {"OK"}
=============================================================================
