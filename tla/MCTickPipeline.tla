--------------------------- MODULE MCTickPipeline ---------------------------
(***************************************************************************)
(* Instances of TickPipeline.  Circuits are numbered in manifest order.    *)
(***************************************************************************)
EXTENDS TickPipeline

NoLocks      == <<FALSE, FALSE>>
SecondLocked == <<FALSE, TRUE>>

\* Circuit 2 never-backup (OFF_GRID, its priority locked), circuit 1 free.
NeverAndOffGrid == <<"NEVER", "OFF_GRID">>
\* Circuit 2 relay-locked and therefore, under span-alpha-test-b2, priority-locked,
\* its priority a shed-eligible one.
NeverAndSoc     == <<"NEVER", "SOC_THRESHOLD">>
=============================================================================
