------------------------------ MODULE Firmware ------------------------------
(***************************************************************************)
(* The wire conventions that changed at SPAN release 202639 (firmware.py). *)
(* A firmware string is the sequence of its segments, each the release it  *)
(* names (`r' and six digits) or Other; the empty sequence stands for no   *)
(* firmware string at all.                                                 *)
(***************************************************************************)
EXTENDS Integers, Sequences

NoRelease == -1
Other     == -1   \* a segment that names no release

CurrentConventionsRelease == 202639

\* release_build: the first segment that names a release counts.
ReleaseBuild(segments) ==
  LET releases == SelectSeq(segments, LAMBDA s : s # Other)
  IN  IF releases = <<>> THEN NoRelease ELSE Head(releases)

\* Only the span variant goes by the release.
Earlier(variant, release) ==
  variant = "span" /\ release # NoRelease /\ release < CurrentConventionsRelease

\* firmware_conventions.
Conventions(variant, release) ==
  [bess_meter_frame |-> IF Earlier(variant, release) THEN "enclosure" ELSE "device",
   user_max_preset  |-> Earlier(variant, release)]
=============================================================================
