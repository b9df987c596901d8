----------------------------- MODULE LiveCapture ----------------------------
(***************************************************************************)
(* capture_live: one thread polls the SDK's Controller until the panel's   *)
(* tree is complete and has settled, or until the timeout, then copies the *)
(* devices, waits, copies them again for each sample, and reports whether  *)
(* the tree was complete.  The MQTT client's thread fills the Controller   *)
(* all the while, in any order and at any moment.                          *)
(*                                                                         *)
(* External, from how capture.py uses it: a device is known before its     *)
(* $description arrives, a description may be published again with more    *)
(* children, a tree is complete once every device it lists is described.   *)
(*                                                                         *)
(* Time is counted in polls and passes in the sleeps only.  A device's     *)
(* values arrive together.                                                 *)
(***************************************************************************)
EXTENDS Integers, FiniteSets, SequencesExt

CONSTANTS
  Installations,   \* the manifests in play
  Panel,      \* the distribution enclosure
  Timeout,    \* timeout_s, in polls
  Settle,     \* settle_s, in polls
  MaxTries,   \* attempts at one copy (10 in the code)
  Record,     \* samples asked for
  MaxUnlisted,     \* bound: children a description may leave out at first
  DownNamed,  \* the ids that contain "down"
  None

Mapper    == INSTANCE CaptureMapper
Published == INSTANCE PublishedTree

ASSUME CaptureAssumption ==
  /\ Timeout \in Nat \ {0}
  /\ Settle \in Nat \ {0}
  /\ MaxTries \in Nat \ {0}
  /\ Record \in Nat
  /\ None \notin {"upstream", "downstream"}
  /\ \A manifest \in Installations :
       manifest \in Seq(ToSet(manifest)) /\ Published!WellFormed(manifest, Panel)

VARIABLES
  wire,       \* what is published: an emitter's tree, in CaptureMapper's form
  stage,      \* the Controller's devices, each "absent", "known", "described"
              \* or "valued"
  listed,     \* the children each description lists, as last received
  pc,         \* where capture_live is
  waited,     \* since it started, as long as it polls
  since_new,  \* since last_new
  done,
  todo,       \* devices the current copy has yet to visit
  copy,       \* what it holds so far
  tries,      \* attempts at it that were interrupted
  tree,       \* the first copy, None before there is one
  sample,     \* the latest sample, None before there is one
  left,       \* samples still to take
  complete,   \* what LiveCapture.complete says
  calm,       \* history: polls the tree has been complete with nothing new
  grew        \* history: a description came again with more children since the
              \* tree was last found complete

controller == <<wire, stage, listed>>
polling    == <<waited, since_new, done>>
copying    == <<todo, copy, tries>>
result     == <<tree, sample, left, complete>>
history    == <<calm, grew>>
vars == <<controller, pc, polling, copying, result, history>>

Devices == DOMAIN wire

Described == {d \in Devices : stage[d] \in {"described", "valued"}}
HasValues(d) ==
  wire[d].feeds # None \/ wire[d].fed_by # None \/ wire[d].direction # None

\* A device as a reader has it who knows these children and may have its values.
Reading(d, children, valued) ==
  LET Read(value) == IF valued THEN value ELSE None
  IN  [wire[d] EXCEPT !.children = children, !.feeds = Read(@), !.fed_by = Read(@),
                      !.direction = Read(@)]

\* What the Controller says of a described device.
Device(d) == Reading(d, listed[d], stage[d] = "valued")

NoDevices == [d \in {} |-> None]

\* Every device the panel lists, or one of those lists, is there.
Whole(t) ==
  /\ Panel \in DOMAIN t
  /\ \A d \in DOMAIN Mapper!OwnTree(t, Panel) : t[d].children \subseteq DOMAIN t

\* Slip: the tree counts as complete once its enclosure is described.
CompleteOncePanel == Panel \in Described

\* complete(): the enclosure is described, and Controller.is_tree_complete.
Complete == Whole([d \in Described |-> Device(d)])

\* Type invariant; no attempt is made beyond the last.
TypeOK ==
  /\ stage \in [Devices -> {"absent", "known", "described", "valued"}]
  /\ listed \in [Devices -> SUBSET Devices]
  /\ pc \in {"poll", "check", "settled", "snapshot", "copy", "record", "report",
             "returned", "failed"}
  /\ waited \in 0 .. Timeout /\ since_new \in 0 .. Settle /\ calm \in 0 .. Settle
  /\ todo \subseteq Devices /\ DOMAIN copy \subseteq Devices
  /\ tries \in 0 .. MaxTries
  /\ left \in 0 .. Record
  /\ done \in BOOLEAN /\ complete \in BOOLEAN /\ grew \in BOOLEAN

Init ==
  /\ wire \in {Published!Tree(manifest) : manifest \in Installations}
  /\ stage = [d \in Devices |-> "absent"]
  /\ listed = [d \in Devices |-> {}]
  /\ pc = "poll"
  /\ waited = 0 /\ since_new = 0 /\ done = FALSE
  /\ todo = {} /\ copy = NoDevices /\ tries = 0
  /\ tree = None /\ sample = None /\ left = Record /\ complete = FALSE
  /\ calm = 0 /\ grew = FALSE

-----------------------------------------------------------------------------
(* The MQTT client's thread. *)

\* Slip: an interrupted copy is taken for a whole one.
InsertEndingCopy ==
  \/ UNCHANGED <<pc, copying>>
  \/ pc = "copy" /\ todo' = {} /\ UNCHANGED <<pc, copy, tries>>

\* Slip: a copy is retried for ever.
InsertRetrying ==
  \/ UNCHANGED <<pc, copying>>
  \/ pc = "copy" /\ pc' = "snapshot" /\ tries' = tries + 1 /\ UNCHANGED <<todo, copy>>

\* An insert into the dicts a copy is reading may raise a RuntimeError in it,
\* which ends the attempt, and the capture if it was the last one.
Insert ==
  \/ UNCHANGED <<pc, copying>>
  \/ /\ pc = "copy"
     /\ tries' = tries + 1
     /\ pc' = IF tries' = MaxTries THEN "failed" ELSE "snapshot"
     /\ UNCHANGED <<todo, copy>>

\* complete() goes through the dict of devices too, unless the root is named,
\* and nothing catches a RuntimeError there: it ends the capture.
CompleteRaises ==
  /\ pc = "check" \/ (pc = "report" /\ ~done)
  /\ pc' = "failed"
  /\ waited' = 0 /\ since_new' = 0 /\ calm' = 0
  /\ UNCHANGED <<done, copying>>

Appears(d) ==
  /\ stage[d] = "absent"
  /\ stage' = [stage EXCEPT ![d] = "known"]
  /\ \/ Insert /\ UNCHANGED <<polling, calm>>
     \/ CompleteRaises
  /\ UNCHANGED <<wire, listed, result, grew>>

\* A $description arrives, for the first time or with more children.
Describes(d) ==
  /\ stage[d] # "absent"
  /\ \E children \in SUBSET wire[d].children :
       /\ listed[d] \subseteq children
       /\ Cardinality(wire[d].children \ children) <= MaxUnlisted
       /\ stage[d] = "known" \/ children # listed[d]
       /\ listed' = [listed EXCEPT ![d] = children]
  /\ stage' = [stage EXCEPT ![d] = IF @ = "known" THEN "described" ELSE @]
  /\ grew' = (grew \/ stage[d] # "known")
  /\ calm' = 0
  /\ UNCHANGED <<wire, pc, polling, copying, result>>

\* Slip: a value that is published again counts as new.
OnPropertyAnyNew(d) ==
  /\ HasValues(d)
  /\ stage[d] \in {"described", "valued"}
  /\ stage' = [stage EXCEPT ![d] = "valued"]
  /\ since_new' = 0
  /\ IF stage[d] = "valued" THEN UNCHANGED <<calm, pc, copying>>
                            ELSE calm' = 0 /\ Insert
  /\ UNCHANGED <<wire, listed, waited, done, result, grew>>

\* on_property: a value arrives.  Only one not seen before counts as new.
OnProperty(d) ==
  /\ HasValues(d)
  /\ stage[d] \in {"described", "valued"}
  /\ stage' = [stage EXCEPT ![d] = "valued"]
  /\ IF stage[d] = "valued" THEN UNCHANGED <<since_new, calm, pc, copying>>
                            ELSE since_new' = 0 /\ calm' = 0 /\ Insert
  /\ UNCHANGED <<wire, listed, waited, done, result, grew>>

Arrival == \E d \in Devices : Appears(d) \/ Describes(d) \/ OnProperty(d)

-----------------------------------------------------------------------------
(* The capturing thread. *)

Capped(n) == IF n < Settle THEN n + 1 ELSE n

Sleep ==
  /\ pc = "poll" /\ waited < Timeout
  /\ pc' = "check"
  /\ waited' = waited + 1
  /\ since_new' = Capped(since_new)
  /\ calm' = IF Complete THEN Capped(calm) ELSE 0
  /\ UNCHANGED <<controller, done, copying, result, grew>>

Check ==
  /\ pc = "check"
  /\ pc' = IF Complete THEN "settled" ELSE "poll"
  /\ grew' = IF Complete THEN FALSE ELSE grew
  /\ UNCHANGED <<controller, polling, copying, result, calm>>

\* The loop is left: nothing reads its locals any more.
Leave == pc' = "snapshot" /\ waited' = 0 /\ since_new' = 0 /\ calm' = 0

CheckSettled ==
  /\ pc = "settled"
  /\ done' = (since_new >= Settle)
  /\ IF done' THEN Leave ELSE pc' = "poll" /\ UNCHANGED <<waited, since_new, calm>>
  /\ UNCHANGED <<controller, copying, result, grew>>

\* Slip: an incomplete tree is waited for beyond the deadline.
TimeOutIfComplete ==
  /\ pc = "poll" /\ waited = Timeout /\ Complete
  /\ Leave
  /\ UNCHANGED <<controller, done, copying, result, grew>>

TimeOut ==
  /\ pc = "poll" /\ waited = Timeout
  /\ Leave
  /\ UNCHANGED <<controller, done, copying, result, grew>>

\* snapshot(): one attempt, which reads the devices known at its start one
\* after the other and keeps those with a description.
BeginCopy ==
  /\ pc = "snapshot"
  /\ pc' = "copy"
  /\ todo' = {d \in Devices : stage[d] # "absent"}
  /\ copy' = NoDevices
  /\ UNCHANGED <<controller, polling, tries, result, history>>

CopyDevice ==
  /\ pc = "copy"
  /\ \E d \in todo :
       /\ todo' = todo \ {d}
       /\ copy' = IF d \in Described
                  THEN [e \in DOMAIN copy \union {d} |-> IF e = d THEN Device(d) ELSE copy[e]]
                  ELSE copy
  /\ UNCHANGED <<controller, pc, polling, tries, result, history>>

\* The first copy is the tree, an empty one an error; the others are samples.
EndCopy ==
  /\ pc = "copy" /\ todo = {}
  /\ IF tree = None
     THEN tree' = (IF copy = NoDevices THEN None ELSE copy) /\ UNCHANGED <<sample, left>>
     ELSE sample' = copy /\ left' = left - 1 /\ UNCHANGED tree
  /\ pc' = IF tree' = None THEN "failed" ELSE IF left' = 0 THEN "report" ELSE "record"
  /\ copy' = NoDevices
  /\ tries' = 0
  /\ UNCHANGED <<controller, polling, todo, complete, history>>

\* The sleep before a sample.
Wait ==
  /\ pc = "record"
  /\ pc' = "snapshot"
  /\ UNCHANGED <<controller, polling, copying, result, history>>

\* The answer, worked out when everything has been read.
Report ==
  /\ pc = "report"
  /\ complete' = (done \/ Complete)
  /\ pc' = "returned"
  /\ UNCHANGED <<controller, polling, copying, tree, sample, left, history>>

Capture ==
  \/ Sleep \/ Check \/ CheckSettled \/ TimeOut
  \/ BeginCopy \/ CopyDevice \/ EndCopy \/ Wait \/ Report

Next == Arrival \/ Capture

Spec == Init /\ [][Next]_vars
FairSpec == Spec /\ WF_vars(Capture)

-----------------------------------------------------------------------------
\* A capture that timed out saw a tree that was incomplete, or had something
\* new, within the last settling time: calm never lasts unnoticed.
\* (README.md: "returns once the tree is complete and has settled".)
TimesOutOnlyIfRestless ==
  pc = "poll" => calm < Settle \/ waited < Timeout

\* A capture that stopped because the tree was complete and settled copied every
\* device the copied descriptions list, however the copy was interleaved with
\* arrivals and retried, unless a description grew after the last check.
DoneTreeIsWhole ==
  done /\ tree # None /\ ~grew => Whole(tree)

\* What was read earlier is no more than what was read later.
Before(earlier, later) ==
  /\ earlier.children \subseteq later.children
  /\ earlier.feeds \in {None, later.feeds}

\* A sample holds every device of the tree, at least as far as the tree has it,
\* so that a tick drives every circuit of the definition.
SamplesHoldTheTree ==
  sample # None =>
    \A d \in DOMAIN tree : d \in DOMAIN sample /\ Before(tree[d], sample[d])

Own == Mapper!OwnTree(tree, Panel)

\* The batteries some lugs of the tree name.
Named == {b \in Mapper!OfType(Own, "bess") : Mapper!Upstream(Own, b)}

\* Whatever part of the tree was read: an emitter that runs the definition made
\* of it publishes the same devices in the same places with the same connection
\* edges, but for edges to devices that were not read, and but for lugs of
\* which no values were read, whose ids decide: "down" or else upstream, where
\* all lugs are fed alike.
\* (README.md: "writes a panel definition that reproduces it".)
RepublishesWhatItRead ==
  pc = "returned" /\ Panel \in DOMAIN tree =>
    LET Direction(d) == IF Own[d].type = "lugs" THEN Mapper!Direction(Own, d) ELSE None
    IN  Published!Tree(SetToSeq(Mapper!Instances(Own, Panel))) =
          [d \in DOMAIN Own |->
             [Own[d] EXCEPT
                !.children  = @ \intersect DOMAIN Own,
                !.feeds     = IF d \in Mapper!Dangling(Own) THEN None ELSE @,
                !.fed_by    = IF Direction(d) = "upstream" /\ Named # {}
                              THEN CHOOSE b \in Named : TRUE ELSE None,
                !.direction = Direction(d)]]

\* The capture ends, in a result or an error, whatever the broker does.
CaptureEnds == <>(pc \in {"returned", "failed"})

\* "Complete" says of the returned tree that it has every advertised device.
\* (capture.py:103: "whether the tree was complete (every advertised device
\* described) before the timeout".)
CompleteMeansWhole ==
  pc = "returned" /\ complete /\ ~grew => Whole(tree)

-----------------------------------------------------------------------------
(* The inductive invariant: what is published keeps its form; whatever has   *)
(* been copied is in the Controller still, or more of it; a copy after the   *)
(* first has every device of the tree behind it or before it; the devices    *)
(* that made the tree complete are frozen until the tree holds them.         *)

WireInv ==
  /\ IsFiniteSet(Devices)
  /\ \A d \in Devices :
       /\ wire[d].children \subseteq Devices
       /\ DOMAIN wire[d] = {"type", "meter_only", "children", "feeds", "fed_by", "direction"}

CopyInv ==
  /\ \A d \in DOMAIN copy : d \in Described /\ Before(copy[d], Device(d))
  /\ tree # None => \A d \in DOMAIN tree : d \in Described /\ Before(tree[d], Device(d))
  /\ tree # None /\ pc = "copy" =>
       \A d \in DOMAIN tree : d \in todo \/ (d \in DOMAIN copy /\ Before(tree[d], copy[d]))

CountInv ==
  /\ pc \in {"poll", "check", "settled"} => tree = None /\ tries = 0
  /\ pc \in {"snapshot", "copy", "record"} => tries < MaxTries
  /\ tree # None /\ pc \in {"snapshot", "copy", "record"} => left > 0
  /\ tree = None => sample = None
  /\ pc \in {"record", "report", "returned"} => tree # None

\* calm runs no faster than the code's own clock and not in an incomplete tree.
CalmInv ==
  /\ calm <= since_new
  /\ ~Complete => calm = 0

\* Nothing is read of a device but what is published of it.
Read(d, as) ==
  /\ as.children \subseteq wire[d].children
  /\ \E valued \in BOOLEAN : as = Reading(d, as.children, valued)

ReadInv ==
  /\ \A d \in Devices : listed[d] \subseteq wire[d].children
  /\ \A d \in DOMAIN copy : Read(d, copy[d])
  /\ tree # None => \A d \in DOMAIN tree : Read(d, tree[d])

\* The panel is among these devices, and all they list.
Closed(ids) == Panel \in ids /\ \A d \in ids : listed[d] \subseteq ids

\* What the first copy has done with a device of a complete tree, and what it
\* made of it.
CopiedAsListed(d) ==
  /\ tree = None /\ pc = "copy" =>
       d \in todo \/ (d \in DOMAIN copy /\ copy[d].children = listed[d])
  /\ tree # None => d \in DOMAIN tree /\ tree[d].children = listed[d]

DoneInv ==
  /\ pc \in {"poll", "check", "settled"} => ~done
  /\ (done \/ pc = "settled") /\ ~grew =>
       \E ids \in SUBSET Described : Closed(ids) /\ \A d \in ids : CopiedAsListed(d)

IInv ==
  /\ TypeOK
  /\ WireInv
  /\ CopyInv
  /\ CountInv
  /\ CalmInv
  /\ ReadInv
  /\ DoneInv
  /\ SamplesHoldTheTree
  /\ TimesOutOnlyIfRestless
=============================================================================
