--------------------------- MODULE CaptureMapper ---------------------------
(***************************************************************************)
(* What panel-sim-capture makes of a tree it has read (capture.py): which  *)
(* devices belong to the panel, which circuit feeds what, where a battery  *)
(* sits, and which devices become instances of the definition.             *)
(*                                                                         *)
(* A tree maps the ids of its devices to records: the type, whether a      *)
(* meter is all it has, the ids it lists as children, the two connection   *)
(* edges that matter and the direction of lugs, each None where no value   *)
(* was read.  Ids stay as they are: masking renames them.                  *)
(***************************************************************************)
EXTENDS Integers, FiniteSets

CONSTANTS
  DownNamed,  \* the ids that contain "down"
  None

\* _tree_order: what the panel lists, what those list, and so on, as far as
\* the tree holds it.
OwnTree(tree, panel) ==
  LET Below(ids) == DOMAIN tree \intersect UNION {tree[d].children : d \in ids}
      upTo[n \in 0 .. Cardinality(DOMAIN tree)] ==
        IF n = 0 THEN {panel} ELSE upTo[n - 1] \union Below(upTo[n - 1])
  IN  [d \in upTo[Cardinality(DOMAIN tree)] |-> tree[d]]

OfType(own, type) == {d \in DOMAIN own : own[d].type = type}

\* A circuit device with only a meter is a remote-ct.
RemoteCts(own) == {d \in OfType(own, "circuit") : own[d].meter_only}

\* The circuits that name device d.
FeedsOf(own, d) == {c \in OfType(own, "circuit") : own[c].feeds = d}

\* feeds: the circuit a device of the panel's tree is on.
FeedOf(own, d) == IF FeedsOf(own, d) = {} THEN None ELSE CHOOSE c \in FeedsOf(own, d) : TRUE

\* _note_dangling_feeds: the circuits whose device is not there.
Dangling(own) ==
  {c \in OfType(own, "circuit") : own[c].feeds \notin DOMAIN own \union {None}}

\* Lugs that publish no direction are taken for upstream ones, unless their id
\* says otherwise.
Direction(own, l) ==
  IF own[l].direction # None THEN own[l].direction
  ELSE IF l \in DownNamed THEN "downstream" ELSE "upstream"

\* A battery some lugs name is upstream; any other is in the panel, on the
\* circuit that names it if there is one.
Upstream(own, b) == \E l \in OfType(own, "lugs") : own[l].fed_by = b

Instance(class, id) ==
  [class |-> class, id |-> id, position |-> None, feed |-> None, direction |-> None]

\* Slip: a battery nothing names gets the default position.
BessInstanceByDefault(own, b) ==
  IF Upstream(own, b) \/ FeedOf(own, b) = None
  THEN [Instance("bess", b) EXCEPT !.position = "UPSTREAM"]
  ELSE [Instance("bess", b) EXCEPT !.position = "IN_PANEL", !.feed = FeedOf(own, b)]

\* The battery as an instance: without a feed it publishes no edge.
BessInstance(own, b) ==
  IF Upstream(own, b)
  THEN [Instance("bess", b) EXCEPT !.position = "UPSTREAM"]
  ELSE [Instance("bess", b) EXCEPT !.position = "IN_PANEL", !.feed = FeedOf(own, b)]

\* A definition hosts a MID under exactly one battery.
CapturedMids(own) ==
  IF Cardinality(OfType(own, "bess")) = 1 THEN OfType(own, "mid") ELSE {}

\* run: the instances of the definition made of the panel's tree.
Instances(own, panel) ==
  {Instance("panel", panel)}
    \union {Instance(IF c \in RemoteCts(own) THEN "remote-ct" ELSE "circuit", c) :
              c \in OfType(own, "circuit")}
    \union {[Instance("lugs", l) EXCEPT !.direction = Direction(own, l)] :
              l \in OfType(own, "lugs")}
    \union {BessInstance(own, b) : b \in OfType(own, "bess")}
    \union {[Instance(own[d].type, d) EXCEPT !.position = "IN_PANEL", !.feed = FeedOf(own, d)] :
              d \in OfType(own, "pv") \union OfType(own, "evse")}
    \union {Instance("mid", d) : d \in CapturedMids(own)}
=============================================================================
