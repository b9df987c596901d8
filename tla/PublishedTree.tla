---------------------------- MODULE PublishedTree ----------------------------
(***************************************************************************)
(* The tree an emitter publishes for a manifest, as far as a reader of it  *)
(* can tell who feeds whom: which device lists which, and the connection   *)
(* edges of _build_snapshot_from_tick.                                     *)
(*                                                                         *)
(* A manifest is a sequence of instances [class, id, position, feed,       *)
(* direction]; position and feed matter for a PV, an EVSE or a battery,    *)
(* direction for lugs.  The status of an edge is left out.                 *)
(***************************************************************************)
EXTENDS Integers, Sequences, SequencesExt

CONSTANT None

\* What build_graph and the manifest's parsers refuse is not here: one panel,
\* which is this one, ids that tell the devices apart, one host for a MID and a
\* direction for lugs.
WellFormed(manifest, panel) ==
  LET Entries == DOMAIN manifest
  IN  /\ \A j, k \in Entries : manifest[j].id = manifest[k].id => j = k
      /\ \A j, k \in Entries : manifest[j].class = "bess" /\ manifest[k].class = "bess" =>
           j = k \/ \A m \in Entries : manifest[m].class # "mid"
      /\ \A j \in Entries :
           /\ manifest[j].id # None
           /\ manifest[j].class \in {"panel", "circuit", "remote-ct", "lugs", "bess", "pv",
                                     "evse", "mid"}
           /\ manifest[j].class = "panel" <=> manifest[j].id = panel
           /\ IF manifest[j].class = "lugs" THEN manifest[j].direction \in {"upstream", "downstream"}
                                            ELSE manifest[j].direction = None

\* The order in which the edges are written: PVs, EVSEs, then batteries, each in
\* the order of the manifest.
ClassRank(class) == CASE class = "pv" -> 0 [] class = "evse" -> 1 [] OTHER -> 2

WrittenBefore(manifest, j, k) ==
  LET Rank(n) == ClassRank(manifest[n].class)
  IN  Rank(j) < Rank(k) \/ (Rank(j) = Rank(k) /\ j < k)

\* Of several writes to one edge the last one stays.
LastWritten(manifest, entries) ==
  IF entries = {} THEN None
  ELSE manifest[CHOOSE j \in entries :
                  \A k \in entries : k # j => WrittenBefore(manifest, k, j)].id

\* The DERs with an edge on this circuit.
DersOnFeed(manifest, c) ==
  {j \in DOMAIN manifest :
     /\ manifest[j].feed = c
     /\ \/ manifest[j].class \in {"pv", "evse"}
        \/ manifest[j].class = "bess" /\ manifest[j].position # "UPSTREAM"}

UpstreamBatteries(manifest) ==
  {j \in DOMAIN manifest : manifest[j].class = "bess" /\ manifest[j].position = "UPSTREAM"}

Feeds(manifest, c) == LastWritten(manifest, DersOnFeed(manifest, c))
UpstreamFedBy(manifest) == LastWritten(manifest, UpstreamBatteries(manifest))

TypeOf(class) ==
  CASE class = "panel"     -> "distribution-enclosure"
    [] class = "remote-ct" -> "circuit"
    [] OTHER               -> class

\* A MID hangs under the one battery, everything else under the panel.
Children(manifest, class) ==
  {i.id : i \in {j \in ToSet(manifest) :
                   CASE class = "panel" -> j.class \notin {"panel", "mid"}
                     [] class = "bess"  -> j.class = "mid"
                     [] OTHER           -> FALSE}}

Device(manifest, i) ==
  [type       |-> TypeOf(i.class),
   meter_only |-> i.class = "remote-ct",
   children   |-> Children(manifest, i.class),
   feeds      |-> IF i.class = "circuit" THEN Feeds(manifest, i.id) ELSE None,
   fed_by     |-> IF i.direction = "upstream" THEN UpstreamFedBy(manifest) ELSE None,
   direction  |-> i.direction]

Tree(manifest) ==
  [d \in {i.id : i \in ToSet(manifest)} |->
     Device(manifest, CHOOSE i \in ToSet(manifest) : i.id = d)]
=============================================================================
