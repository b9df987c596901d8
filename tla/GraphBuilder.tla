---------------------------- MODULE GraphBuilder ----------------------------
(***************************************************************************)
(* The device tree built from a manifest and a mapping table               *)
(* (wire/graph_builder.py): the root, then the other descriptors in the    *)
(* order of Kahn's algorithm, each placing its instances.                  *)
(*                                                                         *)
(* Entity classes are numbered, the root 0 and the others in the order of  *)
(* their names, so that `<' is the code's tie-break by name.  A manifest   *)
(* is a sequence of instances, some possibly of a class the table does not *)
(* know.  The table has passed validate_against: exactly one root          *)
(* descriptor, and every parent class it names is in the table.  A Device  *)
(* object is named by the position of the instance it was built for in the *)
(* manifest: ids may repeat, objects do not.                               *)
(***************************************************************************)
EXTENDS Integers, Sequences, FiniteSets, SequencesExt, FiniteSetsExt

CONSTANTS
  NumClasses,    \* classes beside the root
  Unknown,       \* a class outside the table
  NoParent,      \* a placement without parent_entity_class
  Placements,    \* the placements of a class in play: [kind, parent]
  Ids,           \* the instance ids in play
  Manifests      \* the manifests in play

Root    == 0
Classes == 1 .. NumClasses

ASSUME GraphAssumption ==
  /\ NumClasses \in Nat
  /\ NoParent \notin Classes \union {Root}
  /\ Unknown \notin Classes \union {Root}
  /\ Placements \subseteq [kind : {"node-on-parent", "child-of-parent"},
                          parent : Classes \union {Root, NoParent}]
  /\ Manifests \subseteq Seq([class : Classes \union {Root, Unknown}, id : Ids])

VARIABLES
  placement,   \* placement[c]: the descriptor of class c
  manifest,
  phase,       \* "start", "sort", "place", "built" or "refused"
  error,       \* why it was refused
  in_degree,   \* of the classes Kahn's algorithm has not taken yet
  ready,       \* its queue
  ordered,     \* the classes it has taken
  visited,     \* how many of them the loop over the descriptors has come to
  to_place,    \* the instances of that class still to place, by their positions
  parent,      \* of every child Device built, the Device it hangs under
  devices,     \* graph.devices: instance id -> Device
  properties   \* graph.properties, by instance: <<class, id>> -> the Device they lie on

input == <<placement, manifest>>
sort  == <<in_degree, ready, ordered>>
place == <<visited, to_place>>
graph == <<parent, devices, properties>>
vars  == <<input, phase, error, sort, place, graph>>

\* manifest.of_class(c), as positions in the manifest, and its one member.
OfClass(c)  == {j \in DOMAIN manifest : manifest[j].class = c}
IsSingle(c) == \E j \in DOMAIN manifest : OfClass(c) = {j}
TheOne(c)   == CHOOSE j \in OfClass(c) : TRUE

\* What the lookup of an instance's properties starts with.
Key(j) == <<manifest[j].class, manifest[j].id>>

\* Does class c wait for class p?  Only a child does, and never for the root.
DependsOn(c, p) == placement[c].kind = "child-of-parent" /\ placement[c].parent = p

Successors(p) == {c \in Classes : DependsOn(c, p)}

KindRank(c) == IF placement[c].kind = "node-on-parent" THEN 0 ELSE 1

\* Nodes before children, then by name.
Before(c, d) == \/ KindRank(c) < KindRank(d)
                \/ KindRank(c) = KindRank(d) /\ c < d

Sorted(cs) == CHOOSE q \in [1 .. Cardinality(cs) -> cs] :
                \A j, k \in DOMAIN q : j < k => Before(q[j], q[k])

RootDevice == TheOne(Root)
RootId     == manifest[RootDevice].id

Init ==
  /\ placement \in [Classes -> Placements]
  /\ manifest \in Manifests
  /\ phase = "start"
  /\ error = "none"
  /\ in_degree = [c \in Classes |-> 0]
  /\ ready = <<>>
  /\ ordered = <<>>
  /\ visited = 0
  /\ to_place = {}
  /\ parent = <<>>
  /\ devices = <<>>
  /\ properties = <<>>

\* _attach_profile: the capabilities of instance j become nodes of device d.
Attach(j, d) ==
  properties' = [k \in DOMAIN properties \union {Key(j)} |->
                   IF k = Key(j) THEN d ELSE properties[k]]

Refuse(why) ==
  /\ phase' = "refused"
  /\ error' = why

-----------------------------------------------------------------------------
(* build_graph, up to the sort. *)

\* root_instance_of.
RefuseRoot ==
  /\ phase = "start"
  /\ ~IsSingle(Root)
  /\ Refuse("root count")
  /\ UNCHANGED <<input, sort, place, graph>>

\* The root device, and the in-degrees and the queue of the sort.
BuildRoot ==
  /\ phase = "start"
  /\ IsSingle(Root)
  /\ devices' = [i \in {RootId} |-> RootDevice]
  /\ Attach(RootDevice, RootDevice)
  /\ in_degree' = [c \in Classes |-> Cardinality({p \in Classes : DependsOn(c, p)})]
  /\ ready' = Sorted({c \in Classes : in_degree'[c] = 0})
  /\ phase' = "sort"
  /\ UNCHANGED <<input, error, ordered, place, parent>>

-----------------------------------------------------------------------------
(* _topo_sort_descriptors. *)

\* Slip: a class is ready as soon as it appears, its parent taken or not.
NewlyReadyAll(c) == {s \in Classes : s # c /\ s \notin ToSet(ordered) \union ToSet(ready)}

\* The classes that were waiting for c alone.
NewlyReady(c) == {s \in Successors(c) : in_degree[s] = 1}

TakeReady ==
  /\ phase = "sort"
  /\ ready # <<>>
  /\ LET c == Head(ready)
     IN  /\ ordered' = Append(ordered, c)
         /\ in_degree' = [s \in Classes |->
                            IF s \in Successors(c) THEN in_degree[s] - 1 ELSE in_degree[s]]
         /\ ready' = Tail(ready) \o Sorted(NewlyReady(c))
  /\ UNCHANGED <<input, phase, error, place, graph>>

\* Slip: classes left over are not noticed.
EndSortUnchecked ==
  /\ phase = "sort"
  /\ ready = <<>>
  /\ phase' = "place"
  /\ UNCHANGED <<input, error, sort, place, graph>>

\* Slip: the sort waits for the classes left over.
EndSortWaiting ==
  /\ phase = "sort"
  /\ ready = <<>>
  /\ Len(ordered) = NumClasses
  /\ phase' = "place"
  /\ UNCHANGED <<input, error, sort, place, graph>>

\* Every class has been taken, or some wait for each other.
EndSort ==
  /\ phase = "sort"
  /\ ready = <<>>
  /\ IF Len(ordered) = NumClasses
     THEN phase' = "place" /\ UNCHANGED error
     ELSE Refuse("cycle")
  /\ UNCHANGED <<input, sort, place, graph>>

-----------------------------------------------------------------------------
(* build_graph, the descriptors one after the other and the instances of   *)
(* each in the order of the manifest.                                      *)

NextDescriptor ==
  /\ phase = "place"
  /\ to_place = {}
  /\ visited < Len(ordered)
  /\ visited' = visited + 1
  /\ to_place' = OfClass(ordered[visited + 1])
  /\ UNCHANGED <<input, phase, error, sort, graph>>

Current   == Min(to_place)
Placement == placement[manifest[Current].class]
ParentId  == manifest[TheOne(Placement.parent)].id

\* The current instance has been placed.
Placed ==
  /\ to_place' = to_place \ {Current}
  /\ UNCHANGED <<input, phase, error, sort, visited>>

\* Is there one instance the child can hang under?
ParentIsSingle ==
  \/ Placement.parent = Root
  \/ Placement.parent \in Classes /\ IsSingle(Placement.parent)

\* A node goes onto the root, whatever parent class its placement names.
AttachNode ==
  /\ phase = "place"
  /\ to_place # {}
  /\ Placement.kind = "node-on-parent"
  /\ Attach(Current, RootDevice)
  /\ Placed
  /\ UNCHANGED <<parent, devices>>

\* A child whose placement names no parent, or whose parent is not a single
\* instance of its class, or has the id of no device.
RefuseChild ==
  /\ phase = "place"
  /\ to_place # {}
  /\ Placement.kind = "child-of-parent"
  /\ \/ Placement.parent = NoParent /\ Refuse("no parent class")
     \/ /\ Placement.parent \in Classes
        /\ ~IsSingle(Placement.parent)
        /\ Refuse("parent count")
     \/ /\ ParentIsSingle
        /\ ParentId \notin DOMAIN devices
        /\ Refuse("not yet built")
  /\ UNCHANGED <<input, sort, place, graph>>

\* A new Device for the current instance, under device d; graph.devices forgets
\* an earlier one of the same id.
BuildUnder(d) ==
  /\ parent' = [c \in DOMAIN parent \union {Current} |-> IF c = Current THEN d ELSE parent[c]]
  /\ devices' = [i \in DOMAIN devices \union {manifest[Current].id} |->
                   IF i = manifest[Current].id THEN Current ELSE devices[i]]
  /\ Attach(Current, Current)

\* Slip: every child hangs under the root.
BuildChildUnderRoot ==
  /\ phase = "place"
  /\ to_place # {}
  /\ Placement.kind = "child-of-parent"
  /\ ParentIsSingle
  /\ ParentId \in DOMAIN devices
  /\ BuildUnder(RootDevice)
  /\ Placed

\* The parent is looked up by its id.
BuildChild ==
  /\ phase = "place"
  /\ to_place # {}
  /\ Placement.kind = "child-of-parent"
  /\ ParentIsSingle
  /\ ParentId \in DOMAIN devices
  /\ BuildUnder(devices[ParentId])
  /\ Placed

Finish ==
  /\ phase = "place"
  /\ to_place = {}
  /\ visited = Len(ordered)
  /\ phase' = "built"
  /\ UNCHANGED <<input, error, sort, place, graph>>

Next ==
  \/ RefuseRoot \/ BuildRoot
  \/ TakeReady \/ EndSort
  \/ NextDescriptor \/ AttachNode \/ RefuseChild \/ BuildChild \/ Finish

Spec == Init /\ [][Next]_vars

\* build_graph is one call of a single thread.
FairSpec == Spec /\ WF_vars(Next)

-----------------------------------------------------------------------------
\* Some classes wait for each other: a set of them in which each one's parent
\* is in the set again.
Cyclic == \E cs \in (SUBSET Classes) \ {{}} : \A c \in cs : \E p \in cs : DependsOn(c, p)

\* A mapping is refused as cyclic exactly if it is: Kahn's algorithm neither
\* loses a class nor lets one through before its parent (graph_builder.py,
\* "cycle detected").
RefusesExactlyTheCyclic ==
  /\ error = "cycle" => Cyclic
  /\ phase \in {"place", "built"} => ~Cyclic

\* The refusal graph_builder.py calls a "topology bug" is none: a parent device
\* is missing only if the mapping makes its class a node, never a device.
ParentsComeFirst ==
  error = "not yet built" => placement[Placement.parent].kind = "node-on-parent"

\* The instances the mapping knows, and those it makes devices of.
Known    == {j \in DOMAIN manifest : manifest[j].class # Unknown}
Children == {j \in Known : /\ manifest[j].class # Root
                           /\ placement[manifest[j].class].kind = "child-of-parent"}

\* No child hangs under itself, however far down.
NoCircle == \A ds \in (SUBSET DOMAIN parent) \ {{}} : \E d \in ds : parent[d] \notin ds

\* A finished tree has every instance of the mapping's classes in its place, be
\* the ids distinct or not (build_graph): a Device for every child, under a
\* Device with the id of the one instance of its parent class, and nothing
\* under itself; and the properties of every instance on a Device of its own
\* class and id, those of a node on the root, also where a later Device has
\* taken its id.  What graph.devices finds for an id is a Device of that id.
TreeIsComplete ==
  phase = "built" =>
    /\ DOMAIN parent = Children
    /\ \A j \in Children : LET c == placement[manifest[j].class].parent
                           IN  /\ IsSingle(c)
                               /\ parent[j] \in Children \union {RootDevice}
                               /\ manifest[parent[j]].id = manifest[TheOne(c)].id
    /\ NoCircle
    /\ DOMAIN properties = {Key(j) : j \in Known}
    /\ \A j \in Known : IF j \in Children
                        THEN /\ properties[Key(j)] \in Children
                             /\ Key(properties[Key(j)]) = Key(j)
                        ELSE properties[Key(j)] = RootDevice
    /\ DOMAIN devices = {manifest[j].id : j \in Children \union {RootDevice}}
    /\ \A i \in DOMAIN devices : /\ devices[i] \in Children \union {RootDevice}
                                 /\ manifest[devices[i]].id = i

\* The construction comes to an end, with a tree or with a refusal.
ConstructionEnds == <>(phase \in {"built", "refused"})
=============================================================================
