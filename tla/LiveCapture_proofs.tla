------------------------- MODULE LiveCapture_proofs -------------------------
(***************************************************************************)
(* Proofs about LiveCapture, for any installations, timeouts and samples.  *)
(***************************************************************************)
EXTENDS LiveCapture, FiniteSetTheorems, WellFoundedInduction, TLAPS

-----------------------------------------------------------------------------
(* What OwnTree reaches: its walk from the panel, as a function of its own. *)

\* Induction up to a bound, over the set of numbers that are settled.
LEMMA UpTo ==
  ASSUME NEW n \in Nat, NEW S, 0 \in S, \A k \in 1 .. n : k - 1 \in S => k \in S
  PROVE  \A k \in 0 .. n : k \in S
<1> DEFINE Bad == {k \in 0 .. n : k \notin S}
<1> SUFFICES ASSUME Bad # {} PROVE FALSE
  OBVIOUS
<1>1. Bad \subseteq Nat
  OBVIOUS
<1>2. PICK k \in Bad : \A m \in Bad : <<m, k>> \notin OpToRel(<, Nat)
  <2> HIDE DEF Bad
  <2> QED BY <1>1, NatLessThanWellFounded, WFMin
<1>3. k \in 1 .. n /\ k \notin S
  OBVIOUS
<1>4. k - 1 \in Bad
  BY <1>3
<1>5. <<k - 1, k>> \in OpToRel(<, Nat)
  BY <1>3 DEF OpToRel
<1>6. QED
  BY <1>2, <1>4, <1>5

Below(t, ids) == DOMAIN t \intersect UNION {t[d].children : d \in ids}

IsWalk(f, t, n) ==
  f = [k \in 0 .. n |-> IF k = 0 THEN {Panel} ELSE f[k - 1] \union Below(t, f[k - 1])]

LEMMA OwnTreeByWalk ==
  ASSUME NEW t
  PROVE  LET n == Cardinality(DOMAIN t)
         IN  Mapper!OwnTree(t, Panel) = [d \in (CHOOSE f : IsWalk(f, t, n))[n] |-> t[d]]
  BY DEF Mapper!OwnTree, Mapper!Cardinality, Cardinality, Below, IsWalk

LEMMA WalkExists ==
  ASSUME NEW t, NEW n \in Nat
  PROVE  \E f : IsWalk(f, t, n)
<1> DEFINE S == {k \in Nat : \E f : IsWalk(f, t, k)}
<1>1. 0 \in S
  <2>1. IsWalk([k \in 0 .. 0 |-> {Panel}], t, 0)
    BY DEF IsWalk
  <2>2. QED
    BY <2>1
<1>2. ASSUME NEW k \in 1 .. n, k - 1 \in S
      PROVE  k \in S
  <2>1. PICK g : IsWalk(g, t, k - 1)
    BY <1>2
  <2> DEFINE f == [j \in 0 .. k |-> IF j = k THEN g[k - 1] \union Below(t, g[k - 1]) ELSE g[j]]
  <2>2. ASSUME NEW j \in 0 .. k
        PROVE  f[j] = IF j = 0 THEN {Panel} ELSE f[j - 1] \union Below(t, f[j - 1])
    <3>1. CASE j = k
      BY <3>1, <1>2
    <3>2. CASE j # k
      <4>1. j \in 0 .. k - 1
        BY <3>2
      <4>2. g[j] = IF j = 0 THEN {Panel} ELSE g[j - 1] \union Below(t, g[j - 1])
        BY <2>1, <4>1 DEF IsWalk
      <4>3. f[j] = g[j]
        BY <3>2
      <4>4. CASE j = 0
        BY <4>2, <4>3, <4>4
      <4>5. CASE j # 0
        <5>1. f[j - 1] = g[j - 1]
          BY <4>1, <4>5
        <5>2. QED
          BY <4>2, <4>3, <4>5, <5>1
      <4>6. QED
        BY <4>4, <4>5
    <3>3. QED
      BY <3>1, <3>2
  <2>3. IsWalk(f, t, k)
    <3> HIDE DEF f
    <3>1. f = [j \in 0 .. k |-> f[j]]
      BY DEF f
    <3>2. QED
      BY <2>2, <3>1 DEF IsWalk
  <2>4. QED
    BY <2>3
<1>3. QED
  <2> HIDE DEF S
  <2>1. n \in S
    BY <1>1, <1>2, UpTo
  <2>2. QED
    BY <2>1 DEF S

LEMMA WalkSteps ==
  ASSUME NEW t, NEW n \in Nat, NEW f, IsWalk(f, t, n)
  PROVE  /\ f[0] = {Panel}
         /\ \A k \in 1 .. n : f[k] = f[k - 1] \union Below(t, f[k - 1])
<1>1. ASSUME NEW k \in 0 .. n
      PROVE  f[k] = IF k = 0 THEN {Panel} ELSE f[k - 1] \union Below(t, f[k - 1])
  BY DEF IsWalk
<1>2. f[0] = {Panel}
  <2>1. 0 \in 0 .. n
    OBVIOUS
  <2>2. QED
    BY <1>1, <2>1
<1>3. ASSUME NEW k \in 1 .. n PROVE f[k] = f[k - 1] \union Below(t, f[k - 1])
  <2>1. k \in 0 .. n /\ k # 0
    OBVIOUS
  <2>2. QED
    BY <1>1, <2>1
<1>4. QED
  BY <1>2, <1>3

\* The walk does not leave a set that holds the panel and what its members list.
LEMMA WalkStays ==
  ASSUME NEW t, NEW n \in Nat, NEW f, IsWalk(f, t, n),
         NEW ids, Panel \in ids, Below(t, ids) \subseteq ids
  PROVE  \A k \in 0 .. n : f[k] \subseteq ids
<1> DEFINE S == {k \in 0 .. n : f[k] \subseteq ids}
<1>1. 0 \in S
  <2>1. f[0] = {Panel}
    BY WalkSteps
  <2>2. QED
    BY <2>1
<1>2. ASSUME NEW k \in 1 .. n, k - 1 \in S PROVE k \in S
  <2>1. f[k] = f[k - 1] \union Below(t, f[k - 1])
    BY WalkSteps
  <2>2. Below(t, f[k - 1]) \subseteq Below(t, ids)
    BY <1>2 DEF Below
  <2>3. QED
    BY <1>2, <2>1, <2>2
<1>3. QED
  <2> HIDE DEF S
  <2>1. \A k \in 0 .. n : k \in S
    BY <1>1, <1>2, UpTo
  <2>2. QED
    BY <2>1 DEF S

\* The walk only grows, and by a device at least for as long as it does.
LEMMA WalkCloses ==
  ASSUME NEW t, IsFiniteSet(DOMAIN t), Panel \in DOMAIN t,
         NEW f, IsWalk(f, t, Cardinality(DOMAIN t))
  PROVE  LET ids == f[Cardinality(DOMAIN t)]
         IN  Panel \in ids /\ ids \subseteq DOMAIN t /\ Below(t, ids) \subseteq ids
<1> DEFINE n == Cardinality(DOMAIN t)
<1>1. n \in Nat
  BY FS_CardinalityType
<1> HIDE DEF n
<1>2. /\ f[0] = {Panel}
      /\ \A k \in 1 .. n : f[k] = f[k - 1] \union Below(t, f[k - 1])
  BY <1>1, WalkSteps DEF n
<1>3. \A k \in 0 .. n : f[k] \subseteq DOMAIN t
  BY <1>1, WalkStays DEF n, Below
<1> DEFINE Holding == {k \in 0 .. n : Panel \in f[k]}
<1>4. \A k \in 0 .. n : k \in Holding
  <2>1. 0 \in Holding
    BY <1>1, <1>2
  <2>2. ASSUME NEW k \in 1 .. n, k - 1 \in Holding PROVE k \in Holding
    BY <1>2, <2>2
  <2> HIDE DEF Holding
  <2>3. QED
    BY <1>1, <2>1, <2>2, UpTo
<1>5. SUFFICES ASSUME ~(Below(t, f[n]) \subseteq f[n]) PROVE FALSE
  BY <1>1, <1>3, <1>4 DEF n
<1> DEFINE Open == {k \in 0 .. n : ~(Below(t, f[n - k]) \subseteq f[n - k])}
<1>6. \A k \in 0 .. n : ~(Below(t, f[k]) \subseteq f[k])
  <2>1. 0 \in Open
    BY <1>1, <1>5
  <2>2. ASSUME NEW k \in 1 .. n, k - 1 \in Open PROVE k \in Open
    <3>1. n - k \in 0 .. n /\ n - (k - 1) \in 1 .. n /\ (n - (k - 1)) - 1 = n - k
      BY <1>1
    <3>2. f[n - (k - 1)] = f[n - k] \union Below(t, f[n - k])
      BY <1>2, <3>1
    <3>3. CASE Below(t, f[n - k]) \subseteq f[n - k]
      <4>1. f[n - (k - 1)] = f[n - k]
        BY <3>2, <3>3
      <4>2. QED
        BY <2>2, <3>3, <4>1
    <3>4. QED
      BY <3>3
  <2>3. \A k \in 0 .. n : k \in Open
    <3> HIDE DEF Open
    <3> QED BY <1>1, <2>1, <2>2, UpTo
  <2>4. ASSUME NEW k \in 0 .. n PROVE ~(Below(t, f[k]) \subseteq f[k])
    <3>1. n - k \in Open /\ n - (n - k) = k
      BY <1>1, <2>3
    <3>2. QED
      BY <3>1
  <2>5. QED
    BY <2>4
<1> DEFINE Large == {k \in 0 .. n : Cardinality(f[k]) >= k + 1}
<1>7. 0 \in Large
  BY <1>1, <1>2, FS_Singleton
<1>8. ASSUME NEW k \in 1 .. n, k - 1 \in Large PROVE k \in Large
  <2>1. f[k] = f[k - 1] \union Below(t, f[k - 1]) /\ f[k] # f[k - 1]
    BY <1>2, <1>6
  <2>2. IsFiniteSet(f[k]) /\ IsFiniteSet(f[k - 1])
    <3>1. f[k] \in SUBSET DOMAIN t /\ f[k - 1] \in SUBSET DOMAIN t
      <4>1. k \in 0 .. n /\ k - 1 \in 0 .. n
        BY <1>1
      <4>2. QED
        BY <1>3, <4>1
    <3>2. QED
      BY <3>1, FS_Subset
  <2>3. Cardinality(f[k - 1]) <= Cardinality(f[k]) /\ Cardinality(f[k - 1]) # Cardinality(f[k])
    BY <2>1, <2>2, FS_Subset
  <2>4. Cardinality(f[k]) \in Nat /\ Cardinality(f[k - 1]) \in Nat
    BY <2>2, FS_CardinalityType
  <2>5. QED
    BY <1>8, <2>3, <2>4
<1>9. n \in Large
  <2> HIDE DEF Large
  <2> QED BY <1>1, <1>7, <1>8, UpTo
<1>10. Cardinality(f[n]) <= n /\ Cardinality(f[n]) \in Nat
  <2>1. f[n] \in SUBSET DOMAIN t
    BY <1>1, <1>3
  <2>2. QED
    BY <2>1, FS_Subset, FS_CardinalityType DEF n
<1>11. QED
  BY <1>1, <1>9, <1>10

\* A finite tree is whole exactly if some of its devices, the panel among them,
\* list nothing but each other.
LEMMA WholeByClosure ==
  ASSUME NEW t, IsFiniteSet(DOMAIN t)
  PROVE  Whole(t) <=> \E ids \in SUBSET DOMAIN t :
                        Panel \in ids /\ \A d \in ids : t[d].children \subseteq ids
<1> DEFINE n == Cardinality(DOMAIN t)
           f == CHOOSE g : IsWalk(g, t, n)
<1>1. n \in Nat
  BY FS_CardinalityType
<1>2. IsWalk(f, t, n)
  <2> HIDE DEF n
  <2> QED BY <1>1, WalkExists
<1>3. DOMAIN Mapper!OwnTree(t, Panel) = f[n]
  <2>1. Mapper!OwnTree(t, Panel) = [d \in f[n] |-> t[d]]
    BY OwnTreeByWalk
  <2> HIDE DEF f, n
  <2>2. QED
    BY <2>1
<1> HIDE DEF f
<1>4. ASSUME Whole(t)
      PROVE  \E ids \in SUBSET DOMAIN t : Panel \in ids /\ \A d \in ids : t[d].children \subseteq ids
  <2>1. Panel \in f[n] /\ f[n] \subseteq DOMAIN t /\ Below(t, f[n]) \subseteq f[n]
    BY <1>2, <1>4, WalkCloses DEF Whole
  <2>2. \A d \in f[n] : t[d].children \subseteq f[n]
    BY <1>3, <1>4, <2>1 DEF Whole, Below
  <2>3. QED
    BY <2>1, <2>2
<1>5. ASSUME NEW ids \in SUBSET DOMAIN t, Panel \in ids, \A d \in ids : t[d].children \subseteq ids
      PROVE  Whole(t)
  <2>1. Below(t, ids) \subseteq ids
    BY <1>5 DEF Below
  <2>2. f[n] \subseteq ids
    <3> HIDE DEF n
    <3>1. \A k \in 0 .. n : f[k] \subseteq ids
      BY <1>1, <1>2, <1>5, <2>1, WalkStays
    <3>2. QED
      BY <1>1, <3>1
  <2>3. QED
    BY <1>3, <1>5, <2>2 DEF Whole
<1>6. QED
  BY <1>4, <1>5

-----------------------------------------------------------------------------
(* The invariant. *)

\* An emitter's tree is in the form the invariant asks for, whatever the manifest.
LEMMA PublishedForm == Init => WireInv
<1> SUFFICES ASSUME Init PROVE WireInv
  OBVIOUS
<1>1. PICK manifest \in Installations : wire = Published!Tree(manifest)
  BY DEF Init
<1>2. Devices = {i.id : i \in Published!ToSet(manifest)}
  BY <1>1 DEF Devices, Published!Tree
<1>3. ASSUME NEW d \in Devices
      PROVE  /\ wire[d].children \subseteq Devices
             /\ DOMAIN wire[d] = {"type", "meter_only", "children", "feeds", "fed_by", "direction"}
  <2>1. PICK i : wire[d] = Published!Device(manifest, i)
    BY <1>1, <1>2, <1>3 DEF Published!Tree
  <2>2. Published!Children(manifest, i.class) \subseteq Devices
    BY <1>2 DEF Published!Children
  <2>3. QED
    BY <2>1, <2>2 DEF Published!Device
<1>4. IsFiniteSet(Devices)
  <2> DEFINE T == {manifest[k].id : k \in DOMAIN manifest}
  <2>1. Devices = T
    BY <1>2 DEF Published!ToSet
  <2>2. IsFiniteSet(T)
    <3> DEFINE f == [k \in DOMAIN manifest |-> manifest[k].id]
    <3>1. f \in Surjection(DOMAIN manifest, T)
      BY DEF Surjection
    <3>2. IsFiniteSet(DOMAIN manifest)
      BY CaptureAssumption, FS_Interval
    <3>3. QED
      BY <3>1, <3>2, FS_Surjection
  <2>3. QED
    BY <2>1, <2>2
<1>5. QED
  BY <1>3, <1>4 DEF WireInv

\* The invariant holds when the capture starts.
LEMMA CaptureInit == Init => IInv
<1> SUFFICES ASSUME Init PROVE IInv
  OBVIOUS
<1>1. TypeOK
  <2>1. /\ stage \in [Devices -> {"absent", "known", "described", "valued"}]
        /\ listed \in [Devices -> SUBSET Devices]
    BY DEF Init
  <2>2. DOMAIN copy = {}
    BY DEF Init, NoDevices
  <2>3. /\ pc = "poll" /\ waited = 0 /\ since_new = 0 /\ calm = 0 /\ todo = {} /\ tries = 0
        /\ left = Record
    BY DEF Init
  <2>4. done \in BOOLEAN /\ complete \in BOOLEAN /\ grew \in BOOLEAN
    BY DEF Init
  <2>5. /\ waited \in 0 .. Timeout /\ since_new \in 0 .. Settle /\ calm \in 0 .. Settle
        /\ tries \in 0 .. MaxTries /\ left \in 0 .. Record
    BY <2>3, CaptureAssumption
  <2>6. QED
    BY <2>1, <2>2, <2>3, <2>4, <2>5 DEF TypeOK
<1>2. CopyInv /\ SamplesHoldTheTree
  BY DEF Init, CopyInv, NoDevices, SamplesHoldTheTree
<1>3. CountInv /\ CalmInv /\ TimesOutOnlyIfRestless
  BY CaptureAssumption DEF Init, CountInv, CalmInv, TimesOutOnlyIfRestless
<1>4. DoneInv /\ ReadInv
  BY DEF Init, DoneInv, ReadInv, NoDevices
<1>5. QED
  BY <1>1, <1>2, <1>3, <1>4, PublishedForm DEF IInv

\* Reading less than less is reading less.
LEMMA BeforeTransitive ==
  ASSUME NEW a, NEW b, NEW c, Before(a, b), Before(b, c)
  PROVE  Before(a, c)
  BY DEF Before

\* What the Controller says of a device, field by field.
LEMMA DeviceFields ==
  ASSUME WireInv, NEW d \in Devices
  PROVE  /\ Device(d).children = listed[d]
         /\ Device(d).feeds = IF stage[d] = "valued" THEN wire[d].feeds ELSE None
  BY DEF WireInv, Device, Reading

\* The Controller only ever learns: a copy stays behind it.
LEMMA ControllerGrows ==
  ASSUME TypeOK, WireInv, CopyInv, wire' = wire, tree' = tree, copy' = copy,
         pc' = "copy" => pc = "copy" /\ todo' = todo,
         \A d \in Devices :
           /\ listed[d] \subseteq listed'[d]
           /\ stage[d] = "described" => stage'[d] \in {"described", "valued"}
           /\ stage[d] = "valued" => stage'[d] = "valued"
  PROVE  CopyInv'
<1>1. ASSUME NEW d \in Described
      PROVE  d \in Described' /\ Before(Device(d), Device(d)')
  <2>1. d \in Devices /\ Devices' = Devices /\ d \in Described'
    BY <1>1 DEF Described, Devices
  <2>2. /\ Device(d).children = listed[d]
        /\ Device(d).feeds = IF stage[d] = "valued" THEN wire[d].feeds ELSE None
    BY <2>1, DeviceFields
  <2>3. /\ Device(d)'.children = listed'[d]
        /\ Device(d)'.feeds = IF stage'[d] = "valued" THEN wire[d].feeds ELSE None
    BY <2>1 DEF WireInv, Device, Reading
  <2>4. QED
    BY <2>1, <2>2, <2>3 DEF Before
<1>2. ASSUME NEW x, NEW d \in Described, Before(x, Device(d))
      PROVE  d \in Described' /\ Before(x, Device(d)')
  BY <1>1, <1>2, BeforeTransitive
<1>3. QED
  BY <1>2 DEF CopyInv

\* Only what is described and what it lists decides on completeness.
LEMMA CompleteUnchanged ==
  ASSUME wire' = wire, listed' = listed, Described' = Described,
         \A d \in Described : stage'[d] = stage[d]
  PROVE  Complete' = Complete
<1>1. [d \in Described |-> Device(d)]' = [d \in Described |-> Device(d)]
  BY DEF Device, Reading
<1>2. QED
  BY <1>1 DEF Complete, Whole

\* The panel's tree is complete exactly if some described devices close it off.
LEMMA CompleteByClosure ==
  ASSUME WireInv
  PROVE  Complete => \E ids \in SUBSET Described : Closed(ids)
<1> DEFINE t == [d \in Described |-> Device(d)]
<1>1. IsFiniteSet(DOMAIN t) /\ DOMAIN t = Described
  BY FS_Subset DEF Described, WireInv
<1>2. \A d \in Described : t[d].children = listed[d]
  BY DeviceFields DEF Described
<1>3. Complete <=> Whole(t)
  BY DEF Complete
<1> HIDE DEF t
<1>4. QED
  BY <1>1, <1>2, <1>3, WholeByClosure DEF Closed

\* Devices that are described and list what they listed stay a complete tree.
LEMMA DoneStays ==
  ASSUME DoneInv, tree' = tree, copy' = copy, done' = done,
         pc' = "copy" => pc = "copy" /\ todo' = todo,
         pc' \in {"poll", "check", "settled"} => pc \in {"poll", "check", "settled"},
         pc' = "settled" => pc = "settled",
         ~grew' => ~grew /\ \A d \in Described : d \in Described' /\ listed'[d] = listed[d]
  PROVE  DoneInv'
<1>1. ASSUME done' \/ pc' = "settled", ~grew'
      PROVE  \E ids \in SUBSET Described' : Closed(ids)' /\ \A d \in ids : CopiedAsListed(d)'
  <2>1. PICK ids \in SUBSET Described : Closed(ids) /\ \A d \in ids : CopiedAsListed(d)
    BY <1>1 DEF DoneInv
  <2>2. ids \in SUBSET Described' /\ Closed(ids)'
    BY <1>1, <2>1 DEF Closed
  <2>3. \A d \in ids : CopiedAsListed(d)'
    BY <1>1, <2>1 DEF CopiedAsListed
  <2>4. QED
    BY <2>2, <2>3
<1>2. pc' \in {"poll", "check", "settled"} => ~done'
  BY DEF DoneInv
<1>3. QED
  BY <1>1, <1>2 DEF DoneInv

\* What has been read stays what is published, however much more arrives.
LEMMA ReadStays ==
  ASSUME ReadInv, UNCHANGED <<wire, copy, tree>>,
         \A d \in Devices : listed'[d] \subseteq wire[d].children
  PROVE  ReadInv'
<1>1. \A d, as : Read(d, as)' <=> Read(d, as)
  BY DEF Read, Reading
<1>2. QED
  BY <1>1 DEF ReadInv, Devices

\* The devices' thread keeps the invariant: a device appears.
LEMMA AppearsKeeps ==
  ASSUME IInv, NEW d \in Devices, Appears(d)
  PROVE  IInv'
<1> USE DEF IInv
<1>1. /\ UNCHANGED <<wire, listed, result, grew, done>>
      /\ stage[d] = "absent"
      /\ stage' = [stage EXCEPT ![d] = "known"]
      /\ \/ Insert /\ UNCHANGED <<polling, calm>>
         \/ CompleteRaises
  BY DEF Appears, polling, CompleteRaises
<1>2. TypeOK' /\ CountInv'
  <2>1. CASE Insert /\ UNCHANGED <<polling, calm>>
    BY <1>1, <2>1, CaptureAssumption DEF TypeOK, CountInv, Devices, Insert, polling, copying, result
  <2>2. CASE CompleteRaises
    BY <1>1, <2>2, CaptureAssumption
       DEF TypeOK, CountInv, Devices, CompleteRaises, polling, copying, result
  <2>3. QED
    BY <1>1, <2>1, <2>2
<1>3. /\ copy' = copy /\ tree' = tree /\ sample' = sample
      /\ pc' \in {"poll", "check", "settled"} => pc' = pc
      /\ pc' = "copy" => pc = "copy" /\ todo' = todo
      /\ (waited' = waited /\ since_new' = since_new /\ calm' = calm)
           \/ (pc' = "failed" /\ since_new' = 0 /\ calm' = 0)
  BY <1>1 DEF Insert, CompleteRaises, copying, result, polling
<1>4. WireInv' /\ SamplesHoldTheTree' /\ TimesOutOnlyIfRestless'
  BY <1>1, <1>3 DEF WireInv, Devices, SamplesHoldTheTree, TimesOutOnlyIfRestless
<1>5. CopyInv'
  <2>1. \A e \in Devices : /\ listed[e] \subseteq listed'[e]
                           /\ stage[e] = "described" => stage'[e] \in {"described", "valued"}
                           /\ stage[e] = "valued" => stage'[e] = "valued"
    BY <1>1 DEF TypeOK
  <2>2. QED
    BY <1>1, <1>3, <2>1, ControllerGrows
<1>6. Described' = Described /\ \A e \in Described : stage'[e] = stage[e]
  BY <1>1 DEF Described, Devices, TypeOK
<1>7. CalmInv'
  BY <1>1, <1>3, <1>6, CompleteUnchanged DEF CalmInv
<1>8. DoneInv'
  BY <1>1, <1>3, <1>6, DoneStays
<1>9. ReadInv'
  BY <1>1, <1>3, ReadStays DEF ReadInv
<1>10. QED
  BY <1>2, <1>4, <1>5, <1>7, <1>8, <1>9

\* A description arrives: more is listed, and the settling starts over.
LEMMA DescribesKeeps ==
  ASSUME IInv, NEW d \in Devices, Describes(d)
  PROVE  IInv'
<1> USE DEF IInv
<1>1. PICK children \in SUBSET wire[d].children :
        listed[d] \subseteq children /\ listed' = [listed EXCEPT ![d] = children]
  BY DEF Describes
<1>2. /\ UNCHANGED <<wire, pc, polling, copying, result>>
      /\ stage[d] # "absent"
      /\ stage' = [stage EXCEPT ![d] = IF @ = "known" THEN "described" ELSE @]
      /\ grew' = (grew \/ stage[d] # "known")
      /\ calm' = 0
  BY DEF Describes
<1>3. children \in SUBSET Devices
  BY <1>1 DEF WireInv
<1>4. TypeOK' /\ CountInv'
  <2>1. /\ stage' \in [Devices -> {"absent", "known", "described", "valued"}]
        /\ listed' \in [Devices -> SUBSET Devices]
        /\ Devices' = Devices
    BY <1>1, <1>2, <1>3 DEF TypeOK, Devices
  <2>2. grew' \in BOOLEAN
    BY <1>2
  <2>3. calm' \in 0 .. Settle
    BY <1>2, CaptureAssumption
  <2>4. QED
    BY <1>2, <2>1, <2>2, <2>3 DEF TypeOK, CountInv, polling, copying, result
<1>5. WireInv' /\ SamplesHoldTheTree' /\ TimesOutOnlyIfRestless'
  BY <1>2, CaptureAssumption DEF WireInv, Devices, SamplesHoldTheTree, TimesOutOnlyIfRestless, result
<1>6. CopyInv'
  <2>1. \A e \in Devices : /\ listed[e] \subseteq listed'[e]
                           /\ stage[e] = "described" => stage'[e] \in {"described", "valued"}
                           /\ stage[e] = "valued" => stage'[e] = "valued"
    BY <1>1, <1>2 DEF TypeOK
  <2>2. QED
    BY <1>2, <2>1, ControllerGrows DEF copying, result
<1>7. CalmInv'
  BY <1>2, CaptureAssumption DEF CalmInv, TypeOK, polling
<1>8. DoneInv'
  <2>1. ASSUME ~grew', NEW e \in Described
        PROVE  ~grew /\ e \in Described' /\ listed'[e] = listed[e]
    <3>1. ~grew /\ stage[d] = "known"
      BY <1>2, <2>1
    <3>2. e # d /\ e \in Devices
      BY <3>1 DEF Described
    <3>3. stage'[e] = stage[e] /\ listed'[e] = listed[e]
      BY <1>1, <1>2, <3>2 DEF TypeOK
    <3>4. QED
      BY <1>2, <3>1, <3>2, <3>3 DEF Described, Devices
  <2>2. ~grew' => ~grew
    BY <1>2
  <2>3. tree' = tree /\ copy' = copy /\ done' = done /\ pc' = pc /\ todo' = todo
    BY <1>2 DEF polling, copying, result
  <2>4. QED
    BY <2>1, <2>2, <2>3, DoneStays
<1>9. ReadInv'
  <2>1. \A e \in Devices : listed'[e] \subseteq wire[e].children
    BY <1>1 DEF ReadInv, TypeOK
  <2>2. QED
    BY <1>2, <2>1, ReadStays DEF copying, result
<1>10. QED
  BY <1>4, <1>5, <1>6, <1>7, <1>8, <1>9

\* A value arrives: either nothing is new, or the settling starts over.
LEMMA OnPropertyKeeps ==
  ASSUME IInv, NEW d \in Devices, OnProperty(d)
  PROVE  IInv'
<1> USE DEF IInv
<1>1. /\ UNCHANGED <<wire, listed, waited, done, result, grew>>
      /\ stage[d] \in {"described", "valued"}
      /\ stage' = [stage EXCEPT ![d] = "valued"]
  BY DEF OnProperty
<1>2. \/ stage[d] = "valued" /\ UNCHANGED <<since_new, calm, pc, copying>>
      \/ stage[d] # "valued" /\ since_new' = 0 /\ calm' = 0 /\ Insert
  BY DEF OnProperty
<1>3. TypeOK' /\ CountInv'
  <2>1. /\ stage' \in [Devices -> {"absent", "known", "described", "valued"}]
        /\ Devices' = Devices
    BY <1>1 DEF TypeOK, Devices
  <2>2. /\ since_new' \in 0 .. Settle /\ calm' \in 0 .. Settle
        /\ tries' \in 0 .. MaxTries
        /\ todo' = todo /\ copy' = copy
        /\ pc' \in {pc, "failed", "snapshot"}
        /\ pc' \in {"snapshot", "copy", "record"} => tries' < MaxTries
        /\ pc' \in {"poll", "check", "settled"} => pc' = pc /\ tries' = tries
        /\ tree # None /\ pc' \in {"snapshot", "copy", "record"} => left > 0
    BY <1>2, CaptureAssumption DEF TypeOK, CountInv, Insert, copying
  <2>3. TypeOK'
    BY <1>1, <2>1, <2>2 DEF TypeOK, result
  <2>4. CountInv'
    BY <1>1, <2>2 DEF CountInv, result
  <2>5. QED
    BY <2>3, <2>4
<1>4. WireInv' /\ SamplesHoldTheTree'
  BY <1>1 DEF WireInv, Devices, SamplesHoldTheTree, result
<1>5. TimesOutOnlyIfRestless'
  BY <1>1, <1>2, CaptureAssumption DEF TimesOutOnlyIfRestless, Insert
<1>6. CopyInv'
  <2>1. copy' = copy /\ tree' = tree /\ (pc' = "copy" => pc = "copy" /\ todo' = todo)
    BY <1>1, <1>2 DEF Insert, copying, result
  <2>2. \A e \in Devices : /\ listed[e] \subseteq listed'[e]
                           /\ stage[e] = "described" => stage'[e] \in {"described", "valued"}
                           /\ stage[e] = "valued" => stage'[e] = "valued"
    BY <1>1 DEF TypeOK
  <2>3. QED
    BY <1>1, <2>1, <2>2, ControllerGrows
<1>7. CalmInv'
  <2>1. CASE stage[d] = "valued"
    <3>1. stage' = stage
      BY <1>1, <2>1 DEF TypeOK
    <3>2. Described' = Described
      BY <1>1, <3>1 DEF Described, Devices
    <3>3. QED
      BY <1>1, <1>2, <2>1, <3>1, <3>2, CompleteUnchanged DEF CalmInv
  <2>2. CASE stage[d] # "valued"
    BY <1>2, <2>2 DEF CalmInv
  <2>3. QED
    BY <2>1, <2>2
<1>8. DoneInv'
  <2>1. Described' = Described
    BY <1>1 DEF Described, Devices, TypeOK
  <2>2. /\ tree' = tree /\ copy' = copy /\ done' = done /\ grew' = grew /\ listed' = listed
        /\ pc' \in {"poll", "check", "settled"} => pc' = pc
        /\ pc' = "copy" => pc = "copy" /\ todo' = todo
    BY <1>1, <1>2 DEF Insert, copying, result
  <2>3. QED
    BY <2>1, <2>2, DoneStays
<1>9. ReadInv'
  BY <1>1, <1>2, ReadStays DEF ReadInv, Insert, copying, result
<1>10. QED
  BY <1>3, <1>4, <1>5, <1>6, <1>7, <1>8, <1>9

\* Whoever does not touch the Controller cannot disturb what it says.
LEMMA ControllerUnchanged ==
  ASSUME UNCHANGED controller
  PROVE  /\ Devices' = Devices /\ Described' = Described /\ Complete' = Complete
         /\ \A d \in Devices : Device(d)' = Device(d)
         /\ WireInv => WireInv'
<1>1. Devices' = Devices /\ Described' = Described
  BY DEF controller, Devices, Described
<1>2. \A d \in Devices : Device(d)' = Device(d)
  BY DEF controller, Device, Reading
<1>3. WireInv => WireInv'
  BY DEF controller, WireInv, Devices
<1>4. QED
  BY <1>1, <1>2, <1>3, CompleteUnchanged DEF controller

\* The polling loop keeps the invariant: the code's clock and the history's run
\* together.
LEMMA PollingKeeps ==
  ASSUME IInv, Sleep \/ Check \/ CheckSettled \/ TimeOut
  PROVE  IInv'
<1> USE CaptureAssumption DEF IInv, polling, copying, result, history
<1>1. UNCHANGED controller /\ UNCHANGED copying /\ UNCHANGED result
  BY DEF Sleep, Check, CheckSettled, TimeOut
<1>2. /\ Devices' = Devices /\ Described' = Described /\ Complete' = Complete
      /\ \A d \in Devices : Device(d)' = Device(d)
      /\ WireInv'
  BY <1>1, ControllerUnchanged
<1>3. pc' # "copy" /\ pc \notin {"copy", "snapshot", "record"} /\ tries' = tries /\ left' = left
  BY <1>1 DEF Sleep, Check, CheckSettled, TimeOut, Leave
<1>4. CopyInv' /\ SamplesHoldTheTree' /\ ReadInv'
  <2>1. ReadInv'
    BY <1>1, ReadStays DEF controller, ReadInv
  <2>2. QED
    BY <1>1, <1>2, <1>3, <2>1 DEF CopyInv, Described, SamplesHoldTheTree
<1>5. DoneInv'
  <2>1. CASE Sleep \/ TimeOut
    <3>1. /\ done' = done /\ grew' = grew /\ pc \in {"poll", "check", "settled"}
          /\ pc' # "settled"
      BY <2>1 DEF Sleep, TimeOut, Leave
    <3>2. QED
      BY <1>1, <1>2, <1>3, <3>1, DoneStays DEF controller
  <2>2. CASE Check
    <3>1. done' = done /\ ~done /\ pc' = IF Complete THEN "settled" ELSE "poll"
      BY <2>2 DEF Check, DoneInv
    <3>2. tree' = None
      BY <1>1, <2>2 DEF Check, CountInv
    <3>3. ASSUME pc' = "settled"
          PROVE  \E ids \in SUBSET Described' : Closed(ids)' /\ \A d \in ids : CopiedAsListed(d)'
      <4>1. PICK ids \in SUBSET Described : Closed(ids)
        BY <3>1, <3>3, CompleteByClosure
      <4>2. Closed(ids)' /\ ids \in SUBSET Described'
        BY <1>1, <1>2, <4>1 DEF Closed, controller
      <4>3. \A d \in ids : CopiedAsListed(d)'
        BY <3>2, <3>3 DEF CopiedAsListed
      <4>4. QED
        BY <4>2, <4>3
    <3>4. QED
      BY <3>1, <3>3 DEF DoneInv
  <2>3. CASE CheckSettled
    <3>1. /\ pc = "settled" /\ grew' = grew /\ pc' = IF done' THEN "snapshot" ELSE "poll"
      BY <2>3 DEF CheckSettled, Leave
    <3>2. tree' = None
      BY <1>1, <3>1 DEF CountInv
    <3>3. ASSUME done', ~grew'
          PROVE  \E ids \in SUBSET Described' : Closed(ids)' /\ \A d \in ids : CopiedAsListed(d)'
      <4>1. PICK ids \in SUBSET Described : Closed(ids)
        BY <3>1, <3>3 DEF DoneInv
      <4>2. Closed(ids)' /\ ids \in SUBSET Described'
        BY <1>1, <1>2, <4>1 DEF Closed, controller
      <4>3. \A d \in ids : CopiedAsListed(d)'
        BY <3>1, <3>2, <3>3 DEF CopiedAsListed
      <4>4. QED
        BY <4>2, <4>3
    <3>4. QED
      BY <3>1, <3>3 DEF DoneInv
  <2>4. QED
    BY <2>1, <2>2, <2>3
<1>6. CASE Sleep
  <2> USE <1>6 DEF Sleep
  <2>1. TypeOK' /\ CountInv'
    BY <1>1, <1>2 DEF Capped, controller, TypeOK, CountInv
  <2>2. CalmInv' /\ TimesOutOnlyIfRestless'
    BY <1>2 DEF Capped, TypeOK, CalmInv, TimesOutOnlyIfRestless
  <2>3. QED
    BY <1>2, <1>4, <1>5, <2>1, <2>2
<1>7. CASE Check
  <2> USE <1>7 DEF Check
  <2>1. grew' \in BOOLEAN
    BY DEF TypeOK
  <2>2. TypeOK' /\ CountInv'
    BY <1>1, <1>2, <2>1 DEF controller, TypeOK, CountInv
  <2>3. CalmInv' /\ TimesOutOnlyIfRestless'
    BY <1>2 DEF TypeOK, CalmInv, TimesOutOnlyIfRestless
  <2>4. QED
    BY <1>2, <1>4, <1>5, <2>2, <2>3
<1>8. CASE CheckSettled
  <2> USE <1>8 DEF CheckSettled, Leave
  <2>1. done' \in BOOLEAN
    OBVIOUS
  <2>2. TypeOK' /\ CountInv'
    BY <1>1, <1>2, <2>1 DEF controller, TypeOK, CountInv
  <2>3. CASE done'
    <3>1. pc' = "snapshot" /\ since_new' = 0 /\ calm' = 0
      BY <2>3
    <3>2. QED
      BY <1>2, <1>4, <1>5, <2>2, <3>1 DEF CalmInv, TimesOutOnlyIfRestless
  <2>4. CASE ~done'
    <3>1. UNCHANGED <<waited, since_new, calm>>
      BY <2>4
    <3>2. ~(since_new >= Settle)
      BY <2>4
    <3>3. calm < Settle
      BY <3>2 DEF TypeOK, CalmInv
    <3>4. QED
      BY <1>2, <1>4, <1>5, <2>2, <3>1, <3>3 DEF CalmInv, TimesOutOnlyIfRestless
  <2>5. QED
    BY <2>3, <2>4
<1>9. CASE TimeOut
  BY <1>1, <1>2, <1>4, <1>9, <1>5 DEF TimeOut, Leave, controller, TypeOK, CountInv, CalmInv,
                                TimesOutOnlyIfRestless
<1>10. QED
  BY <1>6, <1>7, <1>8, <1>9

\* Copying keeps it: what is read now is at least what was read before.
LEMMA CopyingKeeps ==
  ASSUME IInv, BeginCopy \/ CopyDevice \/ EndCopy
  PROVE  IInv'
<1> USE CaptureAssumption DEF IInv, polling, copying, result, history
<1>1. UNCHANGED controller /\ UNCHANGED polling /\ UNCHANGED history /\ complete' = complete
  BY DEF BeginCopy, CopyDevice, EndCopy
<1>2. /\ Devices' = Devices /\ Described' = Described /\ Complete' = Complete
      /\ \A d \in Devices : Device(d)' = Device(d)
      /\ WireInv'
  BY <1>1, ControllerUnchanged
<1>3. CalmInv' /\ TimesOutOnlyIfRestless' /\ ReadInv'
  <2>1. CalmInv' /\ TimesOutOnlyIfRestless'
    BY <1>1, <1>2 DEF CalmInv, TimesOutOnlyIfRestless, BeginCopy, CopyDevice, EndCopy
  <2>2. \A d, as : Read(d, as)' <=> Read(d, as)
    BY <1>1 DEF controller, Read, Reading
  <2>3. \A d \in DOMAIN copy' : Read(d, copy'[d])
    <3>1. CASE BeginCopy \/ EndCopy
      BY <3>1 DEF BeginCopy, EndCopy, NoDevices
    <3>2. CASE CopyDevice
      <4>1. \A d \in Described : Read(d, Device(d))
        <5>1. \A d \in Described : Device(d).children = listed[d]
          BY DeviceFields DEF Described
        <5>2. QED
          BY <5>1 DEF Read, ReadInv, Device, Described
      <4>2. QED
        BY <3>2, <4>1 DEF CopyDevice, ReadInv
    <3>3. QED
      BY <3>1, <3>2
  <2>4. tree' # None => \A d \in DOMAIN tree' : Read(d, tree'[d])
    BY DEF BeginCopy, CopyDevice, EndCopy, ReadInv
  <2>5. ReadInv'
    BY <1>1, <1>2, <2>2, <2>3, <2>4 DEF ReadInv, controller
  <2>6. QED
    BY <2>1, <2>5
<1>4. Described \subseteq Devices
  BY DEF Described
<1>5. /\ listed' = listed /\ done' = done /\ grew' = grew
      /\ pc \notin {"poll", "check", "settled"} /\ pc' \notin {"poll", "check", "settled"}
  BY <1>1 DEF controller, BeginCopy, CopyDevice, EndCopy
<1>6. ASSUME done, ~grew
      PROVE  \E ids \in SUBSET Described :
               /\ Closed(ids) /\ Closed(ids)'
               /\ \A d \in ids : CopiedAsListed(d) /\ Device(d).children = listed[d]
  <2>1. PICK ids \in SUBSET Described : Closed(ids) /\ \A d \in ids : CopiedAsListed(d)
    BY <1>6 DEF DoneInv
  <2>2. Closed(ids)'
    BY <1>5, <2>1 DEF Closed
  <2>3. \A d \in ids : Device(d).children = listed[d]
    BY <1>4, DeviceFields
  <2>4. QED
    BY <2>1, <2>2, <2>3
<1>7. ASSUME \A d \in Described :
               CopiedAsListed(d) /\ Device(d).children = listed[d] => CopiedAsListed(d)'
      PROVE  DoneInv'
  <2>1. CASE done /\ ~grew
    <3>1. PICK ids \in SUBSET Described :
            /\ Closed(ids)'
            /\ \A d \in ids : CopiedAsListed(d) /\ Device(d).children = listed[d]
      BY <1>6, <2>1
    <3>2. QED
      BY <1>2, <1>5, <1>7, <3>1 DEF DoneInv
  <2>2. CASE ~(done /\ ~grew)
    BY <1>5, <2>2 DEF DoneInv
  <2>3. QED
    BY <2>1, <2>2
<1>8. CASE BeginCopy
  <2> USE <1>8 DEF BeginCopy
  <2>1. DOMAIN copy' = {}
    BY DEF NoDevices
  <2>2. TypeOK' /\ CountInv'
    BY <1>1, <1>2, <2>1 DEF TypeOK, CountInv, controller
  <2>3. SamplesHoldTheTree'
    BY DEF SamplesHoldTheTree
  <2>4. tree # None => DOMAIN tree \subseteq todo'
    BY DEF CopyInv, Described
  <2>5. CopyInv'
    BY <1>2, <1>4, <2>1, <2>4 DEF CopyInv
  <2>6. DoneInv'
    <3>1. ASSUME NEW d \in Described, CopiedAsListed(d) PROVE CopiedAsListed(d)'
      <4>1. d \in todo'
        BY DEF Described
      <4>2. QED
        BY <1>5, <3>1, <4>1 DEF CopiedAsListed
    <3>2. QED
      BY <1>7, <3>1
  <2>7. QED
    BY <1>2, <1>3, <2>2, <2>3, <2>5, <2>6
<1>9. CASE CopyDevice
  <2>1. PICK d \in todo :
          /\ todo' = todo \ {d}
          /\ copy' = IF d \in Described
                     THEN [e \in DOMAIN copy \union {d} |-> IF e = d THEN Device(d) ELSE copy[e]]
                     ELSE copy
    BY <1>9 DEF CopyDevice
  <2>2. pc = "copy" /\ UNCHANGED <<pc, tries, result>>
    BY <1>9 DEF CopyDevice
  <2>3. TypeOK' /\ CountInv' /\ SamplesHoldTheTree'
    BY <1>1, <1>2, <2>1, <2>2 DEF TypeOK, CountInv, SamplesHoldTheTree, controller
  <2>4. \A e \in DOMAIN copy' : e \in Described /\ Before(copy'[e], Device(e))
    BY <2>1 DEF CopyInv, Before
  <2>5. tree # None =>
          \A e \in DOMAIN tree : e \in todo' \/ (e \in DOMAIN copy' /\ Before(tree[e], copy'[e]))
    BY <2>1, <2>2 DEF CopyInv
  <2>6. CopyInv'
    BY <1>2, <1>4, <2>2, <2>4, <2>5 DEF CopyInv
  <2>7. DoneInv'
    <3>1. ASSUME NEW e \in Described, CopiedAsListed(e), Device(e).children = listed[e]
          PROVE  CopiedAsListed(e)'
      <4>1. tree = None => e \in todo' \/ (e \in DOMAIN copy' /\ copy'[e].children = listed[e])
        BY <2>1, <2>2, <3>1 DEF CopiedAsListed
      <4>2. QED
        BY <1>5, <2>2, <3>1, <4>1 DEF CopiedAsListed
    <3>2. QED
      BY <1>7, <3>1
  <2>8. QED
    BY <1>2, <1>3, <2>3, <2>6, <2>7
<1>10. CASE EndCopy
  <2>1. /\ pc = "copy" /\ todo = {} /\ todo' = todo
        /\ DOMAIN copy' = {} /\ tries' = 0 /\ pc' \in {"failed", "report", "record"}
    BY <1>10 DEF EndCopy, NoDevices
  <2>2. CASE tree = None
    <3>1. /\ tree' \in {None, copy} /\ sample' = sample /\ sample = None /\ left' = left
          /\ pc' = IF tree' = None THEN "failed" ELSE IF left' = 0 THEN "report" ELSE "record"
      BY <1>10, <2>2 DEF EndCopy, CountInv
    <3>2. TypeOK' /\ CountInv' /\ SamplesHoldTheTree'
      BY <1>1, <1>2, <2>1, <3>1 DEF TypeOK, CountInv, SamplesHoldTheTree, controller
    <3>3. CopyInv'
      BY <1>2, <1>4, <2>1, <3>1 DEF CopyInv
    <3>4. DoneInv'
      <4>1. ASSUME NEW e \in Described, CopiedAsListed(e) PROVE CopiedAsListed(e)'
        BY <1>5, <2>1, <2>2, <3>1, <4>1 DEF CopiedAsListed
      <4>2. QED
        BY <1>7, <4>1
    <3>5. QED
      BY <1>2, <1>3, <3>2, <3>3, <3>4
  <2>3. CASE tree # None
    <3>1. /\ tree' = tree /\ sample' = copy /\ left' = left - 1
          /\ pc' = IF left' = 0 THEN "report" ELSE "record"
      BY <1>10, <2>3 DEF EndCopy
    <3>2. TypeOK' /\ CountInv'
      BY <1>1, <1>2, <2>1, <2>3, <3>1 DEF TypeOK, CountInv, controller
    <3>3. SamplesHoldTheTree'
      BY <2>1, <2>3, <3>1 DEF CopyInv, SamplesHoldTheTree
    <3>4. CopyInv'
      BY <1>2, <1>4, <2>1, <2>3, <3>1 DEF CopyInv
    <3>5. DoneInv'
      <4>1. ASSUME NEW e \in Described, CopiedAsListed(e) PROVE CopiedAsListed(e)'
        BY <1>5, <2>1, <2>3, <3>1, <4>1 DEF CopiedAsListed
      <4>2. QED
        BY <1>7, <4>1
    <3>6. QED
      BY <1>2, <1>3, <3>2, <3>3, <3>4, <3>5
  <2>4. QED
    BY <2>2, <2>3
<1>11. QED
  BY <1>8, <1>9, <1>10

\* Waiting for a sample and reporting change nothing that has been read.
LEMMA OtherStepsKeep ==
  ASSUME IInv, Wait \/ Report \/ UNCHANGED vars
  PROVE  IInv'
<1> USE DEF IInv, polling, copying, result, history
<1>1. /\ UNCHANGED controller /\ UNCHANGED polling /\ UNCHANGED copying /\ UNCHANGED history
      /\ UNCHANGED <<tree, sample, left>>
  BY DEF Wait, Report, vars
<1>2. /\ Devices' = Devices /\ Described' = Described /\ Complete' = Complete
      /\ \A d \in Devices : Device(d)' = Device(d)
      /\ WireInv'
  BY <1>1, ControllerUnchanged
<1>3. /\ \/ pc = "record" /\ pc' = "snapshot"
         \/ pc = "report" /\ pc' = "returned"
         \/ pc' = pc
  BY DEF Wait, Report, vars
<1>4. complete' \in BOOLEAN
  <2>1. CASE Report
    BY <2>1 DEF Report
  <2>2. CASE complete' = complete
    BY <2>2 DEF TypeOK
  <2>3. QED
    BY <2>1, <2>2 DEF Wait, vars
<1>5. TypeOK' /\ CountInv'
  <2>1. pc' \in {pc, "snapshot", "returned"}
    BY <1>3
  <2>2. /\ pc' \in {"poll", "check", "settled", "snapshot", "copy", "record", "report",
                    "returned", "failed"}
        /\ done' = done /\ grew' = grew
    BY <1>1, <2>1 DEF TypeOK
  <2>3. TypeOK'
    BY <1>1, <1>2, <1>4, <2>2 DEF TypeOK, controller
  <2>4. CountInv'
    BY <1>1, <1>3 DEF CountInv
  <2>5. QED
    BY <2>3, <2>4
<1>6. CopyInv' /\ SamplesHoldTheTree'
  BY <1>1, <1>2, <1>3 DEF CopyInv, SamplesHoldTheTree, Described
<1>7. CalmInv' /\ TimesOutOnlyIfRestless'
  BY <1>1, <1>2, <1>3 DEF CalmInv, TimesOutOnlyIfRestless
<1>8. DoneInv'
  BY <1>1, <1>2, <1>3, DoneStays DEF controller
<1>9. ReadInv'
  BY <1>1, ReadStays DEF controller, ReadInv
<1>10. QED
  BY <1>2, <1>5, <1>6, <1>7, <1>8, <1>9

\* The invariant is inductive.
LEMMA CaptureStep == IInv /\ [Next]_vars => IInv'
<1> SUFFICES ASSUME IInv, [Next]_vars PROVE IInv'
  OBVIOUS
<1>1. CASE Arrival
  BY <1>1, AppearsKeeps, DescribesKeeps, OnPropertyKeeps DEF Arrival
<1>2. CASE Capture
  BY <1>2, PollingKeeps, CopyingKeeps, OtherStepsKeep DEF Capture
<1>3. CASE UNCHANGED vars
  BY <1>3, OtherStepsKeep
<1>4. QED
  BY <1>1, <1>2, <1>3 DEF Next

\* The inductive invariant of the capture.
THEOREM CaptureInvariance == Spec => []IInv
  BY CaptureInit, CaptureStep, PTL DEF Spec

\* Every sample has, of every device of the first copy, what that copy has.
THEOREM SamplesHold == Spec => []SamplesHoldTheTree
<1>1. IInv => SamplesHoldTheTree
  BY DEF IInv
<1>2. QED
  BY <1>1, CaptureInvariance, PTL

\* A complete tree that has nothing new for the settling time is not timed out.
THEOREM RestlessTimeOut == Spec => []TimesOutOnlyIfRestless
<1>1. IInv => TimesOutOnlyIfRestless
  BY DEF IInv
<1>2. QED
  BY <1>1, CaptureInvariance, PTL

\* A capture that stopped on a complete, settled tree returns a tree with every
\* device it lists, unless a description grew after the last check.
THEOREM DoneIsWhole == Spec => []DoneTreeIsWhole
<1>1. IInv => DoneTreeIsWhole
  <2> SUFFICES ASSUME IInv, done, tree # None, ~grew PROVE Whole(tree)
    BY DEF DoneTreeIsWhole
  <2>1. PICK ids \in SUBSET Described : Closed(ids) /\ \A d \in ids : CopiedAsListed(d)
    BY DEF IInv, DoneInv
  <2>2. IsFiniteSet(DOMAIN tree)
    <3>1. DOMAIN tree \in SUBSET Devices
      BY DEF IInv, CopyInv, Described
    <3>2. QED
      BY <3>1, FS_Subset DEF IInv, WireInv
  <2>3. ids \in SUBSET DOMAIN tree /\ Panel \in ids /\ \A d \in ids : tree[d].children \subseteq ids
    BY <2>1 DEF Closed, CopiedAsListed
  <2>4. QED
    BY <2>2, <2>3, WholeByClosure
<1>2. QED
  BY <1>1, CaptureInvariance, PTL
-----------------------------------------------------------------------------
(* What an emitter publishes for a manifest, in terms of its entries.        *)

\* The last of several writes is one of them.
LEMMA LastIsWritten ==
  ASSUME NEW m, DOMAIN m = 1 .. Len(m), Len(m) \in Nat,
         NEW entries \in SUBSET DOMAIN m, entries # {}
  PROVE  \E j \in entries : Published!LastWritten(m, entries) = m[j].id
<1> DEFINE n == Len(m)
           Rank(j) == Published!ClassRank(m[j].class)
           Behind(j) == n - j + (IF Rank(j) = 0 THEN n + n ELSE IF Rank(j) = 1 THEN n ELSE 0)
           S == {Behind(j) : j \in entries}
<1>1. \A j \in entries : j \in 1 .. n /\ Rank(j) \in {0, 1, 2}
  BY DEF Published!ClassRank
<1> HIDE DEF Rank, n
<1>2. n \in Nat
  BY DEF n
<1>3. S \in SUBSET Nat /\ S # {}
  BY <1>1, <1>2
<1>4. PICK x \in S : \A y \in S : <<y, x>> \notin OpToRel(<, Nat)
  <2> HIDE DEF S
  <2> QED BY <1>3, NatLessThanWellFounded, WFMin
<1>5. PICK j \in entries : x = Behind(j)
  BY <1>4
<1>6. ASSUME NEW k \in entries, k # j
      PROVE  Rank(k) < Rank(j) \/ (Rank(k) = Rank(j) /\ k < j)
  <2>1. Behind(k) \in Nat /\ Behind(j) \in Nat /\ ~(Behind(k) < Behind(j))
    BY <1>3, <1>4, <1>5 DEF OpToRel
  <2>2. QED
    BY <1>1, <1>2, <1>6, <2>1
<1>7. \A k \in entries : k # j => Published!WrittenBefore(m, k, j)
  BY <1>6 DEF Published!WrittenBefore, Rank
<1>8. QED
  BY <1>7 DEF Published!LastWritten

\* A device of the tree is the one entry with its id.
LEMMA TreeEntry ==
  ASSUME NEW m, \A j, k \in DOMAIN m : m[j].id = m[k].id => j = k
  PROVE  /\ DOMAIN Published!Tree(m) = {m[j].id : j \in DOMAIN m}
         /\ \A j \in DOMAIN m : Published!Tree(m)[m[j].id] = Published!Device(m, m[j])
<1>1. Published!ToSet(m) = {m[j] : j \in DOMAIN m}
  BY DEF Published!ToSet
<1>2. DOMAIN Published!Tree(m) = {m[j].id : j \in DOMAIN m}
  BY <1>1 DEF Published!Tree
<1>3. ASSUME NEW j \in DOMAIN m
      PROVE  Published!Tree(m)[m[j].id] = Published!Device(m, m[j])
  <2>1. (CHOOSE i \in Published!ToSet(m) : i.id = m[j].id) = m[j]
    BY <1>1
  <2>2. m[j].id \in {i.id : i \in Published!ToSet(m)}
    BY <1>1
  <2>3. QED
    BY <2>1, <2>2 DEF Published!Tree
<1>4. QED
  BY <1>2, <1>3

\* The wiring of what a well-formed manifest publishes.
Types == {"distribution-enclosure", "circuit", "lugs", "bess", "pv", "evse", "mid"}
Ders  == {"bess", "pv", "evse"}

WiredAs(d) ==
  /\ d # None
  /\ wire[d] = [type |-> wire[d].type, meter_only |-> wire[d].meter_only,
                children |-> wire[d].children, feeds |-> wire[d].feeds,
                fed_by |-> wire[d].fed_by, direction |-> wire[d].direction]
  /\ wire[d].type \in Types
  /\ wire[d].type = "distribution-enclosure" <=> d = Panel
  /\ wire[d].meter_only \in BOOLEAN
  /\ wire[d].meter_only => wire[d].type = "circuit"
  /\ \A e \in Devices : e \in wire[d].children =>
       /\ e # Panel
       /\ IF d = Panel THEN wire[e].type # "mid"
                       ELSE wire[d].type = "bess" /\ wire[e].type = "mid"
  /\ \A e, mid \in Devices :
       wire[d].type = "bess" /\ wire[e].type = "bess" /\ wire[mid].type = "mid" => d = e
  /\ wire[d].feeds # None =>
       /\ wire[d].type = "circuit" /\ ~wire[d].meter_only
       /\ wire[d].feeds \in Devices /\ wire[wire[d].feeds].type \in Ders
       /\ \A e \in Devices : /\ wire[e].feeds = wire[d].feeds => e = d
                             /\ wire[e].fed_by # wire[d].feeds
  /\ wire[d].fed_by # None =>
       /\ wire[d].direction = "upstream"
       /\ wire[d].fed_by \in Devices /\ wire[wire[d].fed_by].type = "bess"
       /\ \A e \in Devices : wire[e].fed_by \in {None, wire[d].fed_by}
  /\ IF wire[d].type = "lugs" THEN wire[d].direction \in {"upstream", "downstream"}
                              ELSE wire[d].direction = None

Wired == \A d \in Devices : WiredAs(d)

LEMMA PublishedWiring ==
  ASSUME NEW m \in Installations, wire = Published!Tree(m)
  PROVE  Wired
<1>1. DOMAIN m = 1 .. Len(m) /\ Len(m) \in Nat
  BY CaptureAssumption
<1>2. Published!WellFormed(m, Panel)
  BY CaptureAssumption
<1> DEFINE Entries == DOMAIN m
<1>3. \A j, k \in Entries : m[j].id = m[k].id => j = k
  BY <1>2 DEF Published!WellFormed
<1>4. /\ Devices = {m[j].id : j \in Entries}
      /\ \A j \in Entries : wire[m[j].id] = Published!Device(m, m[j])
  BY <1>3, TreeEntry DEF Devices
<1>5. \A j \in Entries :
        /\ m[j].id # None
        /\ m[j].class \in {"panel", "circuit", "remote-ct", "lugs", "bess", "pv", "evse", "mid"}
        /\ m[j].class = "panel" <=> m[j].id = Panel
        /\ IF m[j].class = "lugs" THEN m[j].direction \in {"upstream", "downstream"}
                                  ELSE m[j].direction = None
  BY <1>2 DEF Published!WellFormed
<1>6. \A j, k, x \in Entries :
        m[j].class = "bess" /\ m[k].class = "bess" /\ m[x].class = "mid" => j = k
  BY <1>2 DEF Published!WellFormed
<1>7. ASSUME NEW c, Published!Feeds(m, c) # None
      PROVE  \E k \in Entries : /\ Published!Feeds(m, c) = m[k].id
                                /\ m[k].feed = c
                                /\ m[k].class \in Ders
                                /\ m[k].class = "bess" => m[k].position # "UPSTREAM"
  <2>1. Published!DersOnFeed(m, c) # {} /\ Published!DersOnFeed(m, c) \in SUBSET Entries
    BY <1>7 DEF Published!Feeds, Published!LastWritten, Published!DersOnFeed
  <2>2. PICK k \in Published!DersOnFeed(m, c) : Published!Feeds(m, c) = m[k].id
    BY <1>1, <2>1, LastIsWritten DEF Published!Feeds
  <2>3. QED
    BY <2>2 DEF Published!DersOnFeed, Ders
<1>8. ASSUME Published!UpstreamFedBy(m) # None
      PROVE  \E k \in Entries : /\ Published!UpstreamFedBy(m) = m[k].id
                                /\ m[k].class = "bess" /\ m[k].position = "UPSTREAM"
  <2>1. Published!UpstreamBatteries(m) # {} /\ Published!UpstreamBatteries(m) \in SUBSET Entries
    BY <1>8 DEF Published!UpstreamFedBy, Published!LastWritten, Published!UpstreamBatteries
  <2>2. PICK k \in Published!UpstreamBatteries(m) : Published!UpstreamFedBy(m) = m[k].id
    BY <1>1, <2>1, LastIsWritten DEF Published!UpstreamFedBy
  <2>3. QED
    BY <2>2 DEF Published!UpstreamBatteries
<1>9. ASSUME NEW j \in Entries
      PROVE  LET d == m[j].id
             IN  /\ wire[d] = [type |-> wire[d].type, meter_only |-> wire[d].meter_only,
                               children |-> wire[d].children, feeds |-> wire[d].feeds,
                               fed_by |-> wire[d].fed_by, direction |-> wire[d].direction]
                 /\ wire[d].type = Published!TypeOf(m[j].class)
                 /\ wire[d].meter_only = (m[j].class = "remote-ct")
                 /\ wire[d].children = Published!Children(m, m[j].class)
                 /\ wire[d].feeds = IF m[j].class = "circuit" THEN Published!Feeds(m, d) ELSE None
                 /\ wire[d].fed_by =
                      IF m[j].direction = "upstream" THEN Published!UpstreamFedBy(m) ELSE None
                 /\ wire[d].direction = m[j].direction
  <2>1. wire[m[j].id] = Published!Device(m, m[j])
    BY <1>4
  <2>2. QED
    BY <2>1 DEF Published!Device
<1>10. ASSUME NEW j \in Entries
       PROVE  LET t == wire[m[j].id].type
              IN  /\ t \in Types
                  /\ \A class \in {"lugs", "bess", "pv", "evse", "mid"} :
                       t = class <=> m[j].class = class
                  /\ t = "distribution-enclosure" <=> m[j].class = "panel"
                  /\ t = "circuit" <=> m[j].class \in {"circuit", "remote-ct"}
  <2>1. wire[m[j].id].type = Published!TypeOf(m[j].class)
    BY <1>9
  <2>2. m[j].class \in {"panel", "circuit", "remote-ct", "lugs", "bess", "pv", "evse", "mid"}
    BY <1>5
  <2>3. QED
    BY <2>1, <2>2 DEF Published!TypeOf, Types
<1> SUFFICES ASSUME NEW j \in Entries
             PROVE  WiredAs(m[j].id)
  BY <1>4 DEF Wired
<1> DEFINE d == m[j].id
<1>11. /\ d # None
       /\ wire[d] = [type |-> wire[d].type, meter_only |-> wire[d].meter_only,
                     children |-> wire[d].children, feeds |-> wire[d].feeds,
                     fed_by |-> wire[d].fed_by, direction |-> wire[d].direction]
       /\ wire[d].type \in Types
       /\ wire[d].type = "distribution-enclosure" <=> d = Panel
       /\ wire[d].meter_only \in BOOLEAN
       /\ wire[d].meter_only => wire[d].type = "circuit"
       /\ IF wire[d].type = "lugs" THEN wire[d].direction \in {"upstream", "downstream"}
                                   ELSE wire[d].direction = None
  BY <1>5, <1>9, <1>10
<1>12. \A e \in Devices : e \in wire[d].children =>
         /\ e # Panel
         /\ IF d = Panel THEN wire[e].type # "mid"
                         ELSE wire[d].type = "bess" /\ wire[e].type = "mid"
  <2>1. wire[d].children = Published!Children(m, m[j].class)
    BY <1>9
  <2> SUFFICES ASSUME NEW k \in Entries, m[k].id \in Published!Children(m, m[j].class)
               PROVE  /\ m[k].id # Panel
                      /\ IF d = Panel THEN wire[m[k].id].type # "mid"
                                      ELSE wire[d].type = "bess" /\ wire[m[k].id].type = "mid"
    BY <1>4, <2>1
  <2>2. PICK x \in Entries :
          /\ m[k].id = m[x].id
          /\ CASE m[j].class = "panel" -> m[x].class \notin {"panel", "mid"}
               [] m[j].class = "bess"  -> m[x].class = "mid"
               [] OTHER                -> FALSE
    BY DEF Published!Children, Published!ToSet
  <2>3. x = k
    BY <1>3, <2>2
  <2>4. QED
    BY <1>5, <1>10, <2>2, <2>3
<1>13. \A e, mid \in Devices :
         wire[d].type = "bess" /\ wire[e].type = "bess" /\ wire[mid].type = "mid" => d = e
  BY <1>4, <1>6, <1>10
<1>14. wire[d].feeds # None =>
         /\ wire[d].type = "circuit" /\ ~wire[d].meter_only
         /\ wire[d].feeds \in Devices /\ wire[wire[d].feeds].type \in Ders
         /\ \A e \in Devices : /\ wire[e].feeds = wire[d].feeds => e = d
                               /\ wire[e].fed_by # wire[d].feeds
  <2> SUFFICES ASSUME wire[d].feeds # None
               PROVE  /\ wire[d].type = "circuit" /\ ~wire[d].meter_only
                      /\ wire[d].feeds \in Devices /\ wire[wire[d].feeds].type \in Ders
                      /\ \A e \in Devices : /\ wire[e].feeds = wire[d].feeds => e = d
                                            /\ wire[e].fed_by # wire[d].feeds
    OBVIOUS
  <2>1. m[j].class = "circuit" /\ wire[d].feeds = Published!Feeds(m, d)
    BY <1>9
  <2>2. PICK k \in Entries : /\ wire[d].feeds = m[k].id
                             /\ m[k].feed = d
                             /\ m[k].class \in Ders
                             /\ m[k].class = "bess" => m[k].position # "UPSTREAM"
    BY <1>7, <2>1
  <2>3. ASSUME NEW x \in Entries, wire[m[x].id].feeds = wire[d].feeds
        PROVE  m[x].id = d
    <3>1. wire[m[x].id].feeds = Published!Feeds(m, m[x].id) /\ Published!Feeds(m, m[x].id) # None
      BY <1>9, <2>3
    <3>2. PICK y \in Entries : wire[m[x].id].feeds = m[y].id /\ m[y].feed = m[x].id
      BY <1>7, <3>1
    <3>3. y = k
      BY <1>3, <2>2, <2>3, <3>2
    <3>4. QED
      BY <2>2, <3>2, <3>3
  <2>4. ASSUME NEW x \in Entries, wire[m[x].id].fed_by = wire[d].feeds
        PROVE  FALSE
    <3>1. wire[m[x].id].fed_by = Published!UpstreamFedBy(m) /\ Published!UpstreamFedBy(m) # None
      BY <1>9, <2>4
    <3>2. PICK y \in Entries : /\ wire[m[x].id].fed_by = m[y].id
                               /\ m[y].class = "bess" /\ m[y].position = "UPSTREAM"
      BY <1>8, <3>1
    <3>3. y = k
      BY <1>3, <2>2, <2>4, <3>2
    <3>4. QED
      BY <2>2, <3>2, <3>3
  <2>5. /\ wire[d].type = "circuit" /\ ~wire[d].meter_only
        /\ wire[d].feeds \in Devices /\ wire[wire[d].feeds].type \in Ders
    <3>1. wire[d].type = "circuit" /\ ~wire[d].meter_only
      BY <1>9, <1>10, <2>1
    <3>2. wire[d].feeds \in Devices
      BY <1>4, <2>2
    <3>3. wire[m[k].id].type \in Ders
      BY <1>10, <2>2 DEF Ders
    <3>4. QED
      BY <2>2, <3>1, <3>2, <3>3
  <2>6. QED
    BY <1>4, <2>3, <2>4, <2>5
<1>15. wire[d].fed_by # None =>
         /\ wire[d].direction = "upstream"
         /\ wire[d].fed_by \in Devices /\ wire[wire[d].fed_by].type = "bess"
         /\ \A e \in Devices : wire[e].fed_by \in {None, wire[d].fed_by}
  <2> SUFFICES ASSUME wire[d].fed_by # None
               PROVE  /\ wire[d].direction = "upstream"
                      /\ wire[d].fed_by \in Devices /\ wire[wire[d].fed_by].type = "bess"
                      /\ \A e \in Devices : wire[e].fed_by \in {None, wire[d].fed_by}
    OBVIOUS
  <2>1. wire[d].direction = "upstream" /\ wire[d].fed_by = Published!UpstreamFedBy(m)
    <3>1. /\ wire[d].direction = m[j].direction
          /\ wire[d].fed_by = IF m[j].direction = "upstream" THEN Published!UpstreamFedBy(m) ELSE None
      BY <1>9
    <3>2. QED
      BY <3>1
  <2>2. PICK k \in Entries : wire[d].fed_by = m[k].id /\ m[k].class = "bess"
    BY <1>8, <2>1
  <2>3. \A x \in Entries : wire[m[x].id].fed_by \in {None, Published!UpstreamFedBy(m)}
    BY <1>9
  <2>4. wire[m[k].id].type = "bess"
    BY <1>10, <2>2
  <2>5. QED
    BY <1>4, <2>1, <2>2, <2>3, <2>4
<1>16. QED
  BY <1>11, <1>12, <1>13, <1>14, <1>15 DEF WiredAs

-----------------------------------------------------------------------------
(* What the capture has of it: the panel's own tree.                         *)

\* The panel's own tree is closed under what it lists, and all of it but the
\* panel is listed in it.
LEMMA OwnTreeDevices ==
  ASSUME NEW t, IsFiniteSet(DOMAIN t), Panel \in DOMAIN t
  PROVE  LET own == Mapper!OwnTree(t, Panel)
         IN  /\ Panel \in DOMAIN own /\ DOMAIN own \subseteq DOMAIN t
             /\ \A d \in DOMAIN own :
                  /\ own[d] = t[d]
                  /\ d # Panel => \E e \in DOMAIN own : d \in t[e].children
<1> DEFINE n == Cardinality(DOMAIN t)
           f == CHOOSE g : IsWalk(g, t, n)
<1>1. n \in Nat
  BY FS_CardinalityType
<1>2. IsWalk(f, t, n)
  <2> HIDE DEF n
  <2> QED BY <1>1, WalkExists
<1>3. Mapper!OwnTree(t, Panel) = [d \in f[n] |-> t[d]]
  BY OwnTreeByWalk
<1> HIDE DEF f
<1>4. Panel \in f[n] /\ f[n] \subseteq DOMAIN t /\ Below(t, f[n]) \subseteq f[n]
  BY <1>2, WalkCloses
<1> DEFINE ids == {d \in f[n] : d = Panel \/ \E e \in f[n] : d \in t[e].children}
<1>5. Panel \in ids /\ Below(t, ids) \subseteq ids
  BY <1>4 DEF Below
<1> HIDE DEF ids
<1>6. f[n] \subseteq ids
  <2> HIDE DEF n
  <2>1. \A k \in 0 .. n : f[k] \subseteq ids
    BY <1>1, <1>2, <1>5, WalkStays
  <2>2. QED
    BY <1>1, <2>1
<1>7. QED
  <2> HIDE DEF n
  <2> QED BY <1>3, <1>4, <1>6 DEF ids

OwnWiredAs(own, d) ==
  /\ d # None
  /\ own[d] = [type |-> own[d].type, meter_only |-> own[d].meter_only,
               children |-> own[d].children, feeds |-> own[d].feeds,
               fed_by |-> own[d].fed_by, direction |-> own[d].direction]
  /\ own[d].type \in Types
  /\ own[d].type = "distribution-enclosure" <=> d = Panel
  /\ own[d].meter_only \in BOOLEAN
  /\ own[d].meter_only => own[d].type = "circuit"
  /\ \A e \in DOMAIN own : e \in own[d].children <=>
       \/ d = Panel /\ e # Panel /\ own[e].type # "mid"
       \/ own[d].type = "bess" /\ own[e].type = "mid"
  /\ own[d].type = "mid" => \E e \in DOMAIN own : own[e].type = "bess"
  /\ \A e, mid \in DOMAIN own :
       own[d].type = "bess" /\ own[e].type = "bess" /\ own[mid].type = "mid" => d = e
  /\ own[d].feeds # None =>
       /\ own[d].type = "circuit" /\ ~own[d].meter_only
       /\ own[d].feeds \in DOMAIN own => own[own[d].feeds].type \in Ders
       /\ \A e \in DOMAIN own : /\ own[e].feeds = own[d].feeds => e = d
                                /\ own[e].fed_by # own[d].feeds
  /\ own[d].fed_by # None =>
       /\ own[d].type = "lugs" /\ own[d].direction = "upstream"
       /\ \A e \in DOMAIN own : own[e].fed_by \in {None, own[d].fed_by}
  /\ IF own[d].type = "lugs" THEN own[d].direction \in {None, "upstream", "downstream"}
                             ELSE own[d].direction = None

OwnWired(own) ==
  /\ IsFiniteSet(DOMAIN own) /\ Panel \in DOMAIN own
  /\ \A d \in DOMAIN own : OwnWiredAs(own, d)

\* However little of it was read, it is wired as what is published.
LEMMA OwnWiring ==
  ASSUME IInv, Wired, tree # None, Panel \in DOMAIN tree
  PROVE  OwnWired(Own)
<1> DEFINE own == Own
<1>1. IsFiniteSet(DOMAIN tree) /\ DOMAIN tree \subseteq Devices
  <2>1. DOMAIN tree \subseteq Devices
    BY DEF IInv, CopyInv, Described
  <2>2. QED
    BY <2>1, FS_Subset DEF IInv, WireInv
<1>2. /\ Panel \in DOMAIN own /\ DOMAIN own \subseteq DOMAIN tree
      /\ \A d \in DOMAIN own :
           /\ own[d] = tree[d]
           /\ d # Panel => \E e \in DOMAIN own : d \in own[e].children
  BY <1>1, OwnTreeDevices DEF Own
<1> HIDE DEF own
<1>3. ASSUME NEW d \in DOMAIN own
      PROVE  /\ d \in Devices
             /\ own[d] = [type |-> own[d].type, meter_only |-> own[d].meter_only,
                          children |-> own[d].children, feeds |-> own[d].feeds,
                          fed_by |-> own[d].fed_by, direction |-> own[d].direction]
             /\ own[d].type = wire[d].type /\ own[d].meter_only = wire[d].meter_only
             /\ own[d].children \subseteq wire[d].children
             /\ own[d].feeds \in {None, wire[d].feeds}
             /\ own[d].fed_by # None => /\ own[d].fed_by = wire[d].fed_by
                                        /\ own[d].direction = wire[d].direction
             /\ own[d].direction \in {None, wire[d].direction}
  <2>1. d \in Devices
    BY <1>1, <1>2
  <2>2. PICK children \in SUBSET wire[d].children, valued \in BOOLEAN :
          own[d] = Reading(d, children, valued)
    BY <1>2 DEF IInv, ReadInv, Read
  <2>3. wire[d] = [type |-> wire[d].type, meter_only |-> wire[d].meter_only,
                   children |-> wire[d].children, feeds |-> wire[d].feeds,
                   fed_by |-> wire[d].fed_by, direction |-> wire[d].direction]
    BY <2>1 DEF Wired, WiredAs
  <2>4. CASE valued
    <3>1. own[d] = [type |-> wire[d].type, meter_only |-> wire[d].meter_only,
                    children |-> children, feeds |-> wire[d].feeds,
                    fed_by |-> wire[d].fed_by, direction |-> wire[d].direction]
      BY <2>2, <2>3, <2>4 DEF Reading
    <3>2. QED
      BY <2>1, <3>1
  <2>5. CASE ~valued
    <3>1. own[d] = [type |-> wire[d].type, meter_only |-> wire[d].meter_only,
                    children |-> children, feeds |-> None, fed_by |-> None, direction |-> None]
      BY <2>2, <2>3, <2>5 DEF Reading
    <3>2. QED
      BY <2>1, <3>1
  <2>6. QED
    BY <2>4, <2>5
<1>4. IsFiniteSet(DOMAIN own)
  BY <1>1, <1>2, FS_Subset
<1>5. ASSUME NEW d \in DOMAIN own
      PROVE  OwnWiredAs(own, d)
  <2>1. WiredAs(d)
    BY <1>3, <1>5 DEF Wired
  <2>2. \A e \in DOMAIN own : WiredAs(e)
    BY <1>3 DEF Wired
  <2>3. /\ d # None
        /\ own[d].type \in Types
        /\ own[d].type = "distribution-enclosure" <=> d = Panel
        /\ own[d].meter_only \in BOOLEAN
        /\ own[d].meter_only => own[d].type = "circuit"
    BY <1>3, <2>1 DEF WiredAs
  <2>4. ASSUME NEW e \in DOMAIN own, NEW x \in DOMAIN own, e \in own[x].children
        PROVE  /\ e # Panel
               /\ IF x = Panel THEN own[e].type # "mid"
                               ELSE own[x].type = "bess" /\ own[e].type = "mid"
    <3>1. e \in Devices /\ e \in wire[x].children /\ WiredAs(x)
      BY <1>3, <2>2, <2>4
    <3>2. own[e].type = wire[e].type /\ own[x].type = wire[x].type
      BY <1>3
    <3>3. QED
      BY <3>1, <3>2 DEF WiredAs
  <2>5. \A e, mid \in DOMAIN own :
          own[d].type = "bess" /\ own[e].type = "bess" /\ own[mid].type = "mid" => d = e
    BY <1>3, <2>1 DEF WiredAs
  <2>6. own[Panel].type = "distribution-enclosure"
    <3>1. Panel \in DOMAIN own
      BY <1>2
    <3>2. wire[Panel].type = "distribution-enclosure"
      BY <2>2, <3>1 DEF WiredAs
    <3>3. QED
      BY <1>3, <3>1, <3>2
  <2>7. ASSUME NEW e \in DOMAIN own
        PROVE  e \in own[d].children <=> \/ d = Panel /\ e # Panel /\ own[e].type # "mid"
                                         \/ own[d].type = "bess" /\ own[e].type = "mid"
    <3>1. CASE e = Panel
      BY <2>4, <2>6, <3>1
    <3>2. CASE e # Panel
      <4>1. PICK x \in DOMAIN own : e \in own[x].children
        BY <1>2, <3>2
      <4>2. CASE x = Panel
        <5>1. own[e].type # "mid"
          BY <2>4, <4>1, <4>2
        <5>2. e \in own[d].children => d = Panel
          BY <2>4, <5>1
        <5>3. QED
          BY <3>2, <4>1, <4>2, <5>1, <5>2
      <4>3. CASE x # Panel
        <5>1. own[x].type = "bess" /\ own[e].type = "mid"
          BY <2>4, <4>1, <4>3
        <5>2. own[d].type = "bess" => d = x
          BY <2>5, <5>1
        <5>3. e \in own[d].children => own[d].type = "bess"
          BY <2>4, <5>1
        <5>4. QED
          BY <4>1, <5>1, <5>2, <5>3
      <4>4. QED
        BY <4>2, <4>3
    <3>3. QED
      BY <3>1, <3>2
  <2>8. ASSUME own[d].type = "mid"
        PROVE  \E e \in DOMAIN own : own[e].type = "bess"
    <3>1. d # Panel
      BY <2>6, <2>8
    <3>2. PICK x \in DOMAIN own : d \in own[x].children
      BY <1>2, <3>1
    <3>3. QED
      BY <2>4, <2>8, <3>2
  <2>9. ASSUME own[d].feeds # None
        PROVE  /\ own[d].type = "circuit" /\ ~own[d].meter_only
               /\ own[d].feeds \in DOMAIN own => own[own[d].feeds].type \in Ders
               /\ \A e \in DOMAIN own : /\ own[e].feeds = own[d].feeds => e = d
                                        /\ own[e].fed_by # own[d].feeds
    <3>1. own[d].feeds = wire[d].feeds
      BY <1>3, <2>9
    <3>2. /\ wire[d].type = "circuit" /\ ~wire[d].meter_only
          /\ wire[wire[d].feeds].type \in Ders
          /\ \A e \in Devices : /\ wire[e].feeds = wire[d].feeds => e = d
                                /\ wire[e].fed_by # wire[d].feeds
      BY <2>1, <2>9, <3>1 DEF WiredAs
    <3>3. ASSUME NEW e \in DOMAIN own
          PROVE  /\ own[e].feeds = own[d].feeds => e = d
                 /\ own[e].fed_by # own[d].feeds
      BY <1>3, <2>9, <3>1, <3>2
    <3>4. own[d].feeds \in DOMAIN own => own[own[d].feeds].type = wire[wire[d].feeds].type
      BY <1>3, <3>1
    <3>5. QED
      BY <1>3, <3>2, <3>3, <3>4
  <2>10. ASSUME own[d].fed_by # None
         PROVE  /\ own[d].type = "lugs" /\ own[d].direction = "upstream"
                /\ \A e \in DOMAIN own : own[e].fed_by \in {None, own[d].fed_by}
    <3>1. own[d].fed_by = wire[d].fed_by /\ own[d].direction = wire[d].direction
      BY <1>3, <2>10
    <3>2. /\ wire[d].direction = "upstream"
          /\ \A e \in Devices : wire[e].fed_by \in {None, wire[d].fed_by}
      BY <2>1, <2>10, <3>1 DEF WiredAs
    <3>3. wire[d].type = "lugs"
      BY <2>1, <3>2, CaptureAssumption DEF WiredAs
    <3>4. ASSUME NEW e \in DOMAIN own PROVE own[e].fed_by \in {None, own[d].fed_by}
      BY <1>3, <3>1, <3>2
    <3>5. QED
      BY <1>3, <3>1, <3>2, <3>3, <3>4
  <2>11. IF own[d].type = "lugs" THEN own[d].direction \in {None, "upstream", "downstream"}
                                 ELSE own[d].direction = None
    BY <1>3, <2>1 DEF WiredAs
  <2>12. QED
    BY <1>3, <2>3, <2>5, <2>7, <2>8, <2>9, <2>10, <2>11 DEF OwnWiredAs
<1>6. QED
  BY <1>2, <1>4, <1>5 DEF OwnWired, own

-----------------------------------------------------------------------------
(* What an emitter makes of it.                                              *)

\* The class of a captured device, and the instance it becomes.
ClassOf(own, d) ==
  IF own[d].type = "distribution-enclosure" THEN "panel"
  ELSE IF own[d].meter_only THEN "remote-ct" ELSE own[d].type

HasFeed(own, d) ==
  \/ own[d].type \in {"pv", "evse"}
  \/ own[d].type = "bess" /\ ~Mapper!Upstream(own, d)

InstanceOf(own, d) ==
  [class     |-> ClassOf(own, d),
   id        |-> d,
   position  |-> IF own[d].type = "bess" /\ Mapper!Upstream(own, d) THEN "UPSTREAM"
                 ELSE IF own[d].type \in Ders THEN "IN_PANEL" ELSE None,
   feed      |-> IF HasFeed(own, d) THEN Mapper!FeedOf(own, d) ELSE None,
   direction |-> IF own[d].type = "lugs" THEN Mapper!Direction(own, d) ELSE None]

\* Every device of the tree becomes one instance.
LEMMA InstancesOfOwn ==
  ASSUME NEW own, OwnWired(own)
  PROVE  Mapper!Instances(own, Panel) = {InstanceOf(own, d) : d \in DOMAIN own}
<1> DEFINE I == Mapper!Instances(own, Panel)
<1>1. \A d \in DOMAIN own : OwnWiredAs(own, d)
  BY DEF OwnWired
<1>2. Mapper!CapturedMids(own) = Mapper!OfType(own, "mid")
  <2>1. CASE Mapper!OfType(own, "mid") = {}
    BY <2>1 DEF Mapper!CapturedMids
  <2>2. CASE Mapper!OfType(own, "mid") # {}
    <3>1. PICK mid \in DOMAIN own : own[mid].type = "mid"
      BY <2>2 DEF Mapper!OfType
    <3>2. PICK b \in DOMAIN own : own[b].type = "bess"
      BY <1>1, <3>1 DEF OwnWiredAs
    <3>3. \A e \in DOMAIN own : own[e].type = "bess" => e = b
      BY <1>1, <3>1, <3>2 DEF OwnWiredAs
    <3>4. Mapper!OfType(own, "bess") = {b}
      BY <3>2, <3>3 DEF Mapper!OfType
    <3>5. Cardinality({b}) = 1
      BY FS_Singleton
    <3>6. Mapper!Cardinality({b}) = 1
      BY <3>5 DEF Mapper!Cardinality, Cardinality
    <3>7. QED
      BY <3>4, <3>6 DEF Mapper!CapturedMids
  <2>3. QED
    BY <2>1, <2>2
<1>3. ASSUME NEW i \in I
      PROVE  \E d \in DOMAIN own : i = InstanceOf(own, d)
  <2>1. CASE i = Mapper!Instance("panel", Panel)
    <3>1. Panel \in DOMAIN own /\ own[Panel].type = "distribution-enclosure"
      BY <1>1 DEF OwnWired, OwnWiredAs
    <3>2. i = InstanceOf(own, Panel)
      BY <2>1, <3>1 DEF Mapper!Instance, InstanceOf, ClassOf, HasFeed, Ders
    <3>3. QED
      BY <3>1, <3>2
  <2>2. ASSUME NEW c \in DOMAIN own, own[c].type = "circuit",
               i = Mapper!Instance(IF c \in Mapper!RemoteCts(own) THEN "remote-ct" ELSE "circuit", c)
        PROVE  i = InstanceOf(own, c)
    <3>1. c \in Mapper!RemoteCts(own) <=> own[c].meter_only
      BY <2>2 DEF Mapper!RemoteCts, Mapper!OfType
    <3>2. QED
      BY <2>2, <3>1 DEF Mapper!Instance, InstanceOf, ClassOf, HasFeed, Ders
  <2>3. ASSUME NEW l \in DOMAIN own, own[l].type = "lugs",
               i = [Mapper!Instance("lugs", l) EXCEPT !.direction = Mapper!Direction(own, l)]
        PROVE  i = InstanceOf(own, l)
    <3>1. ~own[l].meter_only
      BY <1>1, <2>3 DEF OwnWiredAs
    <3>2. QED
      BY <2>3, <3>1 DEF Mapper!Instance, InstanceOf, ClassOf, HasFeed, Ders
  <2>4. ASSUME NEW b \in DOMAIN own, own[b].type = "bess", i = Mapper!BessInstance(own, b)
        PROVE  i = InstanceOf(own, b)
    <3>1. ~own[b].meter_only
      BY <1>1, <2>4 DEF OwnWiredAs
    <3>2. QED
      BY <2>4, <3>1 DEF Mapper!BessInstance, Mapper!Instance, InstanceOf, ClassOf, HasFeed, Ders
  <2>5. ASSUME NEW d \in DOMAIN own, own[d].type \in {"pv", "evse"},
               i = [Mapper!Instance(own[d].type, d) EXCEPT !.position = "IN_PANEL",
                                                           !.feed = Mapper!FeedOf(own, d)]
        PROVE  i = InstanceOf(own, d)
    <3>1. ~own[d].meter_only
      BY <1>1, <2>5 DEF OwnWiredAs
    <3>2. QED
      BY <2>5, <3>1 DEF Mapper!Instance, InstanceOf, ClassOf, HasFeed, Ders
  <2>6. ASSUME NEW d \in DOMAIN own, own[d].type = "mid", i = Mapper!Instance("mid", d)
        PROVE  i = InstanceOf(own, d)
    <3>1. ~own[d].meter_only
      BY <1>1, <2>6 DEF OwnWiredAs
    <3>2. QED
      BY <2>6, <3>1 DEF Mapper!Instance, InstanceOf, ClassOf, HasFeed, Ders
  <2>7. QED
    BY <1>2, <2>1, <2>2, <2>3, <2>4, <2>5, <2>6 DEF Mapper!Instances, Mapper!OfType
<1>4. ASSUME NEW d \in DOMAIN own
      PROVE  InstanceOf(own, d) \in I
  <2>1. OwnWiredAs(own, d)
    BY <1>1
  <2>2. CASE own[d].type = "distribution-enclosure"
    <3>1. InstanceOf(own, d) = Mapper!Instance("panel", Panel)
      BY <2>1, <2>2 DEF OwnWiredAs, Mapper!Instance, InstanceOf, ClassOf, HasFeed, Ders
    <3>2. QED
      BY <3>1 DEF Mapper!Instances
  <2>3. CASE own[d].type = "circuit"
    <3>1. d \in Mapper!RemoteCts(own) <=> own[d].meter_only
      BY <2>3 DEF Mapper!RemoteCts, Mapper!OfType
    <3>2. InstanceOf(own, d) =
            Mapper!Instance(IF d \in Mapper!RemoteCts(own) THEN "remote-ct" ELSE "circuit", d)
      BY <2>3, <3>1 DEF Mapper!Instance, InstanceOf, ClassOf, HasFeed, Ders
    <3>3. QED
      BY <2>3, <3>2 DEF Mapper!Instances, Mapper!OfType
  <2>4. CASE own[d].type = "lugs"
    <3>1. InstanceOf(own, d) =
            [Mapper!Instance("lugs", d) EXCEPT !.direction = Mapper!Direction(own, d)]
      BY <2>1, <2>4 DEF OwnWiredAs, Mapper!Instance, InstanceOf, ClassOf, HasFeed, Ders
    <3>2. QED
      BY <2>4, <3>1 DEF Mapper!Instances, Mapper!OfType
  <2>5. CASE own[d].type = "bess"
    <3>1. InstanceOf(own, d) = Mapper!BessInstance(own, d)
      BY <2>1, <2>5 DEF OwnWiredAs, Mapper!BessInstance, Mapper!Instance, InstanceOf, ClassOf,
                        HasFeed, Ders
    <3>2. QED
      BY <2>5, <3>1 DEF Mapper!Instances, Mapper!OfType
  <2>6. CASE own[d].type \in {"pv", "evse"}
    <3>1. InstanceOf(own, d) =
            [Mapper!Instance(own[d].type, d) EXCEPT !.position = "IN_PANEL",
                                                    !.feed = Mapper!FeedOf(own, d)]
      <4>1. ~own[d].meter_only
        BY <2>1, <2>6 DEF OwnWiredAs
      <4>2. ClassOf(own, d) = own[d].type /\ HasFeed(own, d) /\ own[d].type \in Ders
        BY <2>6, <4>1 DEF ClassOf, HasFeed, Ders
      <4>3. own[d].type # "bess" /\ own[d].type # "lugs"
        BY <2>6
      <4>4. InstanceOf(own, d) = [class |-> own[d].type, id |-> d, position |-> "IN_PANEL",
                                  feed |-> Mapper!FeedOf(own, d), direction |-> None]
        BY <4>2, <4>3 DEF InstanceOf
      <4>5. ASSUME NEW i, i = [Mapper!Instance(own[d].type, d) EXCEPT !.position = "IN_PANEL",
                                                             !.feed = Mapper!FeedOf(own, d)]
            PROVE  i = [class |-> own[d].type, id |-> d, position |-> "IN_PANEL",
                        feed |-> Mapper!FeedOf(own, d), direction |-> None]
        BY <4>5 DEF Mapper!Instance
      <4>6. QED
        BY <4>4, <4>5
    <3>2. QED
      BY <2>6, <3>1 DEF Mapper!Instances, Mapper!OfType
  <2>7. CASE own[d].type = "mid"
    <3>1. InstanceOf(own, d) = Mapper!Instance("mid", d)
      BY <2>1, <2>7 DEF OwnWiredAs, Mapper!Instance, InstanceOf, ClassOf, HasFeed, Ders
    <3>2. QED
      BY <1>2, <2>7, <3>1 DEF Mapper!Instances, Mapper!OfType
  <2>8. QED
    BY <2>1, <2>2, <2>3, <2>4, <2>5, <2>6, <2>7 DEF OwnWiredAs, Types
<1>5. QED
  BY <1>3, <1>4

\* A finite set in a sequence: every element once.
LEMMA SetInSequence ==
  ASSUME NEW S, IsFiniteSet(S)
  PROVE  LET m == SetToSeq(S)
         IN  /\ DOMAIN m = 1 .. Len(m) /\ Len(m) \in Nat
             /\ S = {m[j] : j \in DOMAIN m}
             /\ \A j, k \in DOMAIN m : m[j] = m[k] => j = k
<1> DEFINE n == Cardinality(S)
           m == SetToSeq(S)
<1>1. n \in Nat /\ ExistsBijection(1 .. n, S)
  BY FS_CardinalityType
<1>2. PICK b \in Bijection(1 .. n, S) : TRUE
  BY <1>1 DEF ExistsBijection
<1>3. b \in [1 .. n -> S] /\ \A j, k \in DOMAIN b : b[j] = b[k] => j = k
  BY <1>2 DEF Bijection, Injection, IsInjective
<1>4. m \in [1 .. n -> S] /\ \A j, k \in DOMAIN m : m[j] = m[k] => j = k
  BY <1>3 DEF SetToSeq, IsInjective
<1> HIDE DEF m, n
<1>5. m \in Injection(1 .. n, S)
  BY <1>4 DEF Injection, IsInjective
<1>6. m \in Surjection(1 .. n, S)
  <2>1. IsFiniteSet(1 .. n) /\ Cardinality(1 .. n) = n
    BY <1>1, FS_Interval
  <2>2. QED
    BY <1>5, <2>1, FS_Injection DEF n
<1>7. DOMAIN m = 1 .. n /\ m \in Seq(S) /\ Len(m) = n
  BY <1>1, <1>4
<1>8. S = {m[j] : j \in DOMAIN m}
  BY <1>4, <1>6 DEF Surjection
<1>9. QED
  BY <1>1, <1>4, <1>7, <1>8 DEF m

NamedBy(own) == {b \in Mapper!OfType(own, "bess") : Mapper!Upstream(own, b)}

DirectionIn(own, d) == IF own[d].type = "lugs" THEN Mapper!Direction(own, d) ELSE None

\* The definition made of a tree that is wired as a published one publishes it
\* again, field by field.
LEMMA Republishing ==
  ASSUME NEW own, OwnWired(own)
  PROVE  LET R == Published!Tree(SetToSeq(Mapper!Instances(own, Panel)))
         IN  /\ DOMAIN R = DOMAIN own
             /\ \A d \in DOMAIN own :
                  R[d] = [type       |-> own[d].type,
                          meter_only |-> own[d].meter_only,
                          children   |-> own[d].children \intersect DOMAIN own,
                          feeds      |-> IF d \in Mapper!Dangling(own) THEN None ELSE own[d].feeds,
                          fed_by     |-> IF DirectionIn(own, d) = "upstream" /\ NamedBy(own) # {}
                                         THEN CHOOSE b \in NamedBy(own) : TRUE ELSE None,
                          direction  |-> DirectionIn(own, d)]
<1> DEFINE I == Mapper!Instances(own, Panel)
           m == SetToSeq(I)
<1>1. \A d \in DOMAIN own : OwnWiredAs(own, d)
  BY DEF OwnWired
<1>2. I = {InstanceOf(own, d) : d \in DOMAIN own}
  BY InstancesOfOwn
<1>3. IsFiniteSet(I)
  <2> DEFINE f == [d \in DOMAIN own |-> InstanceOf(own, d)]
  <2>1. f \in Surjection(DOMAIN own, I)
    BY <1>2 DEF Surjection
  <2>2. QED
    BY <2>1, FS_Surjection DEF OwnWired
<1> HIDE DEF I
<1>4. /\ DOMAIN m = 1 .. Len(m) /\ Len(m) \in Nat
      /\ I = {m[j] : j \in DOMAIN m}
  BY <1>3, SetInSequence
<1>5. \A j, k \in DOMAIN m : m[j] = m[k] => j = k
  BY <1>3, SetInSequence
<1> HIDE DEF m
<1>6. \A d : InstanceOf(own, d).id = d
  BY DEF InstanceOf
<1>7. /\ \A j \in DOMAIN m : m[j].id \in DOMAIN own /\ m[j] = InstanceOf(own, m[j].id)
      /\ \A d \in DOMAIN own : \E j \in DOMAIN m : m[j] = InstanceOf(own, d)
  <2>1. ASSUME NEW j \in DOMAIN m
        PROVE  m[j].id \in DOMAIN own /\ m[j] = InstanceOf(own, m[j].id)
    <3>1. PICK d \in DOMAIN own : m[j] = InstanceOf(own, d)
      BY <1>2, <1>4
    <3>2. QED
      BY <1>6, <3>1
  <2>2. ASSUME NEW d \in DOMAIN own PROVE \E j \in DOMAIN m : m[j] = InstanceOf(own, d)
    <3>1. InstanceOf(own, d) \in I
      BY <1>2
    <3>2. QED
      BY <1>4, <3>1
  <2>3. QED
    BY <2>1, <2>2
<1>8. /\ DOMAIN Published!Tree(m) = DOMAIN own
      /\ \A d \in DOMAIN own : Published!Tree(m)[d] = Published!Device(m, InstanceOf(own, d))
  <2>1. \A j, k \in DOMAIN m : m[j].id = m[k].id => j = k
    BY <1>5, <1>7
  <2>2. /\ DOMAIN Published!Tree(m) = {m[j].id : j \in DOMAIN m}
        /\ \A j \in DOMAIN m : Published!Tree(m)[m[j].id] = Published!Device(m, m[j])
    BY <2>1, TreeEntry
  <2>3. QED
    BY <1>6, <1>7, <2>2
<1>9. ASSUME NEW d \in DOMAIN own
      PROVE  /\ Published!TypeOf(ClassOf(own, d)) = own[d].type
             /\ ClassOf(own, d) = "remote-ct" <=> own[d].meter_only
             /\ ClassOf(own, d) = "panel" <=> d = Panel
             /\ ClassOf(own, d) = "circuit" <=> own[d].type = "circuit" /\ ~own[d].meter_only
             /\ \A class \in {"bess", "pv", "evse", "mid"} :
                  ClassOf(own, d) = class <=> own[d].type = class
  BY <1>1 DEF OwnWiredAs, Published!TypeOf, ClassOf, Types
<1>10. own[Panel].type = "distribution-enclosure"
  BY <1>1 DEF OwnWired, OwnWiredAs
<1>11. ASSUME NEW d \in DOMAIN own
       PROVE  Published!Children(m, ClassOf(own, d)) = own[d].children \intersect DOMAIN own
  <2> DEFINE Hosted(class) == CASE ClassOf(own, d) = "panel" -> class \notin {"panel", "mid"}
                                [] ClassOf(own, d) = "bess"  -> class = "mid"
                                [] OTHER                     -> FALSE
  <2>1. Published!ToSet(m) = I
    BY <1>4 DEF Published!ToSet
  <2>2. Published!Children(m, ClassOf(own, d)) = {i.id : i \in {j \in I : Hosted(j.class)}}
    BY <2>1 DEF Published!Children
  <2> HIDE DEF Hosted
  <2>3. {i.id : i \in {j \in I : Hosted(j.class)}} = {e \in DOMAIN own : Hosted(ClassOf(own, e))}
    <3>1. \A e \in DOMAIN own : InstanceOf(own, e).class = ClassOf(own, e)
      BY DEF InstanceOf
    <3>2. QED
      BY <1>2, <1>6, <3>1
  <2>4. ASSUME NEW e \in DOMAIN own
        PROVE  Hosted(ClassOf(own, e)) <=> e \in own[d].children
    <3>1. e \in own[d].children <=> \/ d = Panel /\ e # Panel /\ own[e].type # "mid"
                                    \/ own[d].type = "bess" /\ own[e].type = "mid"
      BY <1>1 DEF OwnWiredAs
    <3>2. CASE d = Panel
      BY <1>9, <1>10, <3>1, <3>2 DEF Hosted
    <3>3. CASE d # Panel
      BY <1>9, <3>1, <3>3 DEF Hosted
    <3>4. QED
      BY <3>2, <3>3
  <2>5. QED
    BY <2>2, <2>3, <2>4
<1>12. ASSUME NEW d \in DOMAIN own, own[d].type = "circuit", ~own[d].meter_only
       PROVE  Published!Feeds(m, d) = IF d \in Mapper!Dangling(own) THEN None ELSE own[d].feeds
  <2> DEFINE js == Published!DersOnFeed(m, d)
  <2>1. d # None
    BY <1>1 DEF OwnWiredAs
  <2>2. d \in Mapper!Dangling(own) <=> own[d].feeds # None /\ own[d].feeds \notin DOMAIN own
    BY <1>12 DEF Mapper!Dangling, Mapper!OfType
  <2>3. ASSUME NEW j \in js
        PROVE  own[d].feeds = m[j].id /\ m[j].id \in DOMAIN own
    <3>1. j \in DOMAIN m /\ m[j].feed = d
      BY DEF Published!DersOnFeed
    <3> DEFINE x == m[j].id
    <3>2. x \in DOMAIN own /\ m[j] = InstanceOf(own, x)
      BY <1>7, <3>1
    <3>3. Mapper!FeedOf(own, x) = d
      BY <2>1, <3>1, <3>2 DEF InstanceOf
    <3>4. d \in Mapper!FeedsOf(own, x)
      BY <2>1, <3>3 DEF Mapper!FeedOf
    <3>5. QED
      BY <3>2, <3>4 DEF Mapper!FeedsOf
  <2>4. CASE js # {}
    <3>1. js \in SUBSET DOMAIN m
      BY DEF Published!DersOnFeed
    <3>2. PICK j \in js : Published!Feeds(m, d) = m[j].id
      BY <1>4, <2>4, <3>1, LastIsWritten DEF Published!Feeds
    <3>3. QED
      BY <2>2, <2>3, <3>2
  <2>5. CASE js = {}
    <3>1. Published!Feeds(m, d) = None
      BY <2>5 DEF Published!Feeds, Published!LastWritten
    <3>2. ASSUME own[d].feeds # None, own[d].feeds \in DOMAIN own PROVE FALSE
      <4> DEFINE x == own[d].feeds
      <4>1. /\ own[x].type \in Ders
            /\ \A e \in DOMAIN own : (own[e].feeds = x => e = d) /\ own[e].fed_by # x
        BY <1>1, <3>2 DEF OwnWiredAs
      <4>2. Mapper!FeedOf(own, x) = d
        <5>1. Mapper!FeedsOf(own, x) = {d}
          BY <1>12, <4>1 DEF Mapper!FeedsOf, Mapper!OfType
        <5>2. QED
          BY <5>1 DEF Mapper!FeedOf
      <4>3. ~Mapper!Upstream(own, x)
        BY <4>1 DEF Mapper!Upstream, Mapper!OfType
      <4>4. PICK j \in DOMAIN m : m[j] = InstanceOf(own, x)
        BY <1>7, <3>2
      <4>5. HasFeed(own, x) /\ ClassOf(own, x) \in Ders
        BY <1>9, <3>2, <4>1, <4>3 DEF HasFeed, Ders
      <4>6. m[j].feed = d /\ m[j].class \in Ders /\ m[j].position # "UPSTREAM"
        BY <4>1, <4>2, <4>3, <4>4, <4>5 DEF InstanceOf
      <4>7. j \in js
        BY <4>6 DEF Published!DersOnFeed, Ders
      <4>8. QED
        BY <2>5, <4>7
    <3>3. QED
      BY <2>2, <3>1, <3>2
  <2>6. QED
    BY <2>4, <2>5
<1>13. Published!UpstreamFedBy(m) =
         IF NamedBy(own) # {} THEN CHOOSE b \in NamedBy(own) : TRUE ELSE None
  <2> DEFINE js == Published!UpstreamBatteries(m)
  <2>1. ASSUME NEW j \in js PROVE m[j].id \in NamedBy(own)
    <3>1. j \in DOMAIN m /\ m[j].class = "bess" /\ m[j].position = "UPSTREAM"
      BY DEF Published!UpstreamBatteries
    <3> DEFINE x == m[j].id
    <3>2. x \in DOMAIN own /\ m[j] = InstanceOf(own, x)
      BY <1>7, <3>1
    <3>3. own[x].type = "bess"
      <4>1. ClassOf(own, x) = "bess"
        BY <3>1, <3>2 DEF InstanceOf
      <4>2. QED
        BY <1>9, <3>2, <4>1
    <3>4. Mapper!Upstream(own, x)
      BY <3>1, <3>2, <3>3 DEF InstanceOf, Ders
    <3>5. QED
      BY <3>2, <3>3, <3>4 DEF NamedBy, Mapper!OfType
  <2>2. ASSUME NEW b \in NamedBy(own) PROVE js # {}
    <3>1. b \in DOMAIN own /\ own[b].type = "bess" /\ Mapper!Upstream(own, b)
      BY DEF NamedBy, Mapper!OfType
    <3>2. PICK j \in DOMAIN m : m[j] = InstanceOf(own, b)
      BY <1>7, <3>1
    <3>3. ClassOf(own, b) = "bess"
      BY <1>9, <3>1
    <3>4. m[j].class = "bess" /\ m[j].position = "UPSTREAM"
      BY <3>1, <3>2, <3>3 DEF InstanceOf
    <3>5. QED
      BY <3>4 DEF Published!UpstreamBatteries
  <2>3. ASSUME NEW b \in NamedBy(own), NEW c \in NamedBy(own) PROVE b = c
    <3>1. b # None /\ c # None
      BY <1>1 DEF NamedBy, Mapper!OfType, OwnWiredAs
    <3>2. PICK l \in DOMAIN own : own[l].fed_by = b
      BY DEF NamedBy, Mapper!Upstream, Mapper!OfType
    <3>3. PICK k \in DOMAIN own : own[k].fed_by = c
      BY DEF NamedBy, Mapper!Upstream, Mapper!OfType
    <3>4. own[k].fed_by \in {None, own[l].fed_by}
      BY <1>1, <3>1, <3>2 DEF OwnWiredAs
    <3>5. QED
      BY <3>1, <3>2, <3>3, <3>4
  <2>4. CASE js # {}
    <3>1. js \in SUBSET DOMAIN m
      BY DEF Published!UpstreamBatteries
    <3>2. PICK j \in js : Published!UpstreamFedBy(m) = m[j].id
      BY <1>4, <2>4, <3>1, LastIsWritten DEF Published!UpstreamFedBy
    <3>3. m[j].id \in NamedBy(own)
      BY <2>1
    <3>4. QED
      BY <2>3, <3>2, <3>3
  <2>5. CASE js = {}
    <3>1. Published!UpstreamFedBy(m) = None
      BY <2>5 DEF Published!UpstreamFedBy, Published!LastWritten
    <3>2. QED
      BY <2>2, <2>5, <3>1
  <2>6. QED
    BY <2>4, <2>5
<1>14. ASSUME NEW d \in DOMAIN own
       PROVE  Published!Tree(m)[d] =
                [type       |-> own[d].type,
                 meter_only |-> own[d].meter_only,
                 children   |-> own[d].children \intersect DOMAIN own,
                 feeds      |-> IF d \in Mapper!Dangling(own) THEN None ELSE own[d].feeds,
                 fed_by     |-> IF DirectionIn(own, d) = "upstream" /\ NamedBy(own) # {}
                                THEN CHOOSE b \in NamedBy(own) : TRUE ELSE None,
                 direction  |-> DirectionIn(own, d)]
  <2> DEFINE i == InstanceOf(own, d)
  <2>1. i.class = ClassOf(own, d) /\ i.id = d /\ i.direction = DirectionIn(own, d)
    BY DEF InstanceOf, DirectionIn
  <2> HIDE DEF i
  <2>2. Published!Tree(m)[d] =
          [type       |-> Published!TypeOf(i.class),
           meter_only |-> i.class = "remote-ct",
           children   |-> Published!Children(m, i.class),
           feeds      |-> IF i.class = "circuit" THEN Published!Feeds(m, i.id) ELSE None,
           fed_by     |-> IF i.direction = "upstream" THEN Published!UpstreamFedBy(m) ELSE None,
           direction  |-> i.direction]
    BY <1>8 DEF Published!Device, i
  <2>3. Published!TypeOf(i.class) = own[d].type
    BY <1>9, <2>1
  <2>4. (i.class = "remote-ct") = own[d].meter_only
    <3>1. own[d].meter_only \in BOOLEAN
      BY <1>1 DEF OwnWiredAs
    <3>2. QED
      BY <1>9, <2>1, <3>1
  <2>5. Published!Children(m, i.class) = own[d].children \intersect DOMAIN own
    BY <1>11, <2>1
  <2>6. (IF i.class = "circuit" THEN Published!Feeds(m, i.id) ELSE None) =
          IF d \in Mapper!Dangling(own) THEN None ELSE own[d].feeds
    <3>1. CASE i.class = "circuit"
      BY <1>9, <1>12, <2>1, <3>1
    <3>2. CASE i.class # "circuit"
      <4>1. own[d].feeds = None
        BY <1>1, <1>9, <2>1, <3>2 DEF OwnWiredAs
      <4>2. QED
        BY <3>2, <4>1
    <3>3. QED
      BY <3>1, <3>2
  <2>7. (IF i.direction = "upstream" THEN Published!UpstreamFedBy(m) ELSE None) =
          IF DirectionIn(own, d) = "upstream" /\ NamedBy(own) # {}
          THEN CHOOSE b \in NamedBy(own) : TRUE ELSE None
    BY <1>13, <2>1
  <2>8. QED
    BY <2>1, <2>2, <2>3, <2>4, <2>5, <2>6, <2>7
<1>15. QED
  BY <1>8, <1>14 DEF m, I

\* What the devices are is settled when the capture starts.
Emitted == \E manifest \in Installations : wire = Published!Tree(manifest)

LEMMA WireIsEmitted == Spec => []Emitted
<1>1. Init => Emitted
  BY DEF Init, Emitted
<1>2. Emitted /\ [Next]_vars => Emitted'
  <2> SUFFICES ASSUME Emitted, [Next]_vars PROVE Emitted'
    OBVIOUS
  <2>1. wire' = wire
    BY DEF Next, Arrival, Appears, Describes, OnProperty, Capture, Sleep, Check, CheckSettled,
           TimeOut, BeginCopy, CopyDevice, EndCopy, Wait, Report, controller, vars
  <2>2. QED
    BY <2>1 DEF Emitted
<1>3. QED
  BY <1>1, <1>2, PTL DEF Spec

\* Whatever a capture read of a well-formed installation, and however it was
\* interrupted: the definition made of it publishes that again.
THEOREM Republishes == Spec => []RepublishesWhatItRead
<1>1. IInv /\ Emitted => RepublishesWhatItRead
  <2> SUFFICES ASSUME IInv, Emitted, pc = "returned", Panel \in DOMAIN tree
               PROVE  RepublishesWhatItRead
    BY DEF RepublishesWhatItRead
  <2> DEFINE R == Published!Tree(SetToSeq(Mapper!Instances(Own, Panel)))
  <2>1. OwnWired(Own)
    BY PublishedWiring, OwnWiring DEF Emitted, IInv, CountInv
  <2>2. /\ DOMAIN R = DOMAIN Own
        /\ \A d \in DOMAIN Own :
             R[d] = [type       |-> Own[d].type,
                     meter_only |-> Own[d].meter_only,
                     children   |-> Own[d].children \intersect DOMAIN Own,
                     feeds      |-> IF d \in Mapper!Dangling(Own) THEN None ELSE Own[d].feeds,
                     fed_by     |-> IF DirectionIn(Own, d) = "upstream" /\ NamedBy(Own) # {}
                                    THEN CHOOSE b \in NamedBy(Own) : TRUE ELSE None,
                     direction  |-> DirectionIn(Own, d)]
    BY <2>1, Republishing
  <2>3. R = [d \in DOMAIN R |-> R[d]]
    BY DEF Published!Tree
  <2> HIDE DEF R
  <2>4. NamedBy(Own) = Named
    BY DEF NamedBy, Named
  <2>5. ASSUME NEW d \in DOMAIN Own,
               NEW r, r = [Own[d] EXCEPT
                             !.children  = @ \intersect DOMAIN Own,
                             !.feeds     = IF d \in Mapper!Dangling(Own) THEN None ELSE @,
                             !.fed_by    = IF DirectionIn(Own, d) = "upstream" /\ Named # {}
                                           THEN CHOOSE b \in Named : TRUE ELSE None,
                             !.direction = DirectionIn(Own, d)]
        PROVE  R[d] = r
    <3>1. Own[d] = [type |-> Own[d].type, meter_only |-> Own[d].meter_only,
                    children |-> Own[d].children, feeds |-> Own[d].feeds,
                    fed_by |-> Own[d].fed_by, direction |-> Own[d].direction]
      BY <2>1 DEF OwnWired, OwnWiredAs
    <3> DEFINE o == Own[d]
    <3>2. r = [type       |-> o.type,
               meter_only |-> o.meter_only,
               children   |-> o.children \intersect DOMAIN Own,
               feeds      |-> IF d \in Mapper!Dangling(Own) THEN None ELSE o.feeds,
               fed_by     |-> IF DirectionIn(Own, d) = "upstream" /\ Named # {}
                              THEN CHOOSE b \in Named : TRUE ELSE None,
               direction  |-> DirectionIn(Own, d)]
      <4>1. r = [o EXCEPT !.children  = o.children \intersect DOMAIN Own,
                          !.feeds     = IF d \in Mapper!Dangling(Own) THEN None ELSE o.feeds,
                          !.fed_by    = IF DirectionIn(Own, d) = "upstream" /\ Named # {}
                                        THEN CHOOSE b \in Named : TRUE ELSE None,
                          !.direction = DirectionIn(Own, d)]
        BY <2>5
      <4>2. o = [type |-> o.type, meter_only |-> o.meter_only, children |-> o.children,
                 feeds |-> o.feeds, fed_by |-> o.fed_by, direction |-> o.direction]
        BY <3>1
      <4> HIDE DEF o
      <4>3. QED
        BY <4>1, <4>2
    <3>3. QED
      BY <2>2, <2>4, <3>2
  <2>6. R = [d \in DOMAIN Own |->
               [Own[d] EXCEPT
                  !.children  = @ \intersect DOMAIN Own,
                  !.feeds     = IF d \in Mapper!Dangling(Own) THEN None ELSE @,
                  !.fed_by    = IF DirectionIn(Own, d) = "upstream" /\ Named # {}
                                THEN CHOOSE b \in Named : TRUE ELSE None,
                  !.direction = DirectionIn(Own, d)]]
    BY <2>2, <2>3, <2>5
  <2>7. QED
    BY <2>6 DEF RepublishesWhatItRead, DirectionIn, R
<1>2. QED
  BY <1>1, CaptureInvariance, WireIsEmitted, PTL

=============================================================================
