------------------------- MODULE GraphBuilder_proofs -------------------------
(***************************************************************************)
(* Proofs about the tree of GraphBuilder, for any mapping table and any    *)
(* manifest.                                                               *)
(***************************************************************************)
EXTENDS GraphBuilder, Sums

\* The root has been found.
Rooted == phase # "start" /\ IsSingle(Root)

Taken  == ToSet(ordered)
Queued == ToSet(ready)

\* The sequence has no element twice.
NoneTwice(q) == \A j, k \in DOMAIN q : q[j] = q[k] => j = k

\* Position j of the manifest holds an instance the mapping makes a device of.
IsChild(j) == /\ manifest[j].class \in Classes
              /\ placement[manifest[j].class].kind = "child-of-parent"

\* The positions the loops are done with.
Done == {j \in DOMAIN manifest :
           \/ manifest[j].class = Root
           \/ \E k \in 1 .. visited : /\ manifest[j].class = ordered[k]
                                      /\ k = visited => j \notin to_place}

TypeInv ==
  /\ placement \in [Classes -> Placements]
  /\ manifest \in Manifests
  /\ phase \in {"start", "sort", "place", "built", "refused"}
  /\ in_degree \in [Classes -> Nat]
  /\ ready \in Seq(Classes)
  /\ ordered \in Seq(Classes)
  /\ visited \in Nat
  /\ to_place \subseteq DOMAIN manifest

\* Kahn's algorithm: a class waits for the parent it has until that is taken, is
\* queued or taken as soon as it waits for none, once, and comes after its parent.
SortInv ==
  /\ NoneTwice(ordered \o ready)
  /\ \A c \in Classes :
       in_degree[c] = IF \E p \in Classes \ Taken : DependsOn(c, p) THEN 1 ELSE 0
  /\ \A c \in Classes : in_degree[c] = 0 <=> c \in Taken \union Queued
  /\ \A k \in DOMAIN ordered : \A p \in Classes :
       DependsOn(ordered[k], p) => \E j \in 1 .. k - 1 : ordered[j] = p

\* Where the loops over descriptors and instances stand.
LoopInv ==
  /\ visited <= Len(ordered)
  /\ visited = 0 => to_place = {}
  /\ visited > 0 => to_place \subseteq OfClass(ordered[visited])
  /\ phase = "sort" \/ error = "cycle" => visited = 0
  /\ phase \in {"place", "built"} => Taken = Classes
  /\ phase = "built" => visited = Len(ordered) /\ to_place = {}

\* The Device objects so far: every child has one, under an earlier one, under a
\* Device with its parent's id.
DeviceInv ==
  /\ DOMAIN parent = {j \in Done : IsChild(j)}
  /\ \A j \in DOMAIN parent :
       LET c == placement[manifest[j].class].parent
       IN  /\ IsSingle(c)
           /\ parent[j] \in DOMAIN parent \union {RootDevice}
           /\ manifest[parent[j]].id = manifest[TheOne(c)].id
  /\ NoCircle

\* What is found by id, and where the properties lie.
TreeInv ==
  /\ DeviceInv
  /\ DOMAIN devices = {RootId} \union {manifest[j].id : j \in DOMAIN parent}
  /\ \A i \in DOMAIN devices : /\ devices[i] \in DOMAIN parent \union {RootDevice}
                               /\ manifest[devices[i]].id = i
  /\ DOMAIN properties = {Key(j) : j \in Done}
  /\ \A j \in Done : IF IsChild(j)
                     THEN /\ properties[Key(j)] \in DOMAIN parent
                          /\ Key(properties[Key(j)]) = Key(j)
                     ELSE properties[Key(j)] = RootDevice

ErrorInv ==
  /\ phase = "start" => /\ error = "none"
                        /\ ordered = <<>> /\ visited = 0 /\ to_place = {}
                        /\ DOMAIN properties = {} /\ DOMAIN parent = {}
  /\ phase \in {"sort", "place", "built"} => error = "none" /\ IsSingle(Root)
  /\ error = "cycle" => Cyclic
  /\ ParentsComeFirst

IInv ==
  /\ TypeInv
  /\ ErrorInv
  /\ Rooted => SortInv /\ LoopInv /\ TreeInv

-----------------------------------------------------------------------------
(* Least and greatest positions, and the sorted sequence of a set.         *)

LEMMA LeastNat ==
  ASSUME NEW S \in SUBSET Nat, S # {}
  PROVE  /\ \E n \in S : \A m \in S : n <= m
         /\ Min(S) \in S
<1>1. PICK n \in S : \A m \in S : <<m, n>> \notin OpToRel(<, Nat)
  BY NatLessThanWellFounded, WFMin
<1>2. ASSUME NEW m \in S PROVE n <= m
  <2>1. m \in Nat /\ n \in Nat
    OBVIOUS
  <2>2. ~(m < n)
    BY <1>1, <2>1 DEF OpToRel
  <2>3. QED
    BY <2>1, <2>2
<1>3. \E k \in S : \A m \in S : k <= m
  BY <1>2
<1>4. Min(S) = CHOOSE k \in S : \A m \in S : k <= m
  BY DEF Min
<1>5. QED
  BY <1>3, <1>4

LEMMA GreatestClass ==
  ASSUME NumClasses \in Nat, NEW cs \in SUBSET Classes, cs # {}
  PROVE  \E c \in cs : \A d \in cs : d <= c
<1> DEFINE S == {NumClasses - c : c \in cs}
<1>1. S \in SUBSET Nat /\ S # {}
  BY DEF Classes
<1>2. PICK n \in S : \A m \in S : n <= m
  <2> HIDE DEF S
  <2>1. QED
    BY <1>1, LeastNat
<1>3. PICK c \in cs : n = NumClasses - c
  BY <1>2
<1>4. ASSUME NEW d \in cs PROVE d <= c
  <2>1. n <= NumClasses - d
    BY <1>2
  <2>2. QED
    BY <1>3, <2>1 DEF Classes
<1>5. QED
  BY <1>4

\* Every set of classes has one that comes after all others.
LEMMA LastClass ==
  ASSUME NumClasses \in Nat, NEW cs \in SUBSET Classes, cs # {}
  PROVE  \E c \in cs : \A d \in cs : d # c => Before(d, c)
<1> DEFINE late == {c \in cs : KindRank(c) = 1}
<1>1. \A c \in cs : KindRank(c) \in {0, 1}
  BY DEF KindRank
<1>2. CASE late # {}
  <2>1. PICK c \in late : \A d \in late : d <= c
    BY <1>2, GreatestClass
  <2>2. ASSUME NEW d \in cs, d # c PROVE Before(d, c)
    BY <1>1, <2>1, <2>2 DEF Before, Classes
  <2>3. QED
    BY <2>2
<1>3. CASE late = {}
  <2>1. PICK c \in cs : \A d \in cs : d <= c
    BY GreatestClass
  <2>2. ASSUME NEW d \in cs, d # c PROVE Before(d, c)
    BY <1>1, <1>3, <2>1, <2>2 DEF Before, Classes
  <2>3. QED
    BY <2>2
<1>4. QED
  BY <1>2, <1>3

IsSorting(q, cs) ==
  /\ q \in [1 .. Cardinality(cs) -> cs]
  /\ \A j, k \in DOMAIN q : j < k => Before(q[j], q[k])

\* Every set of classes can be sorted.
LEMMA SortedExists ==
  ASSUME NumClasses \in Nat, NEW cs \in SUBSET Classes
  PROVE  \E q : IsSorting(q, cs)
<1> DEFINE Good == {T \in SUBSET Classes : \E q : IsSorting(q, T)}
<1>1. IsFiniteSet(Classes)
  BY FS_Interval DEF Classes
<1>2. {} \in Good
  <2>1. IsSorting([j \in 1 .. 0 |-> j], {})
    BY FS_EmptySet DEF IsSorting
  <2>2. QED
    BY <2>1
<1>3. ASSUME NEW T \in SUBSET Classes,
             T # {} /\ (\A U \in SUBSET T : U # T => U \in Good)
      PROVE  T \in Good
  <2>1. PICK c \in T : \A d \in T : d # c => Before(d, c)
    BY <1>3, LastClass
  <2>2. PICK q : IsSorting(q, T \ {c})
    BY <1>3
  <2> DEFINE n == Cardinality(T)
             r == [j \in 1 .. n |-> IF j = n THEN c ELSE q[j]]
  <2>3. n \in Nat /\ Cardinality(T \ {c}) = n - 1
    BY <1>1, FS_Subset, FS_RemoveElement, FS_CardinalityType
  <2>4. \A j \in 1 .. n : j # n => j \in DOMAIN q /\ q[j] \in T \ {c}
    <3>1. q \in [1 .. n - 1 -> T \ {c}]
      BY <2>2, <2>3 DEF IsSorting
    <3> HIDE DEF n
    <3>2. QED
      BY <2>3, <3>1
  <2>5. r \in [1 .. n -> T]
    BY <2>1, <2>4
  <2>6. ASSUME NEW j \in 1 .. n, NEW k \in 1 .. n, j < k PROVE Before(r[j], r[k])
    <3>1. CASE k = n
      BY <2>1, <2>3, <2>4, <2>6, <3>1
    <3>2. CASE k # n
      <4>1. j \in DOMAIN q /\ k \in DOMAIN q /\ j # n
        BY <2>3, <2>4, <2>6, <3>2
      <4>2. QED
        BY <2>2, <2>6, <3>2, <4>1 DEF IsSorting
    <3>3. QED
      BY <3>1, <3>2
  <2>7. IsSorting(r, T)
    BY <2>5, <2>6 DEF IsSorting
  <2>8. QED
    BY <2>7
<1>4. \A T \in SUBSET Classes : T \in Good
  <2>1. Good \in SUBSET (SUBSET Classes)
    OBVIOUS
  <2> HIDE DEF Good
  <2>2. QED
    BY <1>1, <1>2, <1>3, <2>1, SubsetInduction
<1>5. QED
  BY <1>4

\* Sorted returns each class of the set once and nothing else.
LEMMA SortedReturns ==
  ASSUME NumClasses \in Nat, NEW cs \in SUBSET Classes
  PROVE  /\ Sorted(cs) \in Seq(cs)
         /\ NoneTwice(Sorted(cs))
         /\ ToSet(Sorted(cs)) = cs
<1> DEFINE q == Sorted(cs)
<1>1. IsSorting(q, cs)
  BY SortedExists DEF Sorted, IsSorting
<1>2. IsFiniteSet(cs) /\ Cardinality(cs) \in Nat
  <2>1. IsFiniteSet(Classes)
    BY FS_Interval DEF Classes
  <2>2. IsFiniteSet(cs)
    BY <2>1, FS_Subset
  <2>3. QED
    BY <2>2, FS_CardinalityType
<1>3. DOMAIN q = 1 .. Cardinality(cs) /\ q \in [1 .. Cardinality(cs) -> cs]
  BY <1>1 DEF IsSorting
<1>4. ASSUME NEW j \in DOMAIN q, NEW k \in DOMAIN q, j < k PROVE q[j] # q[k]
  <2>1. Before(q[j], q[k])
    BY <1>1, <1>4 DEF IsSorting
  <2>2. q[j] \in cs
    BY <1>3
  <2>3. ASSUME NEW c \in cs PROVE ~Before(c, c)
    <3>1. KindRank(c) \in {0, 1}
      BY DEF KindRank
    <3>2. QED
      BY <3>1 DEF Before, Classes
  <2> HIDE DEF q
  <2>4. QED
    BY <2>1, <2>2, <2>3
<1> HIDE DEF q
<1>5. NoneTwice(q)
  BY <1>2, <1>3, <1>4 DEF NoneTwice
<1>6. q \in Injection(1 .. Cardinality(cs), cs)
  BY <1>3, <1>5 DEF Injection, IsInjective, NoneTwice
<1>7. q \in Surjection(1 .. Cardinality(cs), cs)
  BY <1>2, <1>6, FS_Injection, FS_Interval
<1>8. ToSet(q) = cs
  BY <1>3, <1>7 DEF ToSet, Surjection
<1>9. q \in Seq(cs)
  BY <1>2, <1>3
<1>10. QED
  BY <1>5, <1>8, <1>9 DEF q

-----------------------------------------------------------------------------
(* Sequences without repetitions, and what depends on the input alone.     *)

LEMMA ConcatOnce ==
  ASSUME NEW S, NEW s \in Seq(S), NEW t \in Seq(S),
         NoneTwice(s), NoneTwice(t), ToSet(s) \intersect ToSet(t) = {}
  PROVE  NoneTwice(s \o t) /\ ToSet(s \o t) = ToSet(s) \union ToSet(t)
<1> DEFINE q == s \o t
<1>1. /\ Len(q) = Len(s) + Len(t) /\ q \in Seq(S)
      /\ Len(s) \in Nat /\ Len(t) \in Nat
      /\ DOMAIN q = 1 .. Len(q) /\ DOMAIN s = 1 .. Len(s) /\ DOMAIN t = 1 .. Len(t)
  OBVIOUS
<1>2. \A j \in 1 .. Len(q) : q[j] = IF j <= Len(s) THEN s[j] ELSE t[j - Len(s)]
  OBVIOUS
<1> HIDE DEF q
<1>3. \A j \in 1 .. Len(t) : q[j + Len(s)] = t[j]
  BY <1>1, <1>2
<1>4. \A j \in 1 .. Len(q) : IF j <= Len(s) THEN q[j] \in ToSet(s) ELSE q[j] \in ToSet(t)
  <2> SUFFICES ASSUME NEW j \in 1 .. Len(q)
               PROVE  IF j <= Len(s) THEN q[j] \in ToSet(s) ELSE q[j] \in ToSet(t)
    OBVIOUS
  <2>1. CASE j <= Len(s)
    BY <1>1, <1>2, <2>1 DEF ToSet
  <2>2. CASE j > Len(s)
    <3>1. j - Len(s) \in DOMAIN t /\ q[j] = t[j - Len(s)]
      BY <1>1, <1>2, <2>2
    <3>2. QED
      BY <1>1, <2>2, <3>1 DEF ToSet
  <2>3. QED
    BY <1>1, <2>1, <2>2
<1>5. NoneTwice(q)
  <2> SUFFICES ASSUME NEW j \in 1 .. Len(q), NEW k \in 1 .. Len(q), q[j] = q[k]
               PROVE  j = k
    BY <1>1 DEF NoneTwice
  <2>1. CASE j <= Len(s) /\ k <= Len(s)
    BY <1>1, <1>2, <2>1 DEF NoneTwice
  <2>2. CASE j > Len(s) /\ k > Len(s)
    <3>1. j - Len(s) \in DOMAIN t /\ k - Len(s) \in DOMAIN t
      BY <1>1, <2>2
    <3>2. t[j - Len(s)] = t[k - Len(s)]
      BY <1>1, <1>2, <2>2
    <3>3. j - Len(s) = k - Len(s)
      BY <3>1, <3>2 DEF NoneTwice
    <3>4. QED
      BY <1>1, <3>3
  <2>3. CASE j <= Len(s) /\ k > Len(s)
    BY <1>1, <1>4, <2>3
  <2>4. CASE j > Len(s) /\ k <= Len(s)
    BY <1>1, <1>4, <2>4
  <2>5. QED
    BY <1>1, <2>1, <2>2, <2>3, <2>4
<1>6. ToSet(q) = ToSet(s) \union ToSet(t)
  <2>1. ASSUME NEW x \in ToSet(q) PROVE x \in ToSet(s) \union ToSet(t)
    BY <1>1, <1>2, <2>1 DEF ToSet
  <2>2. ASSUME NEW x \in ToSet(s) PROVE x \in ToSet(q)
    BY <1>1, <1>2, <2>2 DEF ToSet
  <2>3. ASSUME NEW x \in ToSet(t) PROVE x \in ToSet(q)
    <3>1. PICK j \in 1 .. Len(t) : x = t[j]
      BY <1>1, <2>3 DEF ToSet
    <3>2. j + Len(s) \in DOMAIN q /\ q[j + Len(s)] = x
      BY <1>1, <1>3, <3>1
    <3>3. QED
      BY <3>2 DEF ToSet
  <2>4. QED
    BY <2>1, <2>2, <2>3
<1>7. QED
  BY <1>5, <1>6 DEF q

LEMMA ConcatAssociates ==
  ASSUME NEW S, NEW s \in Seq(S), NEW t \in Seq(S), NEW u \in Seq(S)
  PROVE  s \o (t \o u) = (s \o t) \o u
<1> DEFINE q == s \o (t \o u)
           r == (s \o t) \o u
<1>1. q \in Seq(S) /\ r \in Seq(S) /\ Len(q) = Len(r)
  OBVIOUS
<1>2. \A j \in 1 .. Len(q) : q[j] = r[j]
  OBVIOUS
<1> HIDE DEF q, r
<1>3. q = r
  BY <1>1, <1>2
<1>4. QED
  BY <1>3 DEF q, r

LEMMA SingleOne ==
  ASSUME NEW c, IsSingle(c)
  PROVE  \E j \in DOMAIN manifest : /\ OfClass(c) = {j}
                                    /\ manifest[j].class = c
                                    /\ TheOne(c) = j
  BY DEF IsSingle, OfClass, TheOne

\* What a step that keeps the mapping and the manifest keeps with them.
LEMMA InputStays ==
  ASSUME UNCHANGED input
  PROVE  /\ \A c : /\ OfClass(c)' = OfClass(c)
                   /\ IsSingle(c)' = IsSingle(c)
                   /\ TheOne(c)' = TheOne(c)
         /\ RootDevice' = RootDevice /\ RootId' = RootId
         /\ Cyclic' = Cyclic
         /\ \A j : IsChild(j)' = IsChild(j) /\ Key(j)' = Key(j)
         /\ \A c, p : DependsOn(c, p)' = DependsOn(c, p)
<1>1. manifest' = manifest /\ placement' = placement
  BY DEF input
<1>2. \A c : OfClass(c)' = OfClass(c)
  BY <1>1 DEF OfClass
<1>3. \A c : IsSingle(c)' = IsSingle(c) /\ TheOne(c)' = TheOne(c)
  BY <1>1, <1>2 DEF IsSingle, TheOne
<1>4. \A c, p : DependsOn(c, p)' = DependsOn(c, p)
  BY <1>1 DEF DependsOn
<1>5. RootDevice' = RootDevice /\ RootId' = RootId
  BY <1>1, <1>3 DEF RootDevice, RootId
<1>6. Cyclic' = Cyclic
  BY <1>4 DEF Cyclic
<1>7. \A j : IsChild(j)' = IsChild(j) /\ Key(j)' = Key(j)
  BY <1>1 DEF IsChild, Key
<1>8. QED
  BY <1>2, <1>3, <1>4, <1>5, <1>6, <1>7

-----------------------------------------------------------------------------
(* Kahn's algorithm.                                                       *)

\* The next class to take: it waits for none, and those that wait for it are
\* neither taken nor queued and wait for it alone.
LEMMA NextReady ==
  ASSUME TypeInv, SortInv, ready # <<>>
  PROVE  /\ Head(ready) \in Classes \ Taken
         /\ in_degree[Head(ready)] = 0
         /\ NoneTwice(ordered) /\ NoneTwice(ready)
         /\ Head(ready) \notin ToSet(Tail(ready))
         /\ Taken \intersect Queued = {}
         /\ Successors(Head(ready)) \subseteq Classes \ (Taken \union Queued)
         /\ \A s \in Successors(Head(ready)) : in_degree[s] = 1
         /\ NewlyReady(Head(ready)) = Successors(Head(ready))
<1> DEFINE c == Head(ready)
           q == ordered \o ready
<1>1. /\ ready \in Seq(Classes) /\ ordered \in Seq(Classes)
      /\ Len(ready) \in Nat \ {0} /\ Len(ordered) \in Nat
      /\ c \in Classes /\ c = ready[1]
      /\ DOMAIN ready = 1 .. Len(ready) /\ DOMAIN ordered = 1 .. Len(ordered)
  BY DEF TypeInv
<1>2. /\ DOMAIN q = 1 .. Len(ordered) + Len(ready)
      /\ \A j \in DOMAIN ordered : q[j] = ordered[j]
      /\ \A j \in DOMAIN ready : q[j + Len(ordered)] = ready[j]
  BY <1>1
<1> HIDE DEF c, q
<1>3. NoneTwice(q)
  BY DEF SortInv, q
<1>4. NoneTwice(ordered)
  BY <1>1, <1>2, <1>3 DEF NoneTwice
<1>5. NoneTwice(ready)
  <2> SUFFICES ASSUME NEW j \in DOMAIN ready, NEW k \in DOMAIN ready, ready[j] = ready[k]
               PROVE  j = k
    BY DEF NoneTwice
  <2>1. j + Len(ordered) \in DOMAIN q /\ k + Len(ordered) \in DOMAIN q
    BY <1>1, <1>2
  <2>2. j + Len(ordered) = k + Len(ordered)
    BY <1>2, <1>3, <2>1 DEF NoneTwice
  <2>3. QED
    BY <1>1, <2>2
<1>6. Taken \intersect Queued = {}
  <2> SUFFICES ASSUME NEW j \in DOMAIN ordered, NEW k \in DOMAIN ready, ordered[j] = ready[k]
               PROVE  FALSE
    BY DEF Taken, Queued, ToSet
  <2>1. j \in DOMAIN q /\ k + Len(ordered) \in DOMAIN q
    BY <1>1, <1>2
  <2>2. j = k + Len(ordered)
    BY <1>2, <1>3, <2>1 DEF NoneTwice
  <2>3. QED
    BY <1>1, <2>2
<1>7. c \in Queued
  BY <1>1 DEF Queued, ToSet
<1>8. in_degree[c] = 0
  BY <1>1, <1>7 DEF SortInv
<1>9. c \notin ToSet(Tail(ready))
  <2> SUFFICES ASSUME NEW j \in DOMAIN Tail(ready), Tail(ready)[j] = c
               PROVE  FALSE
    BY DEF ToSet
  <2>1. j + 1 \in DOMAIN ready /\ ready[j + 1] = c /\ 1 \in DOMAIN ready /\ j # 0 /\ j \in Nat
    BY <1>1
  <2>2. QED
    BY <1>1, <1>5, <2>1 DEF NoneTwice
<1>10. ASSUME NEW s \in Successors(c)
       PROVE  s \in Classes /\ in_degree[s] = 1 /\ s \notin Taken \union Queued
  <2>1. s \in Classes /\ c \in Classes \ Taken /\ DependsOn(s, c)
    BY <1>1, <1>6, <1>7 DEF Successors
  <2>2. in_degree[s] = 1
    BY <2>1 DEF SortInv
  <2>3. QED
    BY <2>1, <2>2 DEF SortInv
<1>11. QED
  BY <1>1, <1>4, <1>5, <1>6, <1>7, <1>8, <1>9, <1>10 DEF NewlyReady, c

LEMMA SortBegins ==
  ASSUME GraphAssumption, TypeInv, ErrorInv, BuildRoot
  PROVE  SortInv' /\ in_degree' \in [Classes -> Nat] /\ ready' \in Seq(Classes)
<1> DEFINE zero == {c \in Classes : in_degree'[c] = 0}
<1>1. phase = "start" /\ ordered = <<>> /\ ordered' = <<>> /\ UNCHANGED input
  BY DEF BuildRoot, ErrorInv
<1>2. in_degree' = [c \in Classes |-> Cardinality({p \in Classes : DependsOn(c, p)})]
  BY DEF BuildRoot
<1>3. ASSUME NEW c \in Classes
      PROVE  in_degree'[c] = IF \E p \in Classes : DependsOn(c, p) THEN 1 ELSE 0
  <2>1. CASE \E p \in Classes : DependsOn(c, p)
    <3>1. PICK p \in Classes : {d \in Classes : DependsOn(c, d)} = {p}
      BY <2>1 DEF DependsOn
    <3>2. QED
      BY <1>2, <2>1, <3>1, FS_Singleton
  <2>2. CASE ~\E p \in Classes : DependsOn(c, p)
    <3>1. {d \in Classes : DependsOn(c, d)} = {}
      BY <2>2
    <3>2. QED
      BY <1>2, <2>2, <3>1, FS_EmptySet
  <2>3. QED
    BY <2>1, <2>2
<1>4. in_degree' \in [Classes -> Nat]
  BY <1>2, <1>3
<1>5. ready' = Sorted(zero) /\ zero \in SUBSET Classes
  BY DEF BuildRoot
<1> HIDE DEF zero
<1>6. ready' \in Seq(zero) /\ NoneTwice(ready') /\ ToSet(ready') = zero
  BY <1>5, SortedReturns DEF GraphAssumption
<1>7. ready' \in Seq(Classes)
  BY <1>5, <1>6
<1>8. ordered' \o ready' = ready'
  BY <1>1, <1>7
<1>9. Taken' = {} /\ Queued' = zero
  BY <1>1, <1>6 DEF Taken, Queued, ToSet
<1>10. \A c, p : DependsOn(c, p)' = DependsOn(c, p)
  BY <1>1, InputStays
<1>11. NoneTwice(ordered \o ready)'
  BY <1>6, <1>8 DEF NoneTwice
<1>12. \A c \in Classes :
         in_degree'[c] = IF \E p \in Classes \ Taken' : DependsOn(c, p)' THEN 1 ELSE 0
  BY <1>3, <1>9, <1>10
<1>13. \A c \in Classes : in_degree'[c] = 0 <=> c \in Taken' \union Queued'
  BY <1>9 DEF zero
<1>14. DOMAIN ordered' = {}
  BY <1>1
<1>15. QED
  BY <1>4, <1>7, <1>11, <1>12, <1>13, <1>14 DEF SortInv

LEMMA SortTakes ==
  ASSUME GraphAssumption, TypeInv, SortInv, TakeReady
  PROVE  /\ SortInv'
         /\ in_degree' \in [Classes -> Nat]
         /\ ready' \in Seq(Classes) /\ ordered' \in Seq(Classes)
<1> DEFINE c == Head(ready)
           new == Successors(c)
           q == ordered \o ready
<1>1. /\ UNCHANGED input /\ ready # <<>>
      /\ ordered' = Append(ordered, c)
      /\ in_degree' = [s \in Classes |-> IF s \in new THEN in_degree[s] - 1 ELSE in_degree[s]]
      /\ ready' = Tail(ready) \o Sorted(NewlyReady(c))
  BY DEF TakeReady
<1>2. /\ c \in Classes \ Taken
      /\ in_degree[c] = 0
      /\ NoneTwice(ordered) /\ NoneTwice(ready)
      /\ c \notin ToSet(Tail(ready))
      /\ Taken \intersect Queued = {}
      /\ new \subseteq Classes \ (Taken \union Queued)
      /\ \A s \in new : in_degree[s] = 1
      /\ NewlyReady(c) = new
  BY <1>1, NextReady
<1>3. /\ ready \in Seq(Classes) /\ ordered \in Seq(Classes) /\ in_degree \in [Classes -> Nat]
  BY DEF TypeInv
<1>4. c = ready[1] /\ Tail(ready) \in Seq(Classes) /\ Len(ready) \in Nat \ {0}
  BY <1>1, <1>3
<1> HIDE DEF c, new, q
<1>5. in_degree' \in [Classes -> Nat]
  BY <1>1, <1>2, <1>3
<1>6. /\ Sorted(new) \in Seq(Classes)
      /\ NoneTwice(Sorted(new))
      /\ ToSet(Sorted(new)) = new
  <2>1. new \in SUBSET Classes
    BY <1>2
  <2>2. Sorted(new) \in Seq(new)
    BY <2>1, SortedReturns DEF GraphAssumption
  <2>3. QED
    BY <2>1, <2>2, SortedReturns DEF GraphAssumption
<1>7. ready' \in Seq(Classes) /\ ordered' \in Seq(Classes)
  BY <1>1, <1>2, <1>3, <1>4, <1>6
<1>8. Taken' = Taken \union {c}
  <2>1. /\ DOMAIN ordered' = 1 .. Len(ordered) + 1 /\ DOMAIN ordered = 1 .. Len(ordered)
        /\ Len(ordered) \in Nat
        /\ \A j \in DOMAIN ordered' : ordered'[j] = IF j = Len(ordered) + 1 THEN c ELSE ordered[j]
    BY <1>1, <1>3
  <2>2. QED
    BY <2>1 DEF Taken, ToSet
<1>9. ToSet(Tail(ready)) = Queued \ {c} /\ NoneTwice(Tail(ready))
  <2>1. /\ DOMAIN ready = 1 .. Len(ready) /\ DOMAIN Tail(ready) = 1 .. Len(ready) - 1
        /\ \A j \in DOMAIN Tail(ready) : Tail(ready)[j] = ready[j + 1] /\ j + 1 \in DOMAIN ready
    BY <1>3, <1>4
  <2>2. ASSUME NEW x \in Queued, x # c PROVE x \in ToSet(Tail(ready))
    <3>1. PICK j \in DOMAIN ready : x = ready[j]
      BY <2>2 DEF Queued, ToSet
    <3>2. j - 1 \in DOMAIN Tail(ready) /\ (j - 1) + 1 = j
      BY <1>4, <2>1, <2>2, <3>1
    <3>3. QED
      BY <2>1, <3>1, <3>2 DEF ToSet
  <2>3. ASSUME NEW x \in ToSet(Tail(ready)) PROVE x \in Queued
    BY <2>1, <2>3 DEF Queued, ToSet
  <2>4. NoneTwice(Tail(ready))
    <3> SUFFICES ASSUME NEW j \in DOMAIN Tail(ready), NEW k \in DOMAIN Tail(ready),
                        Tail(ready)[j] = Tail(ready)[k]
                 PROVE  j = k
      BY DEF NoneTwice
    <3>1. j + 1 = k + 1
      BY <1>2, <2>1 DEF NoneTwice
    <3>2. QED
      BY <1>4, <2>1, <3>1
  <2>5. QED
    BY <1>2, <2>2, <2>3, <2>4
<1>10. Queued' = (Queued \ {c}) \union new
  <2>1. ToSet(Tail(ready)) \intersect ToSet(Sorted(new)) = {}
    BY <1>2, <1>6, <1>9
  <2>2. ToSet(Tail(ready) \o Sorted(new)) = ToSet(Tail(ready)) \union ToSet(Sorted(new))
    <3> DEFINE s == Tail(ready)
               t == Sorted(new)
    <3>1. /\ s \in Seq(Classes) /\ t \in Seq(Classes) /\ NoneTwice(s) /\ NoneTwice(t)
          /\ ToSet(s) \intersect ToSet(t) = {}
      BY <1>4, <1>6, <1>9, <2>1
    <3> HIDE DEF s, t
    <3>2. ToSet(s \o t) = ToSet(s) \union ToSet(t)
      BY <3>1, ConcatOnce
    <3>3. QED
      BY <3>2 DEF s, t
  <2>3. Queued' = ToSet(Tail(ready) \o Sorted(new))
    BY <1>1, <1>2 DEF Queued
  <2>4. QED
    BY <1>6, <1>9, <2>2, <2>3
<1>11. NoneTwice(ordered \o ready)'
  <2>1. ordered' \o ready' = q \o Sorted(new)
    <3>1. Append(ordered, c) \o Tail(ready) = ordered \o ready
      BY <1>3, <1>4
    <3>2. Append(ordered, c) \in Seq(Classes)
      BY <1>1, <1>7
    <3>3. Append(ordered, c) \o (Tail(ready) \o Sorted(new))
            = (Append(ordered, c) \o Tail(ready)) \o Sorted(new)
      BY <1>4, <1>6, <3>2, ConcatAssociates
    <3>4. QED
      BY <1>1, <1>2, <3>1, <3>3 DEF q
  <2>2. NoneTwice(q) /\ q \in Seq(Classes)
    BY <1>3 DEF SortInv, q
  <2>3. ToSet(q) = Taken \union Queued
    BY <1>2, <1>3, ConcatOnce DEF Taken, Queued, q
  <2>4. NoneTwice(q \o Sorted(new))
    BY <1>2, <1>6, <2>2, <2>3, ConcatOnce
  <2>5. QED
    BY <2>1, <2>4 DEF NoneTwice
<1>12. \A s, p : DependsOn(s, p)' = DependsOn(s, p)
  BY <1>1, InputStays
<1>13. ASSUME NEW s \in Classes
       PROVE  /\ in_degree'[s] = IF \E p \in Classes \ Taken' : DependsOn(s, p)' THEN 1 ELSE 0
              /\ in_degree'[s] = 0 <=> s \in Taken' \union Queued'
  <2>1. CASE s \in new
    <3>1. in_degree'[s] = 0
      BY <1>1, <1>2, <2>1
    <3>2. DependsOn(s, c)
      BY <2>1 DEF new, Successors
    <3>3. \A p \in Classes : DependsOn(s, p) => p = c
      BY <3>2 DEF DependsOn
    <3>4. QED
      BY <1>8, <1>10, <1>12, <2>1, <3>1, <3>3
  <2>2. CASE s \notin new
    <3>1. in_degree'[s] = in_degree[s]
      BY <1>1, <2>2
    <3>2. ~DependsOn(s, c)
      BY <2>2 DEF new, Successors
    <3>3. (\E p \in Classes \ Taken' : DependsOn(s, p)) <=> (\E p \in Classes \ Taken : DependsOn(s, p))
      BY <1>8, <3>2
    <3>4. s \in Taken' \union Queued' <=> s \in Taken \union Queued
      <4>1. c \in Queued
        BY <1>3, <1>4 DEF Queued, ToSet
      <4>2. QED
        BY <1>8, <1>10, <2>2, <4>1
    <3>5. QED
      BY <1>12, <3>1, <3>3, <3>4 DEF SortInv
  <2>3. QED
    BY <2>1, <2>2
<1>14. ASSUME NEW k \in DOMAIN ordered', NEW p \in Classes, DependsOn(ordered'[k], p)
       PROVE  \E j \in 1 .. k - 1 : ordered'[j] = p
  <2>1. /\ DOMAIN ordered' = 1 .. Len(ordered) + 1 /\ DOMAIN ordered = 1 .. Len(ordered)
        /\ Len(ordered) \in Nat
        /\ \A j \in DOMAIN ordered : ordered'[j] = ordered[j]
        /\ ordered'[Len(ordered) + 1] = c
    BY <1>1, <1>3
  <2>2. CASE k = Len(ordered) + 1
    <3>1. p \in Taken
      BY <1>2, <1>14, <2>1, <2>2 DEF SortInv
    <3>2. PICK j \in DOMAIN ordered : ordered[j] = p
      BY <3>1 DEF Taken, ToSet
    <3>3. QED
      BY <2>1, <2>2, <3>2
  <2>3. CASE k # Len(ordered) + 1
    <3>1. k \in DOMAIN ordered
      BY <2>1, <2>3
    <3>2. PICK j \in 1 .. k - 1 : ordered[j] = p
      BY <1>14, <2>1, <3>1 DEF SortInv
    <3>3. j \in DOMAIN ordered
      BY <2>1, <3>1
    <3>4. QED
      BY <2>1, <3>2, <3>3
  <2>4. QED
    BY <2>2, <2>3
<1>15. QED
  BY <1>5, <1>7, <1>11, <1>12, <1>13, <1>14 DEF SortInv

LEMMA AllTaken ==
  ASSUME GraphAssumption, TypeInv, SortInv, ready = <<>>, Len(ordered) = NumClasses
  PROVE  Taken = Classes
<1>1. ordered \in Seq(Classes) /\ DOMAIN ordered = 1 .. NumClasses
  BY DEF TypeInv
<1>2. ordered \in [Classes -> Classes]
  BY <1>1 DEF Classes
<1>3. NoneTwice(ordered)
  <2>1. ordered \o ready = ordered
    BY <1>1
  <2>2. QED
    BY <2>1 DEF SortInv
<1>4. ordered \in Injection(Classes, Classes)
  BY <1>1, <1>2, <1>3 DEF Injection, IsInjective, NoneTwice, Classes
<1>5. IsFiniteSet(Classes)
  BY FS_Interval DEF Classes, GraphAssumption
<1>6. ordered \in Surjection(Classes, Classes)
  BY <1>4, <1>5, FS_Injection
<1>7. QED
  BY <1>1, <1>6 DEF Surjection, Taken, ToSet, Classes

\* What is left over when the queue runs empty waits for each other.
LEMMA LeftOverCyclic ==
  ASSUME GraphAssumption, TypeInv, SortInv, ready = <<>>, Len(ordered) # NumClasses
  PROVE  Cyclic
<1> DEFINE cs == Classes \ Taken
<1>1. cs # {}
  <2> SUFFICES ASSUME Classes \subseteq Taken PROVE FALSE
    OBVIOUS
  <2> DEFINE n == Len(ordered)
  <2>1. n \in Nat /\ ordered \in [1 .. n -> Classes] /\ DOMAIN ordered = 1 .. n
    BY DEF TypeInv
  <2>2. NoneTwice(ordered)
    <3>1. ordered \o ready = ordered
      BY DEF TypeInv
    <3>2. QED
      BY <3>1 DEF SortInv
  <2>3. n # NumClasses
    OBVIOUS
  <2> HIDE DEF n
  <2>4. ordered \in Injection(1 .. n, Classes)
    BY <2>1, <2>2 DEF Injection, IsInjective, NoneTwice
  <2>5. ordered \in Surjection(1 .. n, Classes)
    BY <2>1 DEF Surjection, Taken, ToSet
  <2>6. IsFiniteSet(Classes) /\ Cardinality(Classes) = NumClasses
    BY FS_Interval DEF Classes, GraphAssumption
  <2>7. Cardinality(1 .. n) = n
    BY <2>1, FS_Interval
  <2>8. QED
    BY <2>3, <2>4, <2>5, <2>6, <2>7, FS_Injection
<1>2. Queued = {}
  BY DEF Queued, ToSet
<1>3. ASSUME NEW c \in cs PROVE \E p \in cs : DependsOn(c, p)
  BY <1>2 DEF SortInv
<1>4. QED
  BY <1>1, <1>3 DEF Cyclic

\* Where every class has been taken after its parent, none wait for each other.
LEMMA TakenAcyclic ==
  ASSUME TypeInv, SortInv, Taken = Classes
  PROVE  ~Cyclic
<1> SUFFICES ASSUME Cyclic PROVE FALSE
  OBVIOUS
<1> PICK cs \in (SUBSET Classes) \ {{}} : \A c \in cs : \E p \in cs : DependsOn(c, p)
  BY DEF Cyclic
<1> DEFINE S == {k \in DOMAIN ordered : ordered[k] \in cs}
<1>1. S \in SUBSET Nat /\ DOMAIN ordered = 1 .. Len(ordered) /\ Len(ordered) \in Nat
  BY DEF TypeInv
<1>2. S # {}
  BY DEF Taken, ToSet
<1>3. PICK k \in S : \A j \in S : k <= j
  <2> HIDE DEF S
  <2>1. QED
    BY <1>1, <1>2, LeastNat
<1>4. PICK p \in cs : DependsOn(ordered[k], p)
  OBVIOUS
<1>5. PICK j \in 1 .. k - 1 : ordered[j] = p
  BY <1>4 DEF SortInv
<1>6. j \in S /\ j < k
  BY <1>1, <1>3, <1>4, <1>5
<1>7. QED
  BY <1>1, <1>3, <1>6

-----------------------------------------------------------------------------
(* The loops.                                                              *)

\* A new descriptor leaves what has been placed as it was.
LEMMA DescriptorBegins ==
  ASSUME TypeInv, ErrorInv, LoopInv, NextDescriptor
  PROVE  LoopInv' /\ Done' = Done /\ to_place' \subseteq DOMAIN manifest /\ visited' \in Nat
<1>1. /\ visited \in Nat /\ Len(ordered) \in Nat /\ visited < Len(ordered)
      /\ visited' = visited + 1 /\ to_place = {}
      /\ to_place' = OfClass(ordered[visited + 1])
      /\ UNCHANGED <<input, phase, error, ordered>> /\ phase = "place"
  BY DEF NextDescriptor, TypeInv, sort
<1>2. \A c : OfClass(c)' = OfClass(c)
  BY <1>1, InputStays
<1>3. manifest' = manifest
  BY <1>1 DEF input
<1>4. Done' = Done
  <2>1. Done' = {j \in DOMAIN manifest :
                   \/ manifest[j].class = Root
                   \/ \E k \in 1 .. visited + 1 :
                        /\ manifest[j].class = ordered[k]
                        /\ k = visited + 1 => j \notin OfClass(ordered[visited + 1])}
    BY <1>1, <1>3 DEF Done
  <2>2. ASSUME NEW j \in DOMAIN manifest, NEW k \in 1 .. visited + 1,
               manifest[j].class = ordered[k],
               k = visited + 1 => j \notin OfClass(ordered[visited + 1])
        PROVE  k \in 1 .. visited
    BY <1>1, <2>2 DEF OfClass
  <2>3. Done = {j \in DOMAIN manifest :
                  \/ manifest[j].class = Root
                  \/ \E k \in 1 .. visited : manifest[j].class = ordered[k]}
    BY <1>1 DEF Done
  <2>4. 1 .. visited \subseteq 1 .. visited + 1 /\ \A k \in 1 .. visited : k # visited + 1
    BY <1>1
  <2>5. QED
    BY <2>1, <2>2, <2>3, <2>4
<1>5. LoopInv'
  <2>1. error' # "cycle" /\ Taken' = Taken
    BY <1>1 DEF ErrorInv, Taken
  <2>2. QED
    BY <1>1, <1>2, <2>1 DEF LoopInv
<1>6. QED
  BY <1>1, <1>4, <1>5 DEF OfClass

\* No class is taken twice.
LEMMA OrderedOnce ==
  ASSUME TypeInv, SortInv
  PROVE  NoneTwice(ordered)
<1> DEFINE q == ordered \o ready
<1>1. /\ \A j \in DOMAIN ordered : j \in DOMAIN q /\ q[j] = ordered[j]
      /\ NoneTwice(q)
  BY DEF TypeInv, SortInv
<1> HIDE DEF q
<1>2. QED
  BY <1>1 DEF NoneTwice

\* Placing an instance adds it to those that are done.
LEMMA InstancePlaced ==
  ASSUME GraphAssumption, TypeInv, SortInv, LoopInv, phase = "place", to_place # {}, Placed,
         UNCHANGED ordered
  PROVE  LET j == Current
         IN  /\ j \in DOMAIN manifest \ Done
             /\ visited \in 1 .. Len(ordered) /\ manifest[j].class = ordered[visited]
             /\ manifest[j].class \in Classes
             /\ Done' = Done \union {j}
             /\ LoopInv'
             /\ to_place' \subseteq DOMAIN manifest
<1> DEFINE j == Current
<1>1. /\ visited \in Nat /\ Len(ordered) \in Nat /\ ordered \in Seq(Classes)
      /\ to_place \subseteq DOMAIN manifest /\ manifest \in Manifests
  BY DEF TypeInv
<1>2. /\ to_place' = to_place \ {j} /\ visited' = visited
      /\ UNCHANGED <<input, phase, error, ordered>>
  BY DEF Placed
<1>3. DOMAIN manifest \subseteq Nat
  BY <1>1 DEF GraphAssumption
<1>4. j \in to_place
  BY <1>1, <1>3, LeastNat DEF Current
<1> HIDE DEF j
<1>5. visited > 0 /\ to_place \subseteq OfClass(ordered[visited])
  BY <1>1 DEF LoopInv
<1>6. j \in DOMAIN manifest /\ manifest[j].class = ordered[visited]
  BY <1>4, <1>5 DEF OfClass
<1>7. visited \in 1 .. Len(ordered) /\ ordered[visited] \in Classes
  BY <1>1, <1>5 DEF LoopInv
<1>8. manifest' = manifest
  BY <1>2 DEF input
<1>9. Done' = Done \union {j}
  <2>1. Done' = {i \in DOMAIN manifest :
                   \/ manifest[i].class = Root
                   \/ \E k \in 1 .. visited : /\ manifest[i].class = ordered[k]
                                              /\ k = visited => i \notin to_place \ {j}}
    BY <1>2, <1>8 DEF Done
  <2>2. j \in Done'
    BY <1>6, <1>7, <2>1
  <2>3. QED
    BY <1>6, <2>1, <2>2 DEF Done
<1>10. \A c : OfClass(c)' = OfClass(c)
  BY <1>2, InputStays
<1>11. LoopInv'
  <2>1. Taken' = Taken
    BY <1>2 DEF Taken
  <2>2. QED
    BY <1>2, <1>5, <1>7, <1>10, <2>1 DEF LoopInv
<1>12. j \notin Done
  <2>1. NoneTwice(ordered) /\ DOMAIN ordered = 1 .. Len(ordered)
    BY <1>1, OrderedOnce
  <2>2. \A k \in 1 .. visited : ordered[k] = ordered[visited] => k = visited
    BY <1>1, <1>7, <2>1 DEF NoneTwice
  <2>3. manifest[j].class # Root
    BY <1>6, <1>7 DEF Root, Classes
  <2>4. QED
    BY <1>4, <1>6, <2>2, <2>3 DEF Done
<1>13. QED
  BY <1>1, <1>2, <1>6, <1>7, <1>9, <1>11, <1>12 DEF j

-----------------------------------------------------------------------------
(* The tree.                                                               *)

LEMMA RootPlaced ==
  ASSUME GraphAssumption, TypeInv, ErrorInv, BuildRoot
  PROVE  TreeInv'
<1> PICK j \in DOMAIN manifest : /\ OfClass(Root) = {j}
                                 /\ manifest[j].class = Root
                                 /\ RootDevice = j
  BY SingleOne DEF BuildRoot, RootDevice
<1>1. /\ devices' = [i \in {RootId} |-> j]
      /\ properties' = [k \in DOMAIN properties \union {Key(j)} |->
                          IF k = Key(j) THEN j ELSE properties[k]]
      /\ parent' = parent
      /\ DOMAIN properties = {} /\ DOMAIN parent = {} /\ visited' = 0 /\ UNCHANGED input
  BY DEF BuildRoot, Attach, ErrorInv, place
<1>2. manifest' = manifest
  BY <1>1 DEF input
<1>3. Done' = {j}
  BY <1>1, <1>2 DEF Done, OfClass
<1>4. RootDevice' = j /\ RootId' = RootId /\ RootId = manifest[j].id /\ Key(j)' = Key(j)
  BY <1>1, InputStays DEF RootId
<1>5. ~IsChild(j)'
  <2>1. ~IsChild(j)
    BY DEF IsChild, Root, Classes, GraphAssumption
  <2>2. QED
    BY <1>1, <2>1, InputStays
<1>6. DeviceInv'
  BY <1>1, <1>3, <1>5 DEF DeviceInv, NoCircle
<1>7. QED
  BY <1>1, <1>2, <1>3, <1>4, <1>5, <1>6 DEF TreeInv

\* The root is no child.
LEMMA RootIsNoChild ==
  ASSUME GraphAssumption, IsSingle(Root)
  PROVE  RootDevice \in DOMAIN manifest /\ ~IsChild(RootDevice)
<1>1. RootDevice \in DOMAIN manifest /\ manifest[RootDevice].class = Root
  BY SingleOne DEF RootDevice
<1>2. QED
  BY <1>1 DEF IsChild, Root, Classes, GraphAssumption

\* A new thing under an old one makes no circle.
LEMMA CircleFree ==
  ASSUME NEW f, NEW j, NEW d, NEW top,
         j \notin DOMAIN f, j # top, d \in DOMAIN f \union {top},
         \A i \in DOMAIN f : f[i] \in DOMAIN f \union {top},
         \A ds \in (SUBSET DOMAIN f) \ {{}} : \E e \in ds : f[e] \notin ds
  PROVE  LET g == [i \in DOMAIN f \union {j} |-> IF i = j THEN d ELSE f[i]]
         IN  \A ds \in (SUBSET DOMAIN g) \ {{}} : \E e \in ds : g[e] \notin ds
<1> DEFINE g == [i \in DOMAIN f \union {j} |-> IF i = j THEN d ELSE f[i]]
<1> SUFFICES ASSUME NEW ds \in (SUBSET DOMAIN g) \ {{}}
             PROVE  \E e \in ds : g[e] \notin ds
  OBVIOUS
<1>1. g[j] = d /\ \A i \in DOMAIN f : g[i] = f[i]
  OBVIOUS
<1>2. CASE ds = {j}
  BY <1>1, <1>2
<1>3. CASE ds # {j}
  <2>1. ds \ {j} \in (SUBSET DOMAIN f) \ {{}}
    BY <1>3
  <2>2. PICK e \in ds \ {j} : f[e] \notin ds \ {j}
    BY <2>1
  <2>3. e \in DOMAIN f /\ g[e] = f[e] /\ f[e] # j
    BY <1>1, <2>1, <2>2
  <2>4. QED
    BY <2>2, <2>3
<1>4. QED
  BY <1>2, <1>3

LEMMA NodePlaced ==
  ASSUME GraphAssumption, TypeInv, SortInv, LoopInv, TreeInv, IsSingle(Root), AttachNode
  PROVE  TreeInv' /\ LoopInv' /\ to_place' \subseteq DOMAIN manifest
<1> DEFINE j == Current
<1>1. /\ phase = "place" /\ to_place # {} /\ Placed
      /\ Placement.kind = "node-on-parent" /\ parent' = parent /\ devices' = devices
      /\ Attach(j, RootDevice)
      /\ UNCHANGED ordered
  BY DEF AttachNode, Placed, sort
<1>2. /\ j \in DOMAIN manifest \ Done
      /\ Done' = Done \union {j} /\ LoopInv'
      /\ to_place' \subseteq DOMAIN manifest
  BY <1>1, InstancePlaced
<1>3. ~IsChild(j)
  BY <1>1 DEF IsChild, Placement
<1> HIDE DEF j
<1>4. properties' = [k \in DOMAIN properties \union {Key(j)} |->
                       IF k = Key(j) THEN RootDevice ELSE properties[k]]
  BY <1>1 DEF Attach
<1>5. UNCHANGED input /\ manifest' = manifest /\ placement' = placement
  BY <1>1 DEF Placed, input
<1>6. /\ \A c : TheOne(c)' = TheOne(c) /\ IsSingle(c)' = IsSingle(c)
      /\ RootDevice' = RootDevice /\ RootId' = RootId
      /\ \A i : IsChild(i)' = IsChild(i) /\ Key(i)' = Key(i)
  BY <1>5, InputStays
<1>7. DeviceInv'
  <2>1. {i \in Done' : IsChild(i)'} = {i \in Done : IsChild(i)}
    BY <1>2, <1>3, <1>6
  <2>2. QED
    BY <1>1, <1>5, <1>6, <2>1 DEF TreeInv, DeviceInv, NoCircle
<1>8. ASSUME NEW i \in Done'
      PROVE  IF IsChild(i) THEN /\ properties'[Key(i)] \in DOMAIN parent
                                /\ Key(properties'[Key(i)]) = Key(i)
             ELSE properties'[Key(i)] = RootDevice
  <2>1. CASE i = j
    BY <1>3, <1>4, <2>1
  <2>2. CASE i # j /\ Key(i) = Key(j)
    <3>1. manifest[i].class = manifest[j].class
      BY <2>2 DEF Key
    <3>2. ~IsChild(i)
      BY <1>3, <3>1 DEF IsChild
    <3>3. QED
      BY <1>4, <2>2, <3>2
  <2>3. CASE i # j /\ Key(i) # Key(j)
    <3>1. i \in Done /\ Key(i) \in DOMAIN properties
      BY <1>2, <2>3 DEF TreeInv
    <3>2. properties'[Key(i)] = properties[Key(i)]
      BY <1>4, <2>3, <3>1
    <3>3. QED
      BY <3>1, <3>2 DEF TreeInv
  <2>4. QED
    BY <2>1, <2>2, <2>3
<1>9. DOMAIN properties' = {Key(i) : i \in Done'}
  BY <1>2, <1>4 DEF TreeInv
<1>10. \A k : Key(properties[k])' = Key(properties'[k])
  BY <1>5 DEF Key
<1>11. TreeInv'
  BY <1>1, <1>5, <1>6, <1>7, <1>8, <1>9, <1>10 DEF TreeInv
<1>12. QED
  BY <1>2, <1>11

LEMMA ChildPlaced ==
  ASSUME GraphAssumption, TypeInv, SortInv, LoopInv, TreeInv, IsSingle(Root), BuildChild
  PROVE  TreeInv' /\ LoopInv' /\ to_place' \subseteq DOMAIN manifest
<1> DEFINE j  == Current
           c  == placement[manifest[j].class].parent
           d  == devices[ParentId]
           id == manifest[j].id
<1>1. /\ phase = "place" /\ to_place # {} /\ Placed
      /\ Placement.kind = "child-of-parent" /\ ParentIsSingle
      /\ ParentId \in DOMAIN devices
      /\ BuildUnder(d)
      /\ UNCHANGED ordered
  BY DEF BuildChild, Placed, sort
<1>2. /\ j \in DOMAIN manifest \ Done /\ manifest[j].class \in Classes
      /\ Done' = Done \union {j} /\ LoopInv'
      /\ to_place' \subseteq DOMAIN manifest
  BY <1>1, InstancePlaced
<1>3. IsChild(j)
  BY <1>1, <1>2 DEF IsChild, Placement
<1>4. IsSingle(c) /\ ParentId = manifest[TheOne(c)].id
  BY <1>1 DEF ParentIsSingle, ParentId, Placement
<1>5. d \in DOMAIN parent \union {RootDevice} /\ manifest[d].id = ParentId
  BY <1>1 DEF TreeInv
<1>6. /\ parent' = [i \in DOMAIN parent \union {j} |-> IF i = j THEN d ELSE parent[i]]
      /\ devices' = [i \in DOMAIN devices \union {id} |-> IF i = id THEN j ELSE devices[i]]
      /\ properties' = [k \in DOMAIN properties \union {Key(j)} |->
                          IF k = Key(j) THEN j ELSE properties[k]]
  BY <1>1 DEF BuildUnder, Attach
<1> HIDE DEF j, c, d, id
<1>7. UNCHANGED input /\ manifest' = manifest /\ placement' = placement
  BY <1>1 DEF Placed, input
<1>8. /\ \A e : TheOne(e)' = TheOne(e) /\ IsSingle(e)' = IsSingle(e)
      /\ RootDevice' = RootDevice /\ RootId' = RootId
      /\ \A i : IsChild(i)' = IsChild(i) /\ Key(i)' = Key(i)
  BY <1>7, InputStays
<1>9. j \notin DOMAIN parent /\ j # RootDevice /\ DOMAIN parent' = DOMAIN parent \union {j}
  BY <1>2, <1>3, <1>6, RootIsNoChild DEF TreeInv, DeviceInv
<1>10. DeviceInv'
  <2>1. DOMAIN parent' = {i \in Done' : IsChild(i)'}
    BY <1>2, <1>3, <1>8, <1>9 DEF TreeInv, DeviceInv
  <2>2. ASSUME NEW i \in DOMAIN parent', NEW e, e = placement[manifest[i].class].parent
        PROVE  /\ IsSingle(e)
               /\ parent'[i] \in DOMAIN parent' \union {RootDevice}
               /\ manifest[parent'[i]].id = manifest[TheOne(e)].id
    <3>1. CASE i = j
      <4>1. e = c
        BY <2>2, <3>1 DEF c
      <4>2. QED
        BY <1>4, <1>5, <1>6, <1>9, <3>1, <4>1
    <3>2. CASE i # j
      <4>1. i \in DOMAIN parent /\ parent'[i] = parent[i]
        BY <1>6, <1>9, <3>2
      <4>2. QED
        BY <1>9, <2>2, <4>1 DEF TreeInv, DeviceInv
    <3>3. QED
      BY <3>1, <3>2
  <2>3. NoCircle'
    <3>1. \A i \in DOMAIN parent : parent[i] \in DOMAIN parent \union {RootDevice}
      BY DEF TreeInv, DeviceInv
    <3>2. \A ds \in (SUBSET DOMAIN parent) \ {{}} : \E e \in ds : parent[e] \notin ds
      BY DEF TreeInv, DeviceInv, NoCircle
    <3>3. \A ds \in (SUBSET DOMAIN parent') \ {{}} : \E e \in ds : parent'[e] \notin ds
      BY <1>5, <1>6, <1>9, <3>1, <3>2, CircleFree
    <3>4. QED
      BY <3>3 DEF NoCircle
  <2>4. QED
    BY <1>7, <1>8, <2>1, <2>2, <2>3 DEF DeviceInv
<1>11. DOMAIN devices' = {RootId} \union {manifest[i].id : i \in DOMAIN parent'}
  BY <1>6, <1>9 DEF TreeInv, id
<1>12. ASSUME NEW i \in DOMAIN devices'
       PROVE  devices'[i] \in DOMAIN parent' \union {RootDevice} /\ manifest[devices'[i]].id = i
  <2>1. CASE i = id
    BY <1>6, <1>9, <2>1 DEF id
  <2>2. CASE i # id
    BY <1>6, <1>9, <2>2 DEF TreeInv
  <2>3. QED
    BY <2>1, <2>2
<1>13. ASSUME NEW i \in Done'
       PROVE  IF IsChild(i) THEN /\ properties'[Key(i)] \in DOMAIN parent'
                                 /\ Key(properties'[Key(i)]) = Key(i)
              ELSE properties'[Key(i)] = RootDevice
  <2>1. CASE Key(i) = Key(j)
    <3>1. manifest[i].class = manifest[j].class
      BY <2>1 DEF Key
    <3>2. IsChild(i)
      BY <1>3, <3>1 DEF IsChild
    <3>3. QED
      BY <1>6, <1>9, <2>1, <3>2
  <2>2. CASE Key(i) # Key(j)
    <3>1. i \in Done /\ Key(i) \in DOMAIN properties
      BY <1>2, <2>2 DEF TreeInv
    <3>2. properties'[Key(i)] = properties[Key(i)]
      BY <1>6, <2>2, <3>1
    <3>3. QED
      BY <1>9, <3>1, <3>2 DEF TreeInv
  <2>3. QED
    BY <2>1, <2>2
<1>14. DOMAIN properties' = {Key(i) : i \in Done'}
  BY <1>2, <1>6 DEF TreeInv
<1>15. \A k : Key(properties[k])' = Key(properties'[k])
  BY <1>7 DEF Key
<1>16. TreeInv'
  BY <1>7, <1>8, <1>10, <1>11, <1>12, <1>13, <1>14, <1>15 DEF TreeInv
<1>17. QED
  BY <1>2, <1>16

-----------------------------------------------------------------------------
(* The invariant.                                                          *)

\* A step that leaves the sort alone leaves what is said of it, and one that
\* leaves the tree and what has been placed alone what is said of these.
LEMMA SortStays ==
  ASSUME UNCHANGED <<input, sort>>
  PROVE  SortInv' = SortInv /\ Taken' = Taken
<1>1. UNCHANGED <<in_degree, ready, ordered>> /\ UNCHANGED input
  BY DEF sort
<1>2. \A c, p : DependsOn(c, p)' = DependsOn(c, p)
  BY <1>1, InputStays
<1>3. Taken' = Taken /\ Queued' = Queued
  BY <1>1 DEF Taken, Queued
<1>4. QED
  BY <1>1, <1>2, <1>3 DEF SortInv, NoneTwice

LEMMA TreeStays ==
  ASSUME UNCHANGED <<input, graph>>, Done' = Done
  PROVE  TreeInv' = TreeInv
<1>1. /\ UNCHANGED <<parent, devices, properties>>
      /\ UNCHANGED <<placement, manifest, input>>
  BY DEF input, graph
<1>2. /\ \A c : TheOne(c)' = TheOne(c) /\ IsSingle(c)' = IsSingle(c)
      /\ RootDevice' = RootDevice /\ RootId' = RootId
      /\ \A j : IsChild(j)' = IsChild(j) /\ Key(j)' = Key(j)
  BY <1>1, InputStays
<1>3. DeviceInv' = DeviceInv
  BY <1>1, <1>2 DEF DeviceInv, NoCircle
<1>4. QED
  BY <1>1, <1>2, <1>3 DEF TreeInv, Key

LEMMA AllStays ==
  ASSUME UNCHANGED <<input, sort, place, graph>>
  PROVE  /\ SortInv' = SortInv /\ Taken' = Taken
         /\ TreeInv' = TreeInv
         /\ Placement' = Placement
         /\ to_place' = to_place /\ visited' = visited /\ ordered' = ordered
<1>1. UNCHANGED <<placement, manifest, ordered, visited, to_place>>
  BY DEF input, sort, place
<1>2. Done' = Done
  BY <1>1 DEF Done
<1>3. Placement' = Placement
  BY <1>1 DEF Placement, Current
<1>4. QED
  BY <1>1, <1>2, <1>3, SortStays, TreeStays

\* A child is refused for a parent "not yet built" only if the parent is a node.
LEMMA RefusedForANode ==
  ASSUME GraphAssumption, TypeInv, SortInv, LoopInv, TreeInv,
         phase = "place", to_place # {}, Placement.kind = "child-of-parent",
         ParentIsSingle, ParentId \notin DOMAIN devices
  PROVE  placement[Placement.parent].kind = "node-on-parent"
<1> DEFINE j == Current
           p == Placement.parent
<1>1. /\ visited \in Nat /\ Len(ordered) \in Nat /\ ordered \in Seq(Classes)
      /\ to_place \subseteq DOMAIN manifest /\ manifest \in Manifests
      /\ placement \in [Classes -> Placements]
  BY DEF TypeInv
<1>2. DOMAIN manifest \subseteq Nat
  BY <1>1 DEF GraphAssumption
<1>3. j \in to_place
  BY <1>1, <1>2, LeastNat DEF Current
<1>4. Placement = placement[manifest[j].class]
  BY DEF Placement
<1> HIDE DEF j
<1>5. visited \in 1 .. Len(ordered) /\ manifest[j].class = ordered[visited]
  BY <1>1, <1>3 DEF LoopInv, OfClass
<1>6. p # Root
  BY DEF TreeInv, ParentId, RootDevice, RootId
<1>7. p \in Classes /\ IsSingle(p)
  BY <1>6 DEF ParentIsSingle
<1>8. DependsOn(ordered[visited], p)
  BY <1>4, <1>5 DEF DependsOn
<1>9. PICK k \in 1 .. visited - 1 : ordered[k] = p
  BY <1>5, <1>7, <1>8 DEF SortInv
<1>10. PICK i \in DOMAIN manifest : manifest[i].class = p /\ TheOne(p) = i
  BY <1>7, SingleOne
<1>11. i \in Done
  BY <1>1, <1>9, <1>10 DEF Done
<1>12. ~IsChild(i)
  BY <1>10, <1>11 DEF TreeInv, DeviceInv, ParentId
<1>13. placement[p].kind # "child-of-parent"
  BY <1>7, <1>10, <1>12 DEF IsChild
<1>14. placement[p].kind \in {"node-on-parent", "child-of-parent"}
  BY <1>1, <1>7 DEF GraphAssumption
<1>15. QED
  BY <1>13, <1>14

LEMMA InitHolds == ASSUME GraphAssumption PROVE Init => IInv
<1> SUFFICES ASSUME Init PROVE IInv
  OBVIOUS
<1>1. phase = "start" /\ error = "none"
  BY DEF Init
<1>2. TypeInv
  BY DEF Init, TypeInv
<1>3. ErrorInv
  BY DEF Init, ErrorInv, ParentsComeFirst
<1>4. QED
  BY <1>1, <1>2, <1>3 DEF IInv, Rooted

LEMMA NextHolds == ASSUME GraphAssumption PROVE IInv /\ [Next]_vars => IInv'
<1> SUFFICES ASSUME IInv, [Next]_vars PROVE IInv'
  OBVIOUS
<1>1. TypeInv /\ ErrorInv /\ (Rooted => SortInv /\ LoopInv /\ TreeInv)
  BY DEF IInv
<1>2. ASSUME RefuseRoot PROVE IInv'
  <2>1. /\ phase' = "refused" /\ error' = "root count" /\ ~IsSingle(Root)
        /\ UNCHANGED <<input, sort, place, graph>>
    BY <1>2 DEF RefuseRoot, Refuse
  <2>2. ~Rooted'
    BY <2>1, InputStays DEF Rooted
  <2>3. TypeInv'
    BY <1>1, <2>1 DEF TypeInv, input, sort, place
  <2>4. ErrorInv'
    BY <2>1 DEF ErrorInv, ParentsComeFirst
  <2>5. QED
    BY <2>2, <2>3, <2>4 DEF IInv
<1>3. ASSUME BuildRoot PROVE IInv'
  <2>1. /\ phase' = "sort" /\ error' = error /\ error = "none" /\ IsSingle(Root)
        /\ UNCHANGED <<input, ordered, place>> /\ visited = 0 /\ to_place = {}
    BY <1>1, <1>3 DEF BuildRoot, ErrorInv
  <2>2. SortInv' /\ in_degree' \in [Classes -> Nat] /\ ready' \in Seq(Classes)
    BY <1>1, <1>3, SortBegins
  <2>3. TreeInv'
    BY <1>1, <1>3, RootPlaced
  <2>4. TypeInv'
    BY <1>1, <2>1, <2>2 DEF TypeInv, input, place
  <2>5. ErrorInv'
    BY <2>1, InputStays DEF ErrorInv, ParentsComeFirst
  <2>6. LoopInv'
    <3>1. visited' = 0 /\ to_place' = {} /\ ordered' = ordered /\ Len(ordered) \in Nat
      BY <1>1, <2>1 DEF place, TypeInv
    <3>2. QED
      BY <2>1, <3>1 DEF LoopInv
  <2>7. QED
    BY <2>2, <2>3, <2>4, <2>5, <2>6 DEF IInv
<1>4. ASSUME TakeReady PROVE IInv'
  <2>1. /\ phase = "sort" /\ error = "none" /\ IsSingle(Root)
        /\ UNCHANGED <<input, phase, error, place, graph>>
    BY <1>1, <1>4 DEF TakeReady, ErrorInv
  <2>2. SortInv /\ LoopInv /\ TreeInv
    BY <1>1, <2>1 DEF Rooted
  <2>3. /\ SortInv' /\ in_degree' \in [Classes -> Nat]
        /\ ready' \in Seq(Classes) /\ ordered' \in Seq(Classes)
    BY <1>1, <1>4, <2>2, SortTakes
  <2>4. visited = 0 /\ visited' = 0 /\ to_place = {} /\ to_place' = {}
    BY <2>1, <2>2 DEF LoopInv, place
  <2>5. manifest' = manifest /\ placement' = placement
    BY <2>1 DEF input
  <2>6. TypeInv'
    BY <1>1, <2>1, <2>3, <2>4, <2>5 DEF TypeInv
  <2>7. ErrorInv'
    BY <2>1, InputStays DEF ErrorInv, ParentsComeFirst
  <2>8. LoopInv'
    BY <2>1, <2>3, <2>4 DEF LoopInv
  <2>9. Done' = Done
    BY <2>4, <2>5 DEF Done
  <2>10. TreeInv'
    BY <2>1, <2>2, <2>9, TreeStays, InputStays DEF IInv, Rooted
  <2>11. QED
    BY <2>3, <2>6, <2>7, <2>8, <2>10 DEF IInv
<1>5. ASSUME EndSort PROVE IInv'
  <2>1. /\ phase = "sort" /\ error = "none" /\ IsSingle(Root) /\ ready = <<>>
        /\ UNCHANGED <<input, sort, place, graph>>
    BY <1>1, <1>5 DEF EndSort, ErrorInv
  <2>2. SortInv /\ LoopInv /\ TreeInv
    BY <1>1, <2>1 DEF Rooted
  <2>3. \/ phase' = "place" /\ error' = "none" /\ Taken = Classes
        \/ phase' = "refused" /\ error' = "cycle" /\ Cyclic
    <3>1. CASE Len(ordered) = NumClasses
      BY <1>1, <1>5, <2>1, <2>2, <3>1, AllTaken DEF EndSort
    <3>2. CASE Len(ordered) # NumClasses
      BY <1>1, <1>5, <2>1, <2>2, <3>2, LeftOverCyclic DEF EndSort, Refuse
    <3>3. QED
      BY <3>1, <3>2
  <2>4. TypeInv'
    BY <1>1, <2>1, <2>3 DEF TypeInv, input, sort, place
  <2>5. ErrorInv'
    BY <2>1, <2>3, InputStays DEF ErrorInv, ParentsComeFirst
  <2>6. LoopInv'
    <3>1. visited = 0 /\ visited' = 0 /\ to_place' = {} /\ ordered' = ordered /\ Len(ordered) \in Nat
      BY <1>1, <2>1, <2>2 DEF LoopInv, place, sort, TypeInv
    <3>2. Taken' = Taken
      BY <2>1, AllStays
    <3>3. QED
      BY <2>3, <3>1, <3>2 DEF LoopInv
  <2>7. SortInv' /\ TreeInv'
    BY <2>1, <2>2, AllStays, InputStays DEF IInv, Rooted
  <2>8. QED
    BY <2>4, <2>5, <2>6, <2>7 DEF IInv
<1>6. ASSUME NextDescriptor PROVE IInv'
  <2>1. /\ phase = "place" /\ error = "none" /\ IsSingle(Root)
        /\ UNCHANGED <<input, phase, error, sort, graph>>
    BY <1>1, <1>6 DEF NextDescriptor, ErrorInv
  <2>2. SortInv /\ LoopInv /\ TreeInv
    BY <1>1, <2>1 DEF Rooted
  <2>3. LoopInv' /\ Done' = Done /\ to_place' \subseteq DOMAIN manifest /\ visited' \in Nat
    BY <1>1, <1>6, <2>2, DescriptorBegins
  <2>4. TypeInv'
    BY <1>1, <2>1, <2>3 DEF TypeInv, input, sort
  <2>5. ErrorInv'
    BY <2>1, InputStays DEF ErrorInv, ParentsComeFirst
  <2>6. SortInv' /\ TreeInv'
    BY <2>1, <2>2, <2>3, SortStays, TreeStays, InputStays DEF IInv, Rooted
  <2>7. QED
    BY <2>3, <2>4, <2>5, <2>6 DEF IInv
<1>7. ASSUME AttachNode \/ BuildChild PROVE IInv'
  <2>1. /\ phase = "place" /\ error = "none" /\ IsSingle(Root)
        /\ UNCHANGED <<input, phase, error, sort, visited>>
    BY <1>1, <1>7 DEF AttachNode, BuildChild, Placed, ErrorInv
  <2>2. SortInv /\ LoopInv /\ TreeInv
    BY <1>1, <2>1 DEF Rooted
  <2>3. TreeInv' /\ LoopInv' /\ to_place' \subseteq DOMAIN manifest
    BY <1>1, <1>7, <2>1, <2>2, NodePlaced, ChildPlaced
  <2>4. TypeInv'
    BY <1>1, <2>1, <2>3 DEF TypeInv, input, sort
  <2>5. ErrorInv'
    BY <2>1, InputStays DEF ErrorInv, ParentsComeFirst
  <2>6. SortInv'
    BY <2>1, <2>2, <2>3, SortStays, InputStays DEF IInv, Rooted
  <2>7. QED
    BY <2>3, <2>4, <2>5, <2>6 DEF IInv
<1>8. ASSUME RefuseChild PROVE IInv'
  <2>1. /\ phase = "place" /\ error = "none" /\ IsSingle(Root) /\ to_place # {}
        /\ phase' = "refused" /\ Placement.kind = "child-of-parent"
        /\ UNCHANGED <<input, sort, place, graph>>
        /\ \/ error' \in {"no parent class", "parent count"}
           \/ error' = "not yet built" /\ ParentIsSingle /\ ParentId \notin DOMAIN devices
    BY <1>1, <1>8 DEF RefuseChild, Refuse, ErrorInv
  <2>2. SortInv /\ LoopInv /\ TreeInv
    BY <1>1, <2>1 DEF Rooted
  <2>3. placement' = placement
    BY <2>1 DEF input
  <2>4. ParentsComeFirst'
    <3>1. CASE error' = "not yet built"
      <4>1. placement[Placement.parent].kind = "node-on-parent"
        BY <1>1, <2>1, <2>2, <3>1, RefusedForANode
      <4>2. QED
        BY <2>1, <2>3, <4>1, AllStays DEF ParentsComeFirst
    <3>2. QED
      BY <3>1 DEF ParentsComeFirst
  <2>5. TypeInv'
    BY <1>1, <2>1 DEF TypeInv, input, sort, place
  <2>6. ErrorInv'
    BY <2>1, <2>4 DEF ErrorInv
  <2>7. LoopInv'
    <3>1. \A c : OfClass(c)' = OfClass(c)
      BY <2>1, InputStays
    <3>2. to_place' = to_place /\ visited' = visited /\ ordered' = ordered
      BY <2>1, AllStays
    <3>3. QED
      BY <2>1, <2>2, <3>1, <3>2 DEF LoopInv
  <2>8. SortInv' /\ TreeInv'
    BY <2>1, <2>2, AllStays
  <2>9. QED
    BY <2>5, <2>6, <2>7, <2>8 DEF IInv
<1>9. ASSUME Finish PROVE IInv'
  <2>1. /\ phase = "place" /\ error = "none" /\ IsSingle(Root) /\ to_place = {}
        /\ visited = Len(ordered) /\ phase' = "built" /\ error' = error
        /\ UNCHANGED <<input, sort, place, graph>>
    BY <1>1, <1>9 DEF Finish, ErrorInv
  <2>2. SortInv /\ LoopInv /\ TreeInv
    BY <1>1, <2>1 DEF Rooted
  <2>3. TypeInv'
    BY <1>1, <2>1 DEF TypeInv, input, sort, place
  <2>4. ErrorInv'
    BY <2>1, InputStays DEF ErrorInv, ParentsComeFirst
  <2>5. LoopInv'
    <3>1. \A c : OfClass(c)' = OfClass(c)
      BY <2>1, InputStays
    <3>2. to_place' = to_place /\ visited' = visited /\ ordered' = ordered /\ Taken' = Taken
      BY <2>1, AllStays
    <3>3. QED
      BY <2>1, <2>2, <3>1, <3>2 DEF LoopInv
  <2>6. SortInv' /\ TreeInv'
    BY <2>1, <2>2, AllStays, InputStays DEF IInv, Rooted
  <2>7. QED
    BY <2>3, <2>4, <2>5, <2>6 DEF IInv
<1>10. ASSUME UNCHANGED vars PROVE IInv'
  <2>1. UNCHANGED <<input, phase, error, sort, place, graph>>
    BY <1>10 DEF vars
  <2>2. placement' = placement
    BY <2>1 DEF input
  <2>3. TypeInv'
    BY <1>1, <2>1 DEF TypeInv, input, sort, place
  <2>4. ParentsComeFirst'
    BY <1>1, <2>1, <2>2, AllStays DEF ErrorInv, ParentsComeFirst
  <2>5. ErrorInv'
    BY <1>1, <2>1, <2>4, InputStays DEF ErrorInv, sort, place, graph
  <2>6. Rooted' = Rooted
    BY <2>1, InputStays DEF Rooted
  <2>7. LoopInv' = LoopInv
    <3>1. \A c : OfClass(c)' = OfClass(c)
      BY <2>1, InputStays
    <3>2. to_place' = to_place /\ visited' = visited /\ ordered' = ordered /\ Taken' = Taken
      BY <2>1, AllStays
    <3>3. QED
      BY <2>1, <3>1, <3>2 DEF LoopInv
  <2>8. SortInv' = SortInv /\ TreeInv' = TreeInv
    BY <2>1, AllStays, InputStays
  <2>9. QED
    BY <2>3, <2>5, <2>6, <2>7, <2>8 DEF IInv
<1>11. QED
  BY <1>2, <1>3, <1>4, <1>5, <1>6, <1>7, <1>8, <1>9, <1>10 DEF Next

\* The inductive invariant: the types, where sort and loops stand, and the tree
\* as far as it has been built.
THEOREM GraphInvariance == Spec => []IInv
<1>1. QED
  BY GraphAssumption, InitHolds, NextHolds, PTL DEF Spec

\* A mapping table is refused as cyclic exactly if it is, however many classes
\* it has and whatever their names (graph_builder.py, _topo_sort_descriptors).
THEOREM CyclesRefused == Spec => []RefusesExactlyTheCyclic
<1>1. IInv => RefusesExactlyTheCyclic
  <2> SUFFICES ASSUME IInv PROVE RefusesExactlyTheCyclic
    OBVIOUS
  <2>1. error = "cycle" => Cyclic
    BY DEF IInv, ErrorInv
  <2>2. ASSUME phase \in {"place", "built"} PROVE ~Cyclic
    <3>1. TypeInv /\ SortInv /\ Taken = Classes
      BY <2>2 DEF IInv, ErrorInv, Rooted, LoopInv
    <3>2. QED
      BY <3>1, TakenAcyclic
  <2>3. QED
    BY <2>1, <2>2 DEF RefusesExactlyTheCyclic
<1>2. QED
  BY <1>1, GraphInvariance, PTL

\* No child is ever refused because its parent device comes too late.
THEOREM ParentsFirst == Spec => []ParentsComeFirst
<1>1. IInv => ParentsComeFirst
  BY DEF IInv, ErrorInv
<1>2. QED
  BY <1>1, GraphInvariance, PTL

\* In a finished construction every instance of a class of the mapping is done.
LEMMA BuiltAll ==
  ASSUME GraphAssumption, IInv, phase = "built"
  PROVE  /\ SortInv /\ TreeInv /\ Taken = Classes
         /\ IsSingle(Root)
         /\ Done = {j \in DOMAIN manifest : manifest[j].class \in Classes \union {Root}}
         /\ \A j \in DOMAIN manifest : manifest[j].class \in Classes \union {Root, Unknown}
<1>1. /\ IsSingle(Root) /\ TypeInv /\ SortInv /\ LoopInv /\ TreeInv
  BY DEF IInv, ErrorInv, Rooted
<1>2. visited = Len(ordered) /\ to_place = {} /\ Taken = Classes
  BY <1>1 DEF LoopInv
<1>3. DOMAIN ordered = 1 .. Len(ordered) /\ ordered \in Seq(Classes)
  BY <1>1 DEF TypeInv
<1>4. \A c : c \in Classes <=> \E k \in 1 .. visited : c = ordered[k]
  BY <1>2, <1>3 DEF Taken, ToSet
<1>5. Done = {j \in DOMAIN manifest : manifest[j].class \in Classes \union {Root}}
  BY <1>2, <1>4 DEF Done
<1>6. \A j \in DOMAIN manifest : manifest[j].class \in Classes \union {Root, Unknown}
  <2> DEFINE instances == [class : Classes \union {Root, Unknown}, id : Ids]
  <2>1. manifest \in Seq(instances)
    BY <1>1 DEF TypeInv, GraphAssumption
  <2>2. \A i \in instances : i.class \in Classes \union {Root, Unknown}
    OBVIOUS
  <2> HIDE DEF instances
  <2>3. \A j \in DOMAIN manifest : manifest[j] \in instances
    BY <2>1
  <2>4. QED
    BY <2>2, <2>3
<1>7. QED
  BY <1>1, <1>2, <1>5, <1>6

\* A finished tree has every instance of the mapping's classes in its place, for
\* any mapping and any manifest, ids that repeat included (build_graph).
THEOREM TreeComplete == Spec => []TreeIsComplete
<1>1. ASSUME GraphAssumption, IInv, phase = "built" PROVE TreeIsComplete
  <2>1. /\ TreeInv /\ IsSingle(Root)
        /\ Done = {j \in DOMAIN manifest : manifest[j].class \in Classes \union {Root}}
        /\ \A j \in DOMAIN manifest : manifest[j].class \in Classes \union {Root, Unknown}
    BY <1>1, BuiltAll
  <2>2. Known = Done
    BY <1>1, <2>1 DEF Known, GraphAssumption
  <2>3. \A j \in Done : j \in Children <=> IsChild(j)
    <3>1. Root \notin Classes
      BY DEF Root, Classes
    <3>2. QED
      BY <2>1, <2>2, <3>1 DEF Children, IsChild
  <2>4. DOMAIN parent = Children
    BY <2>1, <2>2, <2>3 DEF TreeInv, DeviceInv, Children
  <2>5. DOMAIN devices = {manifest[j].id : j \in Children \union {RootDevice}}
    BY <2>1, <2>4 DEF TreeInv, RootId
  <2>6. QED
    BY <2>1, <2>2, <2>3, <2>4, <2>5 DEF TreeIsComplete, TreeInv, DeviceInv
<1>2. ASSUME GraphAssumption, IInv PROVE TreeIsComplete
  <2>1. CASE phase = "built"
    BY <1>1, <1>2, <2>1
  <2>2. CASE phase # "built"
    BY <2>2 DEF TreeIsComplete
  <2>3. QED
    BY <2>1, <2>2
<1>3. QED
  BY <1>2, GraphAssumption, GraphInvariance, PTL
=============================================================================
