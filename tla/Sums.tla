-------------------------------- MODULE Sums --------------------------------
(***************************************************************************)
(* Lemmas about the sum of a function over a finite set, the operator      *)
(* SumFunctionOnSet the panel meter adds powers up with.                   *)
(***************************************************************************)
EXTENDS Functions, FiniteSets, FiniteSetTheorems, WellFoundedInduction, TLAPS

\* Induction over the subsets of a finite set, with a set of subsets in the
\* place of the induction hypothesis.
LEMMA SubsetInduction ==
  ASSUME NEW S, IsFiniteSet(S), NEW Good \in SUBSET (SUBSET S),
         {} \in Good,
         \A T \in SUBSET S : T # {} /\ (\A U \in SUBSET T : U # T => U \in Good) => T \in Good
  PROVE  \A T \in SUBSET S : T \in Good
<1> DEFINE Bad == (SUBSET S) \ Good
           R == StrictSubsetOrdering(S)
<1> SUFFICES ASSUME Bad # {} PROVE FALSE
  OBVIOUS
<1>1. IsWellFoundedOn(R, FiniteSubsetsOf(S))
  BY FS_StrictSubsetOrderingWellFounded
<1>2. Bad \subseteq FiniteSubsetsOf(S)
  BY FS_Subset DEF FiniteSubsetsOf
<1>3. PICK T \in Bad : \A U \in Bad : <<U, T>> \notin R
  <2> HIDE DEF Bad, R
  <2> QED BY <1>1, <1>2, WFMin
<1>4. ASSUME NEW U \in SUBSET T, U # T PROVE U \in Good
  BY <1>3, <1>4 DEF StrictSubsetOrdering
<1>5. QED
  BY <1>3, <1>4

\* What SumFunctionOnSet chooses: a table of the sums over all subsets.
Picked(s) == CHOOSE x \in s : TRUE

IsTable(sums, f, S) ==
  sums = [s \in SUBSET S |-> IF s = {} THEN 0 ELSE f[Picked(s)] + sums[s \ {Picked(s)}]]

LEMMA SumByTable ==
  ASSUME NEW f, NEW S
  PROVE  SumFunctionOnSet(f, S) = (CHOOSE sums : IsTable(sums, f, S))[S]
  BY DEF SumFunctionOnSet, FoldFunctionOnSet, MapThenFoldSet, IsTable, Picked

\* Two tables agree wherever both are defined.
LEMMA TablesAgree ==
  ASSUME NEW f, NEW S, IsFiniteSet(S), NEW A, NEW B, S \subseteq A, S \subseteq B,
         NEW g, IsTable(g, f, A), NEW h, IsTable(h, f, B)
  PROVE  g[S] = h[S]
<1> DEFINE Good == {T \in SUBSET S : g[T] = h[T]}
<1>1. ASSUME NEW T \in SUBSET S,
             T # {} /\ (\A U \in SUBSET T : U # T => U \in Good)
      PROVE  T \in Good
  <2>1. Picked(T) \in T
    BY <1>1 DEF Picked
  <2>2. T \ {Picked(T)} \in Good
    BY <1>1, <2>1
  <2>3. g[T] = f[Picked(T)] + g[T \ {Picked(T)}]
    BY <1>1 DEF IsTable
  <2>4. h[T] = f[Picked(T)] + h[T \ {Picked(T)}]
    BY <1>1 DEF IsTable
  <2>5. QED
    BY <2>2, <2>3, <2>4
<1>2. g[{}] = 0 /\ h[{}] = 0
  BY DEF IsTable
<1>3. \A T \in SUBSET S : T \in Good
  <2>1. {} \in Good /\ Good \in SUBSET (SUBSET S)
    BY <1>2
  <2> HIDE DEF Good
  <2>2. QED
    BY <1>1, <2>1, SubsetInduction
<1>4. QED
  BY <1>3

\* Every finite set has a table.
LEMMA TableExists ==
  ASSUME NEW f, NEW S, IsFiniteSet(S)
  PROVE  \E g : IsTable(g, f, S)
<1> DEFINE Good == {T \in SUBSET S : \E g : IsTable(g, f, T)}
           Table(T) == CHOOSE g : IsTable(g, f, T)
<1>1. {} \in Good
  <2>1. IsTable([s \in SUBSET {} |-> 0], f, {})
    BY DEF IsTable
  <2>2. QED
    BY <2>1
<1>2. ASSUME NEW T \in SUBSET S,
             T # {} /\ (\A U \in SUBSET T : U # T => U \in Good)
      PROVE  T \in Good
  <2> DEFINE x == Picked(T)
             g == [s \in SUBSET T |-> IF s = T THEN f[x] + Table(T \ {x})[T \ {x}]
                                      ELSE Table(s)[s]]
  <2>1. x \in T
    BY <1>2 DEF Picked
  <2>2. ASSUME NEW U \in SUBSET T, U # T PROVE IsTable(Table(U), f, U)
    BY <1>2, <2>2
  <2>3. ASSUME NEW s \in SUBSET T
        PROVE  g[s] = IF s = {} THEN 0 ELSE f[Picked(s)] + g[s \ {Picked(s)}]
    <3>1. CASE s = T
      <4>1. s \ {x} # T /\ s \ {x} \in SUBSET T
        BY <2>1, <3>1
      <4>2. QED
        BY <1>2, <3>1, <4>1
    <3>2. CASE s # T /\ s = {}
      <4>1. IsTable(Table(s), f, s)
        BY <2>2, <3>2
      <4>2. Table(s)[s] = 0
        BY <3>2, <4>1 DEF IsTable
      <4>3. QED
        BY <3>2, <4>2
    <3>3. CASE s # T /\ s # {}
      <4> DEFINE y == Picked(s)
      <4>1. y \in s /\ s \ {y} # T /\ s \ {y} \in SUBSET T
        BY <3>3 DEF Picked
      <4>2. IsTable(Table(s), f, s) /\ IsTable(Table(s \ {y}), f, s \ {y})
        BY <2>2, <3>3, <4>1
      <4>3. Table(s)[s \ {y}] = Table(s \ {y})[s \ {y}]
        <5>1. IsFiniteSet(s \ {y})
          BY FS_Subset
        <5> HIDE DEF Table, y
        <5>2. QED
          BY <4>2, <5>1, TablesAgree
      <4>4. Table(s)[s] = f[y] + Table(s)[s \ {y}]
        <5> HIDE DEF Table
        <5>1. QED
          BY <3>3, <4>2 DEF IsTable
      <4>5. QED
        BY <3>3, <4>1, <4>3, <4>4
    <3>4. QED
      BY <3>1, <3>2, <3>3
  <2>4. IsTable(g, f, T)
    <3>1. g = [s \in SUBSET T |-> g[s]]
      OBVIOUS
    <3> HIDE DEF g
    <3>2. QED
      BY <2>3, <3>1 DEF IsTable
  <2>5. QED
    BY <2>4
<1>3. Good \in SUBSET (SUBSET S)
  OBVIOUS
<1>4. S \in Good
  <2> HIDE DEF Good
  <2>1. QED
    BY <1>1, <1>2, <1>3, SubsetInduction
<1>5. QED
  BY <1>4

\* The sum, as it was meant.
LEMMA SumUnfolds ==
  ASSUME NEW f, NEW S, IsFiniteSet(S)
  PROVE  SumFunctionOnSet(f, S) =
           IF S = {} THEN 0
           ELSE f[Picked(S)] + SumFunctionOnSet(f, S \ {Picked(S)})
<1> DEFINE g == CHOOSE sums : IsTable(sums, f, S)
           h == CHOOSE sums : IsTable(sums, f, S \ {Picked(S)})
<1>1. IsFiniteSet(S \ {Picked(S)})
  BY FS_Subset
<1>2. IsTable(g, f, S) /\ IsTable(h, f, S \ {Picked(S)})
  BY <1>1, TableExists
<1>3. SumFunctionOnSet(f, S) = g[S]
      /\ SumFunctionOnSet(f, S \ {Picked(S)}) = h[S \ {Picked(S)}]
  BY SumByTable
<1>4. g[S \ {Picked(S)}] = h[S \ {Picked(S)}]
  <2> HIDE DEF g, h
  <2>1. QED
    BY <1>1, <1>2, TablesAgree
<1>5. g[S] = IF S = {} THEN 0 ELSE f[Picked(S)] + g[S \ {Picked(S)}]
  <2> HIDE DEF g
  <2>1. QED
    BY <1>2 DEF IsTable
<1>6. QED
  BY <1>3, <1>4, <1>5

\* Sums of integers are integers.
LEMMA SumInt ==
  ASSUME NEW S, IsFiniteSet(S), NEW f, \A x \in S : f[x] \in Int
  PROVE  SumFunctionOnSet(f, S) \in Int
<1> DEFINE Good == {T \in SUBSET S : SumFunctionOnSet(f, T) \in Int}
<1>1. ASSUME NEW T \in SUBSET S, T = {} \/ \A U \in SUBSET T : U # T => U \in Good
      PROVE  T \in Good
  <2>1. T # {} => Picked(T) \in T /\ T \ {Picked(T)} \in Good
    BY <1>1 DEF Picked
  <2>2. IsFiniteSet(T)
    BY FS_Subset
  <2>3. QED
    BY <2>1, <2>2, SumUnfolds
<1>2. {} \in Good /\ Good \in SUBSET (SUBSET S)
  BY <1>1
<1>3. S \in Good
  <2> HIDE DEF Good
  <2>1. QED
    BY <1>1, <1>2, SubsetInduction
<1>4. QED
  BY <1>3

\* Any element may be taken out first.
LEMMA SumRemove ==
  ASSUME NEW S, IsFiniteSet(S), NEW f, \A y \in S : f[y] \in Int, NEW x \in S
  PROVE  SumFunctionOnSet(f, S) = f[x] + SumFunctionOnSet(f, S \ {x})
<1> DEFINE Sum(T) == SumFunctionOnSet(f, T)
           Good == {T \in SUBSET S : \A z \in T : Sum(T) = f[z] + Sum(T \ {z})}
<1> HIDE DEF Sum
<1>1. ASSUME NEW T \in SUBSET S
      PROVE  /\ IsFiniteSet(T) /\ Sum(T) \in Int
             /\ T # {} => Picked(T) \in T /\ Sum(T) = f[Picked(T)] + Sum(T \ {Picked(T)})
  <2>1. IsFiniteSet(T)
    BY FS_Subset
  <2>2. QED
    BY <2>1, SumInt, SumUnfolds DEF Sum, Picked
<1>2. ASSUME NEW T \in SUBSET S, T # {}, \A U \in SUBSET T : U # T => U \in Good
      PROVE  T \in Good
  <2> DEFINE y == Picked(T)
  <2>1. ASSUME NEW z \in T, z # y PROVE Sum(T) = f[z] + Sum(T \ {z})
    <3>1. y \in T /\ Sum(T) = f[y] + Sum(T \ {y})
      BY <1>1, <1>2
    <3> HIDE DEF y
    <3>2. T \ {y} \in Good /\ T \ {z} \in Good
      BY <1>2, <3>1
    <3>3. Sum(T \ {y}) = f[z] + Sum((T \ {y}) \ {z})
      BY <2>1, <3>2
    <3>4. Sum(T \ {z}) = f[y] + Sum((T \ {y}) \ {z})
      <4>1. Sum(T \ {z}) = f[y] + Sum((T \ {z}) \ {y})
        BY <2>1, <3>1, <3>2
      <4>2. (T \ {z}) \ {y} = (T \ {y}) \ {z}
        OBVIOUS
      <4>3. QED
        BY <4>1, <4>2
    <3>5. PICK rest \in Int : rest = Sum((T \ {y}) \ {z})
      BY <1>1
    <3>6. Sum(T) = f[y] + (f[z] + rest) /\ Sum(T \ {z}) = f[y] + rest
      BY <3>1, <3>3, <3>4, <3>5
    <3>7. f[y] \in Int /\ f[z] \in Int
      BY <3>1
    <3>8. QED
      BY <3>5, <3>6, <3>7
  <2>2. Sum(T) = f[y] + Sum(T \ {y})
    BY <1>1, <1>2
  <2>3. QED
    BY <2>1, <2>2
<1>3. {} \in Good /\ Good \in SUBSET (SUBSET S)
  OBVIOUS
<1>4. S \in Good
  <2> HIDE DEF Good
  <2>1. QED
    BY <1>2, <1>3, SubsetInduction
<1>5. QED
  BY <1>4 DEF Sum

\* The sum of a sum, or of a difference, of functions.
LEMMA SumOfSums ==
  ASSUME NEW S, IsFiniteSet(S), NEW f, NEW g, NEW h,
         \A x \in S : f[x] \in Int /\ g[x] \in Int /\ h[x] = f[x] + g[x]
  PROVE  SumFunctionOnSet(h, S) = SumFunctionOnSet(f, S) + SumFunctionOnSet(g, S)
<1> DEFINE F(T) == SumFunctionOnSet(f, T)
           G(T) == SumFunctionOnSet(g, T)
           H(T) == SumFunctionOnSet(h, T)
           Good == {T \in SUBSET S : H(T) = F(T) + G(T)}
<1> HIDE DEF F, G, H
<1>1. ASSUME NEW T \in SUBSET S
      PROVE  /\ F(T) \in Int /\ G(T) \in Int
             /\ T = {} => F(T) = 0 /\ G(T) = 0 /\ H(T) = 0
             /\ T # {} => /\ Picked(T) \in T
                          /\ F(T) = f[Picked(T)] + F(T \ {Picked(T)})
                          /\ G(T) = g[Picked(T)] + G(T \ {Picked(T)})
                          /\ H(T) = h[Picked(T)] + H(T \ {Picked(T)})
  <2>1. IsFiniteSet(T)
    BY FS_Subset
  <2>2. T # {} => Picked(T) \in T
    BY DEF Picked
  <2>3. F(T) \in Int /\ G(T) \in Int
    BY <2>1, SumInt DEF F, G
  <2>4. QED
    BY <2>1, <2>2, <2>3, SumUnfolds DEF F, G, H
<1>2. ASSUME NEW T \in SUBSET S, T # {}, \A U \in SUBSET T : U # T => U \in Good
      PROVE  T \in Good
  <2>1. Picked(T) \in T /\ T \ {Picked(T)} \in Good
    BY <1>1, <1>2
  <2>2. F(T \ {Picked(T)}) \in Int /\ G(T \ {Picked(T)}) \in Int
    BY <1>1, <2>1
  <2>3. QED
    BY <1>1, <1>2, <2>1, <2>2
<1>3. {} \in Good /\ Good \in SUBSET (SUBSET S)
  <2>1. {} \in SUBSET S
    OBVIOUS
  <2>2. F({}) = 0 /\ G({}) = 0 /\ H({}) = 0
    BY <1>1, <2>1
  <2>3. H({}) = F({}) + G({})
    BY <2>2
  <2>4. QED
    BY <2>3
<1>4. S \in Good
  <2> HIDE DEF Good
  <2>1. QED
    BY <1>2, <1>3, SubsetInduction
<1>5. QED
  BY <1>4 DEF F, G, H

\* Summands that are zero may be left out.
LEMMA SumWithoutZeros ==
  ASSUME NEW S, IsFiniteSet(S), NEW f, \A x \in S : f[x] \in Int,
         NEW A \in SUBSET S, \A x \in S \ A : f[x] = 0
  PROVE  SumFunctionOnSet(f, S) = SumFunctionOnSet(f, A)
<1> DEFINE Sum(T) == SumFunctionOnSet(f, T)
           Good == {T \in SUBSET S : A \subseteq T => Sum(T) = Sum(A)}
<1> HIDE DEF Sum
<1>1. ASSUME NEW T \in SUBSET S, T # {}, \A U \in SUBSET T : U # T => U \in Good, A \subseteq T
      PROVE  Sum(T) = Sum(A)
  <2>1. CASE T = A
    BY <2>1
  <2>2. CASE T # A
    <3>1. PICK x \in T : x \notin A
      BY <1>1, <2>2
    <3>2. T \ {x} \in Good /\ f[x] = 0 /\ A \subseteq T \ {x}
      BY <1>1, <3>1
    <3>3. IsFiniteSet(T) /\ IsFiniteSet(T \ {x})
      BY FS_Subset
    <3>4. Sum(T) = f[x] + Sum(T \ {x})
      BY <3>3, SumRemove DEF Sum
    <3>5. Sum(T \ {x}) \in Int
      BY <3>3, SumInt DEF Sum
    <3>6. QED
      BY <3>2, <3>4, <3>5
  <2>3. QED
    BY <2>1, <2>2
<1>2. {} \in Good /\ Good \in SUBSET (SUBSET S)
  <2>1. A \subseteq {} => A = {}
    OBVIOUS
  <2>2. QED
    BY <2>1
<1>3. S \in Good
  <2>1. \A T \in SUBSET S : T # {} /\ (\A U \in SUBSET T : U # T => U \in Good) => T \in Good
    BY <1>1
  <2> HIDE DEF Good
  <2>2. QED
    BY <1>2, <2>1, SubsetInduction
<1>4. QED
  BY <1>3 DEF Sum

\* The sum over two disjoint parts.
LEMMA SumOfParts ==
  ASSUME NEW S, IsFiniteSet(S), NEW f, \A x \in S : f[x] \in Int,
         NEW A \in SUBSET S, NEW B \in SUBSET S, A \intersect B = {}, S = A \union B
  PROVE  SumFunctionOnSet(f, S) = SumFunctionOnSet(f, A) + SumFunctionOnSet(f, B)
<1> DEFINE On(T) == [x \in S |-> IF x \in T THEN f[x] ELSE 0]
<1>1. \A x \in S : On(A)[x] \in Int /\ On(B)[x] \in Int /\ f[x] = On(A)[x] + On(B)[x]
  OBVIOUS
<1>2. SumFunctionOnSet(f, S) = SumFunctionOnSet(On(A), S) + SumFunctionOnSet(On(B), S)
  <2> HIDE DEF On
  <2>1. QED
    BY <1>1, SumOfSums
<1>3. ASSUME NEW T \in SUBSET S
      PROVE  SumFunctionOnSet(On(T), S) = SumFunctionOnSet(f, T)
  <2>1. SumFunctionOnSet(On(T), S) = SumFunctionOnSet(On(T), T)
    <3>1. (\A x \in S : On(T)[x] \in Int) /\ (\A x \in S \ T : On(T)[x] = 0)
      OBVIOUS
    <3> HIDE DEF On
    <3>2. QED
      BY <3>1, SumWithoutZeros
  <2>2. SumFunctionOnSet(On(T), T) = SumFunctionOnSet(f, T)
    <3> DEFINE Zero == [x \in S |-> 0]
    <3>1. SumFunctionOnSet(Zero, T) = 0
      <4>1. /\ IsFiniteSet(T)
            /\ \A x \in T : Zero[x] \in Int
            /\ {} \in SUBSET T /\ \A x \in T \ {} : Zero[x] = 0
        BY FS_Subset
      <4> HIDE DEF Zero
      <4>2. SumFunctionOnSet(Zero, T) = SumFunctionOnSet(Zero, {})
        BY <4>1, SumWithoutZeros
      <4>3. QED
        BY <4>2, FS_EmptySet, SumUnfolds
    <3>2. \A x \in T : f[x] \in Int /\ Zero[x] \in Int /\ On(T)[x] = f[x] + Zero[x]
      OBVIOUS
    <3>3. IsFiniteSet(T)
      BY FS_Subset
    <3> HIDE DEF On, Zero
    <3>4. SumFunctionOnSet(On(T), T) = SumFunctionOnSet(f, T) + SumFunctionOnSet(Zero, T)
      BY <3>2, <3>3, SumOfSums
    <3>5. SumFunctionOnSet(f, T) \in Int
      BY <3>3, SumInt
    <3>6. QED
      BY <3>1, <3>4, <3>5
  <2>3. QED
    BY <2>1, <2>2
<1>4. QED
  BY <1>2, <1>3

\* A common factor may be taken out.
LEMMA SumScaled ==
  ASSUME NEW S, IsFiniteSet(S), NEW f, NEW h, NEW k \in Int,
         \A x \in S : f[x] \in Int /\ h[x] = f[x] * k
  PROVE  SumFunctionOnSet(h, S) = SumFunctionOnSet(f, S) * k
<1> DEFINE F(T) == SumFunctionOnSet(f, T)
           H(T) == SumFunctionOnSet(h, T)
           Good == {T \in SUBSET S : H(T) = F(T) * k}
<1> HIDE DEF F, H
<1>1. ASSUME NEW T \in SUBSET S
      PROVE  /\ F(T) \in Int
             /\ T = {} => F(T) = 0 /\ H(T) = 0
             /\ T # {} => /\ Picked(T) \in T
                          /\ F(T) = f[Picked(T)] + F(T \ {Picked(T)})
                          /\ H(T) = h[Picked(T)] + H(T \ {Picked(T)})
  <2>1. IsFiniteSet(T)
    BY FS_Subset
  <2>2. T # {} => Picked(T) \in T
    BY DEF Picked
  <2>3. F(T) \in Int
    BY <2>1, SumInt DEF F
  <2>4. QED
    BY <2>1, <2>2, <2>3, SumUnfolds DEF F, H
<1>2. ASSUME NEW T \in SUBSET S, T # {}, \A U \in SUBSET T : U # T => U \in Good
      PROVE  T \in Good
  <2>1. Picked(T) \in T /\ T \ {Picked(T)} \in Good
    BY <1>1, <1>2
  <2>2. PICK a \in Int, b \in Int : a = f[Picked(T)] /\ b = F(T \ {Picked(T)})
    BY <1>1, <2>1
  <2>3. F(T) = a + b /\ H(T) = a * k + b * k
    BY <1>1, <1>2, <2>1, <2>2
  <2>4. (a + b) * k = a * k + b * k
    OBVIOUS
  <2>5. QED
    BY <2>3, <2>4
<1>3. {} \in Good /\ Good \in SUBSET (SUBSET S)
  <2>1. F({}) = 0 /\ H({}) = 0
    BY <1>1
  <2>2. 0 = 0 * k
    OBVIOUS
  <2>3. QED
    BY <2>1, <2>2
<1>4. S \in Good
  <2> HIDE DEF Good
  <2>1. QED
    BY <1>2, <1>3, SubsetInduction
<1>5. QED
  BY <1>4 DEF F, H
=============================================================================
