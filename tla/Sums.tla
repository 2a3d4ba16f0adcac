-------------------------------- MODULE Sums --------------------------------
(***************************************************************************)
(* Facts about the sum of a function over a finite set, the fold of the    *)
(* community modules that Gateway and System count with.                   *)
(*                                                                         *)
(* The fold picks the elements in an order of its own, by a recursive      *)
(* function on the subsets.  That such a function exists is proved first,  *)
(* and every fact by way of a smallest subset that violates it.            *)
(***************************************************************************)
EXTENDS Functions, Integers, FiniteSetTheorems, TLAPS

Sum(f, S) == FoldFunctionOnSet(+, 0, f, S)

Pick(s) == CHOOSE x \in s : TRUE

\* The equation that defines the partial sums of f over the subsets of S.
PartialSums(f, S, g) ==
    g = [s \in SUBSET S |-> IF s = {} THEN 0 ELSE f[Pick(s)] + g[s \ {Pick(s)}]]

LEMMA SumIsPartialSum ==
    ASSUME NEW f, NEW S
    PROVE  Sum(f, S) = (CHOOSE g : PartialSums(f, S, g))[S]
  BY DEF Sum, FoldFunctionOnSet, MapThenFoldSet, PartialSums, Pick

\* Among subsets of a finite set one is smallest.
LEMMA SmallestSubset ==
    ASSUME NEW S, IsFiniteSet(S), NEW C, C # {}, \A T \in C : T \subseteq S
    PROVE  \E T \in C : IsFiniteSet(T) /\ \A U \in C : U \subseteq T => U = T
  <1>1. IsWellFoundedOn(StrictSubsetOrdering(S), FiniteSubsetsOf(S))
    BY FS_StrictSubsetOrderingWellFounded
  <1>2. C \subseteq FiniteSubsetsOf(S)
    BY FS_FiniteSubsetsOfFinite
  <1>3. PICK T \in C : \A U \in C : <<U, T>> \notin StrictSubsetOrdering(S)
    BY <1>1, <1>2, WFMin
  <1>4. \A U \in C : U \subseteq T => U = T
    BY <1>3 DEF StrictSubsetOrdering
  <1>5. IsFiniteSet(T)
    BY FS_Subset
  <1> QED BY <1>3, <1>4, <1>5

LEMMA PickIn == ASSUME NEW s, s # {} PROVE Pick(s) \in s
  BY DEF Pick

LEMMA PartialSumsAt ==
    ASSUME NEW f, NEW S, NEW g, PartialSums(f, S, g), NEW s \in SUBSET S
    PROVE  g[s] = IF s = {} THEN 0 ELSE f[Pick(s)] + g[s \ {Pick(s)}]
  BY DEF PartialSums

\* Two tables of partial sums agree where they are both defined.
LEMMA PartialSumsAgree ==
    ASSUME NEW f, NEW S, NEW T, NEW g, NEW h,
           PartialSums(f, S, g), PartialSums(f, T, h),
           NEW U, U \subseteq S, U \subseteq T, IsFiniteSet(U)
    PROVE  g[U] = h[U]
  <1> DEFINE C == {s \in SUBSET U : g[s] # h[s]}
  <1> SUFFICES ASSUME C # {} PROVE FALSE
    OBVIOUS
  <1>1. PICK s \in C : \A t \in C : t \subseteq s => t = s
    <2>1. \A X \in C : X \subseteq U
      OBVIOUS
    <2> HIDE DEF C
    <2> QED BY <2>1, SmallestSubset
  <1>2. s # {}
    BY <1>1, PartialSumsAt
  <1>3. Pick(s) \in s
    BY <1>2, PickIn
  <1>4. g[s \ {Pick(s)}] = h[s \ {Pick(s)}]
    BY <1>1, <1>3
  <1>5. g[s] = f[Pick(s)] + g[s \ {Pick(s)}] /\ h[s] = f[Pick(s)] + h[s \ {Pick(s)}]
    BY <1>2, PartialSumsAt
  <1> QED BY <1>4, <1>5

LEMMA PartialSumsExist ==
    ASSUME NEW f, NEW S, IsFiniteSet(S)
    PROVE  \E g : PartialSums(f, S, g)
  <1> DEFINE C == {T \in SUBSET S : ~ \E g : PartialSums(f, T, g)}
             G(T) == CHOOSE g : PartialSums(f, T, g)
  <1> SUFFICES ASSUME C # {} PROVE FALSE
    OBVIOUS
  <1>1. PICK T \in C : IsFiniteSet(T) /\ \A U \in C : U \subseteq T => U = T
    <2>1. \A X \in C : X \subseteq S
      OBVIOUS
    <2> HIDE DEF C
    <2> QED BY <2>1, SmallestSubset
  <1>2. \A U \in SUBSET T : U # T => PartialSums(f, U, G(U))
    BY <1>1
  <1> DEFINE h == [s \in SUBSET T |->
                     IF s = {} THEN 0 ELSE f[Pick(s)] + G(s \ {Pick(s)})[s \ {Pick(s)}]]
  <1>3. ASSUME NEW U \in SUBSET T, U # T PROVE h[U] = G(U)[U]
    <2>1. PartialSums(f, U, G(U)) /\ IsFiniteSet(U)
      BY <1>1, <1>2, <1>3, FS_Subset
    <2> DEFINE V == U \ {Pick(U)}
    <2>2. G(U)[U] = IF U = {} THEN 0 ELSE f[Pick(U)] + G(U)[V]
      <3> HIDE DEF G
      <3> QED BY <2>1, PartialSumsAt
    <2>3. CASE U = {}
      BY <2>2, <2>3
    <2>4. CASE U # {}
      <3>1. V \in SUBSET U /\ V # T
        BY <2>4, PickIn
      <3>2. PartialSums(f, V, G(V)) /\ IsFiniteSet(V)
        BY <1>2, <2>1, <3>1, FS_Subset
      <3>3. G(U)[V] = G(V)[V]
        <4> HIDE DEF G
        <4> QED BY <2>1, <3>1, <3>2, PartialSumsAgree
      <3>4. h[U] = f[Pick(U)] + G(V)[V]
        BY <2>4
      <3> QED BY <2>2, <2>4, <3>3, <3>4
    <2> QED BY <2>3, <2>4
  <1>4. ASSUME NEW s \in SUBSET T, s # {}
        PROVE  h[s] = f[Pick(s)] + h[s \ {Pick(s)}]
    <2>1. h[s] = f[Pick(s)] + G(s \ {Pick(s)})[s \ {Pick(s)}]
      BY <1>4
    <2>2. s \ {Pick(s)} \in SUBSET T /\ s \ {Pick(s)} # T
      BY <1>4, PickIn
    <2> QED BY <1>3, <2>1, <2>2
  <1>5. h[{}] = 0
    OBVIOUS
  <1>6. PartialSums(f, T, h)
    <2>1. h = [s \in SUBSET T |-> h[s]]
      OBVIOUS
    <2> HIDE DEF h
    <2>2. \A s \in SUBSET T : h[s] = IF s = {} THEN 0 ELSE f[Pick(s)] + h[s \ {Pick(s)}]
      BY <1>4, <1>5
    <2> QED BY <2>1, <2>2 DEF PartialSums
  <1> QED BY <1>1, <1>6

-----------------------------------------------------------------------------
(* The sum.                                                                *)

\* The order in which the fold takes the elements.
LEMMA SumPick ==
    ASSUME NEW f, NEW S, IsFiniteSet(S)
    PROVE  Sum(f, S) = IF S = {} THEN 0 ELSE f[Pick(S)] + Sum(f, S \ {Pick(S)})
  <1> DEFINE G(T) == CHOOSE g : PartialSums(f, T, g)
  <1>1. \A T : IsFiniteSet(T) => PartialSums(f, T, G(T))
    BY PartialSumsExist
  <1>2. \A T : Sum(f, T) = G(T)[T]
    BY SumIsPartialSum
  <1> HIDE DEF G
  <1>3. G(S)[S] = IF S = {} THEN 0 ELSE f[Pick(S)] + G(S)[S \ {Pick(S)}]
    <2>1. PartialSums(f, S, G(S)) /\ S \in SUBSET S
      BY <1>1
    <2> QED BY <2>1, PartialSumsAt
  <1>4. IsFiniteSet(S \ {Pick(S)}) /\ S \ {Pick(S)} \subseteq S
    BY FS_RemoveElement
  <1>5. G(S)[S \ {Pick(S)}] = G(S \ {Pick(S)})[S \ {Pick(S)}]
    BY <1>1, <1>4, PartialSumsAgree
  <1> QED BY <1>2, <1>3, <1>5

LEMMA SumEmpty == ASSUME NEW f PROVE Sum(f, {}) = 0
  BY SumPick, FS_EmptySet

LEMMA SumType ==
    ASSUME NEW f, NEW S, IsFiniteSet(S), \A x \in S : f[x] \in Int
    PROVE  Sum(f, S) \in Int
  <1> DEFINE C == {T \in SUBSET S : Sum(f, T) \notin Int}
  <1> SUFFICES ASSUME C # {} PROVE FALSE
    OBVIOUS
  <1>1. PICK T \in C : IsFiniteSet(T) /\ \A U \in C : U \subseteq T => U = T
    <2>1. \A X \in C : X \subseteq S
      OBVIOUS
    <2> HIDE DEF C
    <2> QED BY <2>1, SmallestSubset
  <1>2. T # {}
    <2>1. Sum(f, T) \notin Int
      OBVIOUS
    <2>2. Sum(f, {}) \in Int
      BY SumEmpty
    <2> QED BY <2>1, <2>2
  <1>3. Pick(T) \in T
    BY <1>2, PickIn
  <1>4. Sum(f, T \ {Pick(T)}) \in Int
    BY <1>1, <1>3
  <1> QED BY <1>1, <1>2, <1>3, <1>4, SumPick

\* An element may be taken out first, whichever it is.
LEMMA SumRemove ==
    ASSUME NEW f, NEW S, IsFiniteSet(S), \A x \in S : f[x] \in Int, NEW x \in S
    PROVE  Sum(f, S) = f[x] + Sum(f, S \ {x})
  <1> DEFINE C == {T \in SUBSET S : \E y \in T : Sum(f, T) # f[y] + Sum(f, T \ {y})}
  <1> SUFFICES ASSUME C # {} PROVE FALSE
    OBVIOUS
  <1>1. PICK T \in C : IsFiniteSet(T) /\ \A U \in C : U \subseteq T => U = T
    <2>1. \A X \in C : X \subseteq S
      OBVIOUS
    <2> HIDE DEF C
    <2> QED BY <2>1, SmallestSubset
  <1>2. PICK y \in T : Sum(f, T) # f[y] + Sum(f, T \ {y})
    BY <1>1
  <1> DEFINE p == Pick(T)
  <1>3. p \in T /\ Sum(f, T) = f[p] + Sum(f, T \ {p})
    BY <1>1, SumPick, PickIn
  <1>4. p # y
    BY <1>2, <1>3
  <1> HIDE DEF p
  <1> DEFINE V == T \ {p, y}
  <1>5. Sum(f, T \ {p}) = f[y] + Sum(f, V)
    <2>1. Sum(f, T \ {p}) = f[y] + Sum(f, (T \ {p}) \ {y})
      BY <1>1, <1>3, <1>4
    <2>2. (T \ {p}) \ {y} = V
      OBVIOUS
    <2> QED BY <2>1, <2>2
  <1>6. Sum(f, T \ {y}) = f[p] + Sum(f, V)
    <2>1. Sum(f, T \ {y}) = f[p] + Sum(f, (T \ {y}) \ {p})
      BY <1>1, <1>3, <1>4
    <2>2. (T \ {y}) \ {p} = V
      OBVIOUS
    <2> QED BY <2>1, <2>2
  <1>7. Sum(f, V) \in Int /\ f[p] \in Int /\ f[y] \in Int
    <2>1. IsFiniteSet(V) /\ T \subseteq S
      BY <1>1, FS_Subset
    <2> QED BY <1>3, <2>1, SumType
  <1> HIDE DEF C, V
  <1> QED BY <1>2, <1>3, <1>5, <1>6, <1>7

\* The sum over the image of an injection.
LEMMA SumReindex ==
    ASSUME NEW f, NEW g, NEW h, NEW S, IsFiniteSet(S),
           \A x \in S : g[x] \in Int /\ g[x] = f[h[x]],
           \A x, y \in S : h[x] = h[y] => x = y
    PROVE  Sum(g, S) = Sum(f, {h[x] : x \in S})
  <1> DEFINE Img(T) == {h[x] : x \in T}
             C == {T \in SUBSET S : ~(IsFiniteSet(Img(T)) /\ Sum(g, T) = Sum(f, Img(T)))}
  <1> SUFFICES ASSUME C # {} PROVE FALSE
    OBVIOUS
  <1>1. PICK T \in C : IsFiniteSet(T) /\ \A U \in C : U \subseteq T => U = T
    <2>1. \A X \in C : X \subseteq S
      OBVIOUS
    <2> HIDE DEF C
    <2> QED BY <2>1, SmallestSubset
  <1>2. T # {}
    <2>1. Img({}) = {}
      OBVIOUS
    <2> QED BY <1>1, <2>1, SumEmpty, FS_EmptySet
  <1>3. PICK x : x \in T
    BY <1>2
  <1> DEFINE U == T \ {x}
  <1>4. IsFiniteSet(Img(U)) /\ Sum(g, U) = Sum(f, Img(U))
    <2>1. U \subseteq T /\ U # T /\ U \in SUBSET S
      BY <1>3
    <2>2. U \notin C
      BY <1>1, <2>1
    <2> HIDE DEF U, Img
    <2> QED BY <2>1, <2>2
  <1>5. Img(T) = Img(U) \cup {h[x]} /\ Img(T) \ {h[x]} = Img(U)
    BY <1>3
  <1>6. IsFiniteSet(Img(T))
    <2> HIDE DEF Img, U
    <2> QED BY <1>4, <1>5, FS_AddElement
  <1>7. Sum(g, T) = g[x] + Sum(g, U)
    BY <1>1, <1>3, SumRemove
  <1>8. Sum(f, Img(T)) = f[h[x]] + Sum(f, Img(U))
    <2>1. \A v \in Img(T) : f[v] \in Int
      OBVIOUS
    <2>2. h[x] \in Img(T)
      BY <1>3
    <2> HIDE DEF Img, U
    <2>3. Sum(f, Img(T)) = f[h[x]] + Sum(f, Img(T) \ {h[x]})
      BY <1>6, <2>1, <2>2, SumRemove
    <2> QED BY <1>5, <2>3
  <1> HIDE DEF U, Img
  <1> QED BY <1>1, <1>3, <1>4, <1>6, <1>7, <1>8

\* Adding one to the values at the elements of T.
LEMMA SumAddOne ==
    ASSUME NEW f, NEW g, NEW S, IsFiniteSet(S), NEW T,
           \A x \in S : f[x] \in Int /\ g[x] = IF x \in T THEN f[x] + 1 ELSE f[x]
    PROVE  Sum(g, S) = Sum(f, S) + Cardinality(S \cap T)
  <1> DEFINE C == {U \in SUBSET S : Sum(g, U) # Sum(f, U) + Cardinality(U \cap T)}
  <1> SUFFICES ASSUME C # {} PROVE FALSE
    OBVIOUS
  <1>1. PICK U \in C : IsFiniteSet(U) /\ \A V \in C : V \subseteq U => V = U
    <2>1. \A X \in C : X \subseteq S
      OBVIOUS
    <2> HIDE DEF C
    <2> QED BY <2>1, SmallestSubset
  <1>2. U # {}
    <2>1. {} \cap T = {}
      OBVIOUS
    <2>2. Sum(g, {}) = Sum(f, {}) + Cardinality({} \cap T)
      BY <2>1, SumEmpty, FS_EmptySet
    <2> QED BY <1>1, <2>2
  <1> DEFINE p == Pick(U)
             V == U \ {p}
  <1>3. /\ p \in U
        /\ Sum(f, U) = f[p] + Sum(f, V) /\ Sum(g, U) = g[p] + Sum(g, V)
    BY <1>1, <1>2, SumPick, PickIn
  <1> HIDE DEF p
  <1>4. Sum(g, V) = Sum(f, V) + Cardinality(V \cap T)
    BY <1>1, <1>3
  <1>5. IsFiniteSet(V) /\ IsFiniteSet(U \cap T) /\ IsFiniteSet(V \cap T)
    BY <1>1, FS_Subset
  <1>6. Cardinality(U \cap T) = Cardinality(V \cap T) + (IF p \in T THEN 1 ELSE 0)
    <2>1. (U \cap T) \ {p} = V \cap T /\ (p \in U \cap T <=> p \in T)
      BY <1>3
    <2>2. Cardinality(V \cap T) = IF p \in T THEN Cardinality(U \cap T) - 1
                                  ELSE Cardinality(U \cap T)
      BY <1>5, <2>1, FS_RemoveElement
    <2>3. Cardinality(U \cap T) \in Int /\ Cardinality(V \cap T) \in Int
      BY <1>5, FS_CardinalityType
    <2> QED BY <2>2, <2>3
  <1>7. Sum(f, V) \in Int /\ f[p] \in Int /\ Cardinality(V \cap T) \in Int
    <2>1. \A x \in V : f[x] \in Int
      OBVIOUS
    <2> QED BY <1>3, <1>5, <2>1, SumType, FS_CardinalityType
  <1>8. g[p] = IF p \in T THEN f[p] + 1 ELSE f[p]
    BY <1>3
  <1> QED BY <1>1, <1>3, <1>4, <1>6, <1>7, <1>8

LEMMA SumZero ==
    ASSUME NEW f, NEW S, IsFiniteSet(S), \A x \in S : f[x] = 0
    PROVE  Sum(f, S) = 0
  <1> DEFINE C == {T \in SUBSET S : Sum(f, T) # 0}
  <1> SUFFICES ASSUME C # {} PROVE FALSE
    OBVIOUS
  <1>1. PICK T \in C : IsFiniteSet(T) /\ \A U \in C : U \subseteq T => U = T
    <2>1. \A X \in C : X \subseteq S
      OBVIOUS
    <2> HIDE DEF C
    <2> QED BY <2>1, SmallestSubset
  <1>2. T # {}
    BY <1>1, SumEmpty
  <1>3. Pick(T) \in T
    BY <1>2, PickIn
  <1>4. Sum(f, T \ {Pick(T)}) = 0 /\ f[Pick(T)] = 0
    BY <1>1, <1>3
  <1> QED BY <1>1, <1>2, <1>4, SumPick
=============================================================================
