------------------------------ MODULE SumProofs ------------------------------
(* Facts about the sum of a function over a finite set, for the invariants *)
(* about the total of all balances.  The library defines the sum by a      *)
(* recursive function on the subsets of S; that such a function exists is  *)
(* shown here, by way of a smallest subset for which it does not.          *)
EXTENDS Sums, FiniteSetTheorems, TLAPS

SumPick(s) == CHOOSE x \in s : TRUE

SumRest(s) == s \ {SumPick(s)}

\* The equation of the recursive function in MapThenFoldSet.
IsSum(f, S, g) ==
    g = [s \in SUBSET S |-> IF s = {} THEN 0 ELSE f[SumPick(s)] + g[SumRest(s)]]

SumFcn(f, S) == CHOOSE g : IsSum(f, S, g)

LEMMA SumOverIsSumFcn ==
  ASSUME NEW f, NEW S
  PROVE  SumOver(f, S) = SumFcn(f, S)[S]
  BY DEF SumOver, MapThenSumSet, MapThenFoldSet, SumFcn, IsSum, SumPick, SumRest

LEMMA PickIn ==
  ASSUME NEW s, s # {}
  PROVE  /\ SumPick(s) \in s /\ SumRest(s) \subseteq s /\ SumRest(s) # s
         /\ SumPick(s) \notin SumRest(s) /\ \A x \in s : x = SumPick(s) \/ x \in SumRest(s)
  BY DEF SumPick, SumRest

\* A nonempty set of subsets of a finite set has one with no other below it.
LEMMA SmallestSubset ==
  ASSUME NEW S, IsFiniteSet(S), NEW B \in SUBSET (SUBSET S), B # {}
  PROVE  \E T \in B : \A U \in SUBSET T : U # T => U \notin B
  <1>1. IsWellFoundedOn(StrictSubsetOrdering(S), SUBSET S)
    BY FS_StrictSubsetOrderingWellFounded, FS_FiniteSubsetsOfFinite
  <1>2. PICK T \in B : \A U \in B : <<U, T>> \notin StrictSubsetOrdering(S)
    BY <1>1, WFMin
  <1>3. \A U \in SUBSET T : U # T => U \notin B
    BY <1>2 DEF StrictSubsetOrdering
  <1>4. QED
    BY <1>3

-----------------------------------------------------------------------------
(* The recursive function exists *)

LEMMA SumAt ==
  ASSUME NEW f, NEW S, NEW g, IsSum(f, S, g), NEW T \in SUBSET S
  PROVE  /\ T = {} => g[T] = 0
         /\ T # {} => g[T] = f[SumPick(T)] + g[SumRest(T)]
  BY DEF IsSum

\* Two such functions agree where both are defined.
LEMMA SumUnique ==
  ASSUME NEW f, NEW S, IsFiniteSet(S), NEW T \in SUBSET S,
         NEW g, IsSum(f, S, g), NEW h, IsSum(f, T, h)
  PROVE  \A U \in SUBSET T : g[U] = h[U]
  <1> DEFINE B == {U \in SUBSET T : g[U] # h[U]}
  <1>1. SUFFICES ASSUME B # {} PROVE FALSE
    OBVIOUS
  <1>2. B \in SUBSET (SUBSET S)
    OBVIOUS
  <1>3. PICK U \in B : \A V \in SUBSET U : V # U => V \notin B
    <2> HIDE DEF B
    <2>1. QED
      BY <1>1, <1>2, SmallestSubset
  <1>4. U \in SUBSET T /\ U \in SUBSET S /\ g[U] # h[U]
    BY <1>3
  <1>5. U # {}
    BY <1>4, SumAt
  <1>6. g[SumRest(U)] = h[SumRest(U)]
    BY <1>3, <1>4, <1>5, PickIn
  <1>7. QED
    BY <1>4, <1>5, <1>6, SumAt

LEMMA SumExists ==
  ASSUME NEW f, NEW S, IsFiniteSet(S)
  PROVE  \A T \in SUBSET S : IsSum(f, T, SumFcn(f, T))
  <1> DEFINE B == {T \in SUBSET S : ~ \E g : IsSum(f, T, g)}
  <1>1. SUFFICES ASSUME B # {} PROVE FALSE
    BY DEF SumFcn
  <1>2. PICK T \in B : \A U \in SUBSET T : U # T => U \notin B
    <2>1. B \in SUBSET (SUBSET S)
      OBVIOUS
    <2> HIDE DEF B
    <2>2. QED
      BY <1>1, <2>1, SmallestSubset
  <1>3. T \in SUBSET S /\ IsFiniteSet(T) /\ ~ \E g : IsSum(f, T, g)
    BY <1>2, FS_Subset
  <1>4. \A U \in SUBSET T : U # T => IsSum(f, U, SumFcn(f, U)) /\ IsFiniteSet(U)
    BY <1>2, <1>3, FS_Subset DEF SumFcn
  <1> DEFINE below(U) == SumFcn(f, U)[U]
             g == [s \in SUBSET T |-> IF s = {} THEN 0 ELSE f[SumPick(s)] + below(SumRest(s))]
  <1>5. ASSUME NEW U \in SUBSET T, U # T
        PROVE  g[U] = below(U)
    <2>1. IsSum(f, U, SumFcn(f, U)) /\ IsFiniteSet(U)
      BY <1>4, <1>5
    <2>2. CASE U = {}
      BY <2>1, <2>2, SumAt
    <2>3. CASE U # {}
      <3>1. SumRest(U) \in SUBSET T /\ SumRest(U) # T /\ SumRest(U) \in SUBSET U
        BY <1>5, <2>3, PickIn
      <3>2. IsSum(f, SumRest(U), SumFcn(f, SumRest(U)))
        BY <1>4, <3>1
      <3>3. SumFcn(f, U)[SumRest(U)] = below(SumRest(U))
        BY <2>1, <3>1, <3>2, SumUnique
      <3>4. SumFcn(f, U)[U] = f[SumPick(U)] + SumFcn(f, U)[SumRest(U)]
        BY <2>1, <2>3, SumAt
      <3>5. QED
        BY <2>3, <3>3, <3>4
    <2>4. QED
      BY <2>2, <2>3
  <1>6. \A s \in SUBSET T : s # {} => g[SumRest(s)] = below(SumRest(s))
    <2>1. TAKE s \in SUBSET T
    <2>2. HAVE s # {}
    <2>3. SumRest(s) \in SUBSET T /\ SumRest(s) # T
      BY <2>2, PickIn
    <2> HIDE DEF g, below
    <2>4. QED
      BY <1>5, <2>3
  <1>7. \A s \in SUBSET T : s # {} => g[s] = f[SumPick(s)] + g[SumRest(s)]
    BY <1>6
  <1>8. \A s \in SUBSET T : s = {} => g[s] = 0
    OBVIOUS
  <1>9. g = [s \in SUBSET T |-> g[s]]
    OBVIOUS
  <1> HIDE DEF g
  <1>10. g = [s \in SUBSET T |-> IF s = {} THEN 0 ELSE f[SumPick(s)] + g[SumRest(s)]]
    BY <1>7, <1>8, <1>9
  <1>11. IsSum(f, T, g)
    BY <1>10 DEF IsSum
  <1>12. QED
    BY <1>3, <1>11

-----------------------------------------------------------------------------
(* What the sum over S is *)

\* The sums over the subsets of S, one element more at a time.
LEMMA SumsOfSubsets ==
  ASSUME NEW S, IsFiniteSet(S), NEW f
  PROVE  \E F : /\ SumOver(f, S) = F[S] /\ F[{}] = 0
                /\ \A T \in SUBSET S : T # {} => F[T] = f[SumPick(T)] + F[SumRest(T)]
  <1>1. S \in SUBSET S /\ {} \in SUBSET S
    OBVIOUS
  <1>2. IsSum(f, S, SumFcn(f, S))
    BY <1>1, SumExists
  <1> DEFINE F == SumFcn(f, S)
  <1>3. SumOver(f, S) = F[S]
    BY SumOverIsSumFcn
  <1> HIDE DEF F
  <1>4. F[{}] = 0 /\ \A T \in SUBSET S : T # {} => F[T] = f[SumPick(T)] + F[SumRest(T)]
    BY <1>2, SumAt DEF F
  <1>5. QED
    BY <1>3, <1>4

LEMMA SumIsInt ==
  ASSUME NEW S, IsFiniteSet(S), NEW f, \A x \in S : f[x] \in Int
  PROVE  SumOver(f, S) \in Int
  <1>1. PICK F : /\ SumOver(f, S) = F[S] /\ F[{}] = 0
                 /\ \A T \in SUBSET S : T # {} => F[T] = f[SumPick(T)] + F[SumRest(T)]
    BY SumsOfSubsets
  <1> DEFINE B == {T \in SUBSET S : F[T] \notin Int}
  <1>2. ASSUME B # {} PROVE FALSE
    <2>1. PICK T \in B : \A U \in SUBSET T : U # T => U \notin B
      <3>1. B \in SUBSET (SUBSET S)
        OBVIOUS
      <3> HIDE DEF B
      <3>2. QED
        BY <1>2, <3>1, SmallestSubset
    <2>2. T \in SUBSET S /\ F[T] \notin Int /\ T # {}
      <3>1. F[{}] \in Int
        BY <1>1
      <3>2. QED
        BY <2>1, <3>1
    <2>3. F[SumRest(T)] \in Int /\ f[SumPick(T)] \in Int
      BY <2>1, <2>2, PickIn
    <2>4. QED
      BY <1>1, <2>2, <2>3
  <1>3. QED
    BY <1>1, <1>2

\* One addend changed.
LEMMA SumUpdate ==
  ASSUME NEW S, IsFiniteSet(S), NEW a \in S, NEW f, NEW g,
         \A x \in S : f[x] \in Int /\ g[x] \in Int,
         \A x \in S : x # a => g[x] = f[x]
  PROVE  SumOver(g, S) = SumOver(f, S) + (g[a] - f[a])
  <1>1. PICK F : /\ SumOver(f, S) = F[S] /\ F[{}] = 0
                 /\ \A T \in SUBSET S : T # {} => F[T] = f[SumPick(T)] + F[SumRest(T)]
    BY SumsOfSubsets
  <1>2. PICK G : /\ SumOver(g, S) = G[S] /\ G[{}] = 0
                 /\ \A T \in SUBSET S : T # {} => G[T] = g[SumPick(T)] + G[SumRest(T)]
    BY SumsOfSubsets
  <1> DEFINE Moved(T) == /\ F[T] \in Int /\ G[T] \in Int
                         /\ G[T] = F[T] + (IF a \in T THEN g[a] - f[a] ELSE 0)
             B == {T \in SUBSET S : ~Moved(T)}
  <1>3. ASSUME B # {} PROVE FALSE
    <2>1. PICK T \in B : \A U \in SUBSET T : U # T => U \notin B
      <3>1. B \in SUBSET (SUBSET S)
        OBVIOUS
      <3> HIDE DEF B
      <3>2. QED
        BY <1>3, <3>1, SmallestSubset
    <2>2. T \in SUBSET S /\ ~Moved(T) /\ T # {}
      <3>1. Moved({})
        BY <1>1, <1>2
      <3>2. QED
        BY <2>1, <3>1
    <2>3. SumPick(T) \in S /\ Moved(SumRest(T))
      BY <2>1, <2>2, PickIn
    <2>4. /\ a \in T <=> a = SumPick(T) \/ a \in SumRest(T)
          /\ SumPick(T) \notin SumRest(T)
      BY <2>2, PickIn
    <2>5. F[T] = f[SumPick(T)] + F[SumRest(T)] /\ G[T] = g[SumPick(T)] + G[SumRest(T)]
      BY <1>1, <1>2, <2>2
    <2>6. f[SumPick(T)] \in Int /\ g[SumPick(T)] \in Int /\ f[a] \in Int /\ g[a] \in Int
      BY <2>3
    <2>7. CASE a = SumPick(T)
      BY <2>2, <2>3, <2>4, <2>5, <2>6, <2>7
    <2>8. CASE a # SumPick(T)
      BY <2>2, <2>3, <2>4, <2>5, <2>6, <2>8
    <2>9. QED
      BY <2>7, <2>8
  <1>4. Moved(S)
    BY <1>3
  <1>5. QED
    BY <1>1, <1>2, <1>4

\* Larger addends, larger sum.
LEMMA SumMonotone ==
  ASSUME NEW S, IsFiniteSet(S), NEW f, NEW g,
         \A x \in S : f[x] \in Int /\ g[x] \in Int /\ f[x] <= g[x]
  PROVE  SumOver(f, S) <= SumOver(g, S)
  <1>1. PICK F : /\ SumOver(f, S) = F[S] /\ F[{}] = 0
                 /\ \A T \in SUBSET S : T # {} => F[T] = f[SumPick(T)] + F[SumRest(T)]
    BY SumsOfSubsets
  <1>2. PICK G : /\ SumOver(g, S) = G[S] /\ G[{}] = 0
                 /\ \A T \in SUBSET S : T # {} => G[T] = g[SumPick(T)] + G[SumRest(T)]
    BY SumsOfSubsets
  <1> DEFINE Below(T) == F[T] \in Int /\ G[T] \in Int /\ F[T] <= G[T]
             B == {T \in SUBSET S : ~Below(T)}
  <1>3. ASSUME B # {} PROVE FALSE
    <2>1. PICK T \in B : \A U \in SUBSET T : U # T => U \notin B
      <3>1. B \in SUBSET (SUBSET S)
        OBVIOUS
      <3> HIDE DEF B
      <3>2. QED
        BY <1>3, <3>1, SmallestSubset
    <2>2. T \in SUBSET S /\ ~Below(T) /\ T # {}
      <3>1. Below({})
        BY <1>1, <1>2
      <3>2. QED
        BY <2>1, <3>1
    <2>3. SumPick(T) \in S /\ Below(SumRest(T))
      BY <2>1, <2>2, PickIn
    <2>4. F[T] = f[SumPick(T)] + F[SumRest(T)] /\ G[T] = g[SumPick(T)] + G[SumRest(T)]
      BY <1>1, <1>2, <2>2
    <2>5. QED
      BY <2>2, <2>3, <2>4
  <1>4. QED
    BY <1>1, <1>2, <1>3

LEMMA SumOfZeros ==
  ASSUME NEW S, IsFiniteSet(S), NEW f, \A x \in S : f[x] = 0
  PROVE  SumOver(f, S) = 0
  <1>1. PICK F : /\ SumOver(f, S) = F[S] /\ F[{}] = 0
                 /\ \A T \in SUBSET S : T # {} => F[T] = f[SumPick(T)] + F[SumRest(T)]
    BY SumsOfSubsets
  <1> DEFINE B == {T \in SUBSET S : F[T] # 0}
  <1>2. ASSUME B # {} PROVE FALSE
    <2>1. PICK T \in B : \A U \in SUBSET T : U # T => U \notin B
      <3>1. B \in SUBSET (SUBSET S)
        OBVIOUS
      <3> HIDE DEF B
      <3>2. QED
        BY <1>2, <3>1, SmallestSubset
    <2>2. T \in SUBSET S /\ F[T] # 0 /\ T # {}
      BY <1>1, <2>1
    <2>3. F[SumRest(T)] = 0 /\ f[SumPick(T)] = 0
      BY <2>1, <2>2, PickIn
    <2>4. QED
      BY <1>1, <2>2, <2>3
  <1>3. QED
    BY <1>1, <1>2
=============================================================================
