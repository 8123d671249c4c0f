------------------------ MODULE ReviewQueriesProofs ------------------------
(***************************************************************************)
(* That answers about the same reviews agree, and what each says of them:  *)
(* sums that add up, means on their scales, tables in their order, and the *)
(* packet that covers; for every file, all filters, calls and replies.     *)
(***************************************************************************)
EXTENDS ReviewQueries, TLAPS, FiniteSetTheorems, WellFoundedInduction

-----------------------------------------------------------------------------
(* Counting *)

\* Of a set of positions, the number of those up to i.
Rank(at, i) == Cardinality({j \in at : j <= i})

LEMMA SubsetCount ==
  ASSUME NEW n \in Nat, NEW at \in SUBSET (1..n), NEW some \in SUBSET at
  PROVE  /\ IsFiniteSet(at) /\ Cardinality(at) \in Nat
         /\ IsFiniteSet(some) /\ Cardinality(some) \in Nat
         /\ Cardinality(some) <= Cardinality(at)
         /\ Cardinality(some) = Cardinality(at) => some = at
  <1>1. IsFiniteSet(1..n)
    BY FS_Interval
  <1>2. IsFiniteSet(at)
    BY <1>1, FS_Subset
  <1> QED
    BY <1>2, FS_Subset, FS_CardinalityType

LEMMA RankIs ==
  ASSUME NEW n \in Nat, NEW at \in SUBSET (1..n)
  PROVE  /\ Cardinality(at) \in Nat
         /\ \A i \in at : Rank(at, i) \in 1..Cardinality(at)
         /\ \A i, j \in at : i < j => Rank(at, i) < Rank(at, j)
         /\ \A k \in 1..Cardinality(at) : \E i \in at : Rank(at, i) = k
  <1> DEFINE c == Cardinality(at)
             upTo(i) == {j \in at : j <= i}
  <1>1. IsFiniteSet(at) /\ c \in Nat
    BY SubsetCount
  <1>2. ASSUME NEW i \in at PROVE Rank(at, i) \in 1..c
    <2>1. upTo(i) \in SUBSET at /\ upTo(i) # {}
      <3>1. i \in upTo(i)
        BY <1>2
      <3> QED
        BY <3>1
    <2> DEFINE S == upTo(i)
    <2> HIDE DEF S
    <2>2. IsFiniteSet(S) /\ Cardinality(S) \in Nat /\ Cardinality(S) <= c
          /\ Cardinality(S) # 0
      BY <2>1, SubsetCount, FS_EmptySet DEF S
    <2>3. Rank(at, i) = Cardinality(S)
      BY DEF Rank, S
    <2> QED
      BY <1>1, <2>2, <2>3
  <1>3. ASSUME NEW i \in at, NEW j \in at, i < j PROVE Rank(at, i) < Rank(at, j)
    <2>1. /\ \A k \in at : k <= i => k <= j
          /\ j <= j /\ ~(j <= i)
      BY <1>3
    <2> DEFINE S == upTo(i)
               T == upTo(j)
    <2>2. Rank(at, i) = Cardinality(S) /\ Rank(at, j) = Cardinality(T)
      BY DEF Rank
    <2>3. S \in SUBSET T /\ S # T /\ T \in SUBSET (1..n)
      <3>1. j \in T /\ j \notin S
        BY <2>1
      <3> QED
        BY <2>1, <3>1
    <2> HIDE DEF S, T
    <2>4. /\ Cardinality(S) \in Nat /\ Cardinality(T) \in Nat
          /\ Cardinality(S) <= Cardinality(T) /\ Cardinality(S) # Cardinality(T)
      BY <2>3, SubsetCount
    <2> QED
      BY <2>2, <2>4
  <1> DEFINE f == [i \in at |-> Rank(at, i)]
             T == 1..c
  <1>4. f \in Injection(at, T)
    <2>1. f \in [at -> 1..c]
      BY <1>2
    <2>2. \A i, j \in at : i < j \/ j < i \/ i = j
      OBVIOUS
    <2>3. \A i, j \in at : i # j => f[i] # f[j]
      <3> HIDE DEF c
      <3> QED
        BY <1>2, <1>3, <2>2
    <2> HIDE DEF f
    <2> QED
      BY <2>1, <2>3 DEF Injection, IsInjective
  <1>5. IsFiniteSet(T) /\ Cardinality(T) = c
    <2> HIDE DEF c
    <2> QED
      BY <1>1, FS_Interval
  <1>6. f \in Surjection(at, T)
    <2> HIDE DEF f, T
    <2>1. Cardinality(at) = Cardinality(T) <=> f \in Surjection(at, T)
      BY <1>4, <1>5, FS_Injection, Zenon
    <2> QED
      BY <1>5, <2>1
  <1>7. \A k \in 1..c : \E i \in at : f[i] = k
    <2> HIDE DEF f
    <2> QED
      BY <1>6 DEF Surjection
  <1> QED
    BY <1>1, <1>2, <1>3, <1>7

-----------------------------------------------------------------------------
(* Sums over finite sets *)

\* Induction over the subsets of a finite set, as membership in a set of good
\* ones: a smallest bad subset would be a good one and an element more.
LEMMA FiniteInduction ==
  ASSUME NEW S, IsFiniteSet(S), NEW good, {} \in good,
         \A U \in SUBSET S, x \in S : U \in good => U \cup {x} \in good
  PROVE  S \in good
  <1> DEFINE bad == {U \in SUBSET S : U \notin good}
  <1>1. SUFFICES ASSUME S \notin good PROVE FALSE
    OBVIOUS
  <1>2. IsWellFoundedOn(StrictSubsetOrdering(S), FiniteSubsetsOf(S))
    BY FS_StrictSubsetOrderingWellFounded
  <1>3. FiniteSubsetsOf(S) = SUBSET S
    BY FS_FiniteSubsetsOfFinite
  <1>4. bad \subseteq SUBSET S /\ bad # {}
    BY <1>1
  <1> HIDE DEF bad
  <1>5. PICK U \in bad : \A V \in bad : <<V, U>> \notin StrictSubsetOrdering(S)
    BY <1>2, <1>3, <1>4, WFMin
  <1>6. U # {} /\ U \in SUBSET S /\ U \notin good
    BY <1>5 DEF bad
  <1>7. PICK x \in U : TRUE
    BY <1>6
  <1>8. U \ {x} \notin bad
    BY <1>5, <1>6, <1>7 DEF StrictSubsetOrdering
  <1> QED
    <2>1. U \ {x} \in good
      BY <1>6, <1>8 DEF bad
    <2>2. (U \ {x}) \cup {x} = U
      BY <1>7
    <2> QED
      BY <1>6, <1>7, <2>1, <2>2


\* The sum of f[x] over a set, and how the fold that computes it goes on.
Total(f, S) == Sets!SumFunctionOnSet(f, S)

Folded(f, g, s) ==
  IF s = {} THEN 0 ELSE f[CHOOSE x \in s : TRUE] + g[s \ {CHOOSE x \in s : TRUE}]

Folds(f, S, g) == g = [s \in SUBSET S |-> Folded(f, g, s)]

LEMMA TotalIs ==
  ASSUME NEW f, NEW S
  PROVE  Total(f, S) = (CHOOSE g : Folds(f, S, g))[S]
  BY DEF Total, Folds, Folded, Sets!SumFunctionOnSet, Sets!FoldFunctionOnSet,
         Sets!MapThenFoldSet

\* A fold of a finite set exists: it is defined for ever larger subsets.
LEMMA FoldExists ==
  ASSUME NEW f, NEW S, IsFiniteSet(S)
  PROVE  \E g : Folds(f, S, g)
  <1> DEFINE upTo(n) == {s \in SUBSET S : Cardinality(s) <= n}
             done(n) == \E g : g = [s \in upTo(n) |-> Folded(f, g, s)]
             good == {U \in SUBSET S : done(Cardinality(U))}
  <1>1. \A U \in SUBSET S : IsFiniteSet(U) /\ Cardinality(U) \in Nat
                            /\ Cardinality(U) <= Cardinality(S)
    BY FS_Subset, FS_CardinalityType
  <1>2. done(0)
    <2>1. upTo(0) = {{}}
      BY <1>1, FS_EmptySet
    <2> DEFINE g == [s \in upTo(0) |-> 0]
    <2>2. g = [s \in upTo(0) |-> Folded(f, g, s)]
      <3>1. \A s \in upTo(0) : Folded(f, g, s) = 0
        BY <2>1 DEF Folded
      <3> HIDE DEF upTo
      <3> QED
        BY <3>1
    <2> QED
      BY <2>2
  <1>3. ASSUME NEW n \in Nat, done(n) PROVE done(n + 1)
    <2>1. PICK g : g = [s \in upTo(n) |-> Folded(f, g, s)]
      BY <1>3
    <2> DEFINE h == [s \in upTo(n + 1) |-> IF s \in upTo(n) THEN g[s] ELSE Folded(f, g, s)]
    <2>2. ASSUME NEW s \in upTo(n + 1) PROVE h[s] = Folded(f, h, s)
      <3>1. CASE s = {}
        <4>1. s \in upTo(n)
          BY <3>1, FS_EmptySet
        <4>2. h[s] = g[s] /\ g[s] = Folded(f, g, s)
          <5> HIDE DEF upTo
          <5> QED
            BY <2>1, <2>2, <4>1
        <4> QED
          BY <3>1, <4>2 DEF Folded
      <3>2. CASE s # {}
        <4> DEFINE x == CHOOSE x \in s : TRUE
                   rest == s \ {x}
        <4>1. x \in s
          BY <3>2
        <4>2. rest \in upTo(n)
          <5>1. Cardinality(rest) = Cardinality(s) - 1 /\ rest \in SUBSET S
            BY <1>1, <4>1, FS_RemoveElement
          <5>2. Cardinality(s) <= n + 1 /\ Cardinality(s) \in Nat
            BY <1>1
          <5> HIDE DEF rest
          <5> QED
            BY <5>1, <5>2
        <4>3. rest \in upTo(n + 1)
          BY <1>1, <4>2
        <4>4. h[rest] = g[rest]
          <5> HIDE DEF upTo, rest
          <5> QED
            BY <4>2, <4>3
        <4>5. h[s] = Folded(f, g, s)
          <5> HIDE DEF upTo
          <5> QED
            BY <2>1, <2>2
        <4> QED
          BY <3>2, <4>4, <4>5 DEF Folded
      <3> QED
        BY <3>1, <3>2
    <2>3. h = [s \in upTo(n + 1) |-> Folded(f, h, s)]
      <3>1. h = [s \in upTo(n + 1) |-> h[s]]
        OBVIOUS
      <3> HIDE DEF h, upTo
      <3> QED
        BY <2>2, <3>1
    <2> QED
      BY <2>3
  <1>4. S \in good
    <2>1. {} \in good
      BY <1>2, FS_EmptySet
    <2>2. ASSUME NEW U \in SUBSET S, NEW x \in S, U \in good PROVE U \cup {x} \in good
      <3>1. Cardinality(U \cup {x}) \in {Cardinality(U), Cardinality(U) + 1}
        BY <1>1, FS_AddElement
      <3>2. done(Cardinality(U)) /\ Cardinality(U) \in Nat
        BY <1>1, <2>2
      <3> HIDE DEF done
      <3>3. done(Cardinality(U \cup {x}))
        BY <1>3, <3>1, <3>2
      <3> QED
        BY <3>3
    <2> HIDE DEF good
    <2> QED
      BY <2>1, <2>2, FiniteInduction
  <1>5. upTo(Cardinality(S)) = SUBSET S
    BY <1>1
  <1> QED
    <2>1. done(Cardinality(S))
      BY <1>4
    <2>2. PICK g : g = [s \in upTo(Cardinality(S)) |-> Folded(f, g, s)]
      BY <2>1
    <2>3. g = [s \in SUBSET S |-> Folded(f, g, s)]
      <3> HIDE DEF upTo
      <3> QED
        BY <1>5, <2>2
    <2> QED
      BY <2>3 DEF Folds

\* And there is one only, on the subsets of both sets.
LEMMA FoldIsOne ==
  ASSUME NEW f, NEW S, NEW T, NEW g, NEW h, Folds(f, S, g), Folds(f, T, h),
         NEW U \in SUBSET (S \cap T), IsFiniteSet(U)
  PROVE  g[U] = h[U]
  <1>1. \A V \in SUBSET U : g[V] = Folded(f, g, V) /\ h[V] = Folded(f, h, V)
    BY DEF Folds
  <1> DEFINE good == {V \in SUBSET U : \A W \in SUBSET U :
                        Cardinality(W) <= Cardinality(V) => g[W] = h[W]}
  <1>3. \A V \in SUBSET U : IsFiniteSet(V) /\ Cardinality(V) \in Nat
    BY FS_Subset, FS_CardinalityType
  <1>4. {} \in good
    <2>1. \A W \in SUBSET U : Cardinality(W) <= 0 => W = {}
      BY <1>3, FS_EmptySet
    <2> QED
      BY <1>1, <2>1, FS_EmptySet DEF Folded
  <1>5. ASSUME NEW V \in SUBSET U, NEW x \in U, V \in good PROVE V \cup {x} \in good
    <2>1. Cardinality(V \cup {x}) <= Cardinality(V) + 1
      BY <1>3, FS_AddElement
    <2>2. ASSUME NEW W \in SUBSET U, Cardinality(W) <= Cardinality(V) + 1
          PROVE  g[W] = h[W]
      <3>1. CASE W = {}
        BY <1>1, <3>1 DEF Folded
      <3>2. CASE W # {}
        <4> DEFINE y == CHOOSE y \in W : TRUE
                   rest == W \ {y}
        <4>1. y \in W
          BY <3>2
        <4>2. Cardinality(rest) = Cardinality(W) - 1 /\ rest \in SUBSET U
          BY <1>3, <4>1, FS_RemoveElement
        <4>3. Cardinality(rest) <= Cardinality(V)
          <5> HIDE DEF rest
          <5> QED
            BY <1>3, <2>2, <4>2
        <4>4. g[rest] = h[rest]
          BY <1>5, <4>2, <4>3
        <4> QED
          BY <1>1, <3>2, <4>4 DEF Folded
      <3> QED
        BY <3>1, <3>2
    <2>3. \A W \in SUBSET U : Cardinality(W) <= Cardinality(V \cup {x})
                                => Cardinality(W) <= Cardinality(V) + 1
      <3>1. Cardinality(V \cup {x}) \in Nat
        BY <1>3
      <3> QED
        BY <1>3, <2>1, <3>1
    <2> QED
      BY <2>2, <2>3
  <1>6. U \in good
    <2> HIDE DEF good
    <2> QED
      BY <1>4, <1>5, FiniteInduction
  <1> QED
    BY <1>3, <1>6

LEMMA TotalOfPart ==
  ASSUME NEW f, NEW S, IsFiniteSet(S), NEW g, Folds(f, S, g), NEW T \in SUBSET S
  PROVE  Total(f, T) = g[T]
  <1>1. IsFiniteSet(T)
    BY FS_Subset
  <1> DEFINE h == CHOOSE h : Folds(f, T, h)
  <1>2. Folds(f, T, h)
    BY <1>1, FoldExists
  <1>3. Total(f, T) = h[T]
    BY TotalIs
  <1> HIDE DEF h
  <1> QED
    BY <1>1, <1>2, <1>3, FoldIsOne

LEMMA TotalEmpty == ASSUME NEW f PROVE Total(f, {}) = 0
  <1>1. IsFiniteSet({}) /\ {} \in SUBSET {}
    BY FS_EmptySet
  <1>2. PICK g : Folds(f, {}, g)
    BY <1>1, FoldExists
  <1>3. g[{}] = 0
    BY <1>2 DEF Folds, Folded
  <1> QED
    BY <1>1, <1>2, <1>3, TotalOfPart

LEMMA TotalInt ==
  ASSUME NEW f, NEW S, IsFiniteSet(S), \A x \in S : f[x] \in Int
  PROVE  Total(f, S) \in Int
  <1>1. PICK g : Folds(f, S, g)
    BY FoldExists
  <1>2. \A U \in SUBSET S : IsFiniteSet(U) /\ Cardinality(U) \in Nat
    BY FS_Subset, FS_CardinalityType
  <1> DEFINE good == {V \in SUBSET S : \A W \in SUBSET S :
                        Cardinality(W) <= Cardinality(V) => g[W] \in Int}
  <1>3. {} \in good
    <2>1. \A W \in SUBSET S : Cardinality(W) <= 0 => W = {}
      BY <1>2, FS_EmptySet
    <2>2. g[{}] = 0
      BY <1>1 DEF Folds, Folded
    <2> QED
      BY <2>1, <2>2, FS_EmptySet
  <1>4. ASSUME NEW V \in SUBSET S, NEW x \in S, V \in good PROVE V \cup {x} \in good
    <2>1. Cardinality(V \cup {x}) <= Cardinality(V) + 1 /\ Cardinality(V \cup {x}) \in Nat
      BY <1>2, FS_AddElement
    <2>2. ASSUME NEW W \in SUBSET S, Cardinality(W) <= Cardinality(V \cup {x})
          PROVE  g[W] \in Int
      <3>1. CASE W = {}
        BY <1>1, <3>1 DEF Folds, Folded
      <3>2. CASE W # {}
        <4> DEFINE y == CHOOSE y \in W : TRUE
                   rest == W \ {y}
        <4>1. y \in W
          BY <3>2
        <4>2. Cardinality(rest) = Cardinality(W) - 1 /\ rest \in SUBSET S
          BY <1>2, <4>1, FS_RemoveElement
        <4>3. Cardinality(rest) <= Cardinality(V)
          <5> HIDE DEF rest
          <5> QED
            BY <1>2, <2>1, <2>2, <4>2
        <4>4. g[rest] \in Int
          BY <1>4, <4>2, <4>3
        <4>5. g[W] = f[y] + g[rest] /\ f[y] \in Int
          BY <1>1, <3>2, <4>1 DEF Folds, Folded
        <4> QED
          BY <4>4, <4>5
      <3> QED
        BY <3>1, <3>2
    <2> QED
      BY <2>2
  <1>5. S \in good
    <2> HIDE DEF good
    <2> QED
      BY <1>3, <1>4, FiniteInduction
  <1>6. g[S] \in Int
    BY <1>2, <1>5
  <1> QED
    BY <1>1, <1>6, TotalOfPart

\* Whichever element the fold takes first.
LEMMA TotalWithout ==
  ASSUME NEW f, NEW S, IsFiniteSet(S), \A x \in S : f[x] \in Int, NEW x \in S
  PROVE  Total(f, S) = f[x] + Total(f, S \ {x})
  <1>1. PICK g : Folds(f, S, g)
    BY FoldExists
  <1>2. \A U \in SUBSET S : IsFiniteSet(U) /\ Cardinality(U) \in Nat
    BY FS_Subset, FS_CardinalityType
  <1>3. ASSUME NEW U \in SUBSET S PROVE g[U] \in Int
    <2>1. IsFiniteSet(U) /\ \A y \in U : f[y] \in Int
      BY <1>2
    <2>2. Total(f, U) \in Int
      BY <2>1, TotalInt
    <2> QED
      BY <1>1, <2>2, TotalOfPart
  <1> DEFINE good == {V \in SUBSET S : \A W \in SUBSET S :
                        Cardinality(W) <= Cardinality(V) =>
                          \A z \in W : g[W] = f[z] + g[W \ {z}]}
  <1>4. {} \in good
    <2>1. \A W \in SUBSET S : Cardinality(W) <= 0 => W = {}
      BY <1>2, FS_EmptySet
    <2> QED
      BY <2>1, FS_EmptySet
  <1>5. ASSUME NEW V \in SUBSET S, NEW v \in S, V \in good PROVE V \cup {v} \in good
    <2>1. Cardinality(V \cup {v}) <= Cardinality(V) + 1 /\ Cardinality(V \cup {v}) \in Nat
      BY <1>2, FS_AddElement
    <2>2. ASSUME NEW W \in SUBSET S, Cardinality(W) <= Cardinality(V \cup {v}), NEW z \in W
          PROVE  g[W] = f[z] + g[W \ {z}]
      <3> DEFINE y == CHOOSE y \in W : TRUE
      <3>1. y \in W /\ g[W] = f[y] + g[W \ {y}]
        BY <1>1 DEF Folds, Folded
      <3>2. CASE y = z
        BY <3>1, <3>2
      <3>3. CASE y # z
        <4>1. /\ W \ {y} \in SUBSET S /\ Cardinality(W \ {y}) = Cardinality(W) - 1
              /\ W \ {z} \in SUBSET S /\ Cardinality(W \ {z}) = Cardinality(W) - 1
          BY <1>2, <3>1, FS_RemoveElement
        <4>2. /\ Cardinality(W \ {y}) <= Cardinality(V)
              /\ Cardinality(W \ {z}) <= Cardinality(V)
          BY <1>2, <2>1, <2>2, <4>1
        <4>3. z \in W \ {y} /\ y \in W \ {z} /\ (W \ {y}) \ {z} = (W \ {z}) \ {y}
          BY <3>1, <3>3
        <4>4. g[W \ {y}] = f[z] + g[(W \ {y}) \ {z}]
          BY <1>5, <4>1, <4>2, <4>3
        <4>5. g[W \ {z}] = f[y] + g[(W \ {z}) \ {y}]
          BY <1>5, <4>1, <4>2, <4>3
        <4>6. /\ f[y] \in Int /\ f[z] \in Int
              /\ g[W] \in Int /\ g[W \ {y}] \in Int /\ g[W \ {z}] \in Int
              /\ g[(W \ {y}) \ {z}] \in Int
          BY <1>3, <3>1
        <4>7. g[(W \ {y}) \ {z}] = g[(W \ {z}) \ {y}]
          BY <4>3
        <4> DEFINE a == g[W \ {y}]
                   b == g[W \ {z}]
                   c == g[(W \ {y}) \ {z}]
                   p == f[y]
                   q == f[z]
        <4>8. /\ g[W] = p + a /\ a = q + c /\ b = p + c
              /\ p \in Int /\ q \in Int /\ a \in Int /\ b \in Int /\ c \in Int
          BY <3>1, <4>4, <4>5, <4>6, <4>7
        <4> HIDE DEF y, a, b, c, p, q
        <4>9. g[W] = q + b
          BY <4>8
        <4> QED
          BY <4>9 DEF b, q
      <3> QED
        BY <3>2, <3>3
    <2> QED
      BY <2>2
  <1>6. S \in good
    <2> HIDE DEF good
    <2> QED
      BY <1>4, <1>5, FiniteInduction
  <1>7. g[S] = f[x] + g[S \ {x}]
    BY <1>2, <1>6
  <1> QED
    BY <1>1, <1>7, TotalOfPart

LEMMA TotalWith ==
  ASSUME NEW f, NEW S, IsFiniteSet(S), \A y \in S : f[y] \in Int,
         NEW x, x \notin S, f[x] \in Int
  PROVE  Total(f, S \cup {x}) = Total(f, S) + f[x]
  <1> DEFINE T == S \cup {x}
  <1>1. IsFiniteSet(T)
    BY FS_AddElement
  <1>2. x \in T /\ T \ {x} = S /\ \A y \in T : f[y] \in Int
    OBVIOUS
  <1> HIDE DEF T
  <1>3. Total(f, T) = f[x] + Total(f, S)
    BY <1>1, <1>2, TotalWithout
  <1>4. Total(f, S) \in Int
    BY TotalInt
  <1> QED
    BY <1>3, <1>4 DEF T

LEMMA TotalBetween ==
  ASSUME NEW f, NEW S, IsFiniteSet(S), NEW lo \in Int, NEW hi \in Int,
         \A x \in S : f[x] \in lo..hi
  PROVE  Total(f, S) \in (lo * Cardinality(S))..(hi * Cardinality(S))
  <1> DEFINE within(V) == Total(f, V) \in (lo * Cardinality(V))..(hi * Cardinality(V))
             good == {V \in SUBSET S : within(V)}
  <1>1. \A U \in SUBSET S : IsFiniteSet(U) /\ Cardinality(U) \in Nat
    BY FS_Subset, FS_CardinalityType
  <1>2. {} \in good
    BY TotalEmpty, FS_EmptySet
  <1>3. ASSUME NEW V \in SUBSET S, NEW x \in S, V \in good PROVE V \cup {x} \in good
    <2>1. CASE x \in V
      <3>1. V \cup {x} = V
        BY <2>1
      <3> QED
        BY <1>3, <3>1
    <2>2. CASE x \notin V
      <3> DEFINE t == Total(f, V)
                 n == Cardinality(V)
      <3>1. Total(f, V \cup {x}) = t + f[x] /\ t \in Int
        BY <1>1, <2>2, TotalWith, TotalInt
      <3>2. Cardinality(V \cup {x}) = n + 1 /\ n \in Nat
        BY <1>1, <2>2, FS_AddElement
      <3>3. t \in (lo * n)..(hi * n)
        BY <1>3
      <3>5. within(V \cup {x})
        <4> HIDE DEF t, n
        <4>1. /\ lo * (n + 1) = lo * n + lo /\ hi * (n + 1) = hi * n + hi
              /\ lo * n \in Int /\ hi * n \in Int
          BY <3>2
        <4>2. f[x] \in Int /\ lo <= f[x] /\ f[x] <= hi
          OBVIOUS
        <4>3. t + f[x] \in (lo * n + lo)..(hi * n + hi)
          <5> DEFINE a == lo * n
                     b == hi * n
          <5> HIDE DEF a, b
          <5>1. a \in Int /\ b \in Int /\ t \in a..b
            BY <3>3, <4>1 DEF a, b
          <5>2. t + f[x] \in (a + lo)..(b + hi)
            BY <4>2, <5>1
          <5> QED
            BY <5>2 DEF a, b
        <4> QED
          BY <3>1, <3>2, <4>1, <4>3
      <3> QED
        BY <3>5
    <2> QED
      BY <2>1, <2>2
  <1>4. S \in good
    <2> HIDE DEF good
    <2> QED
      BY <1>2, <1>3, FiniteInduction
  <1> QED
    BY <1>4

ClassOf(D, class, s) == {i \in D : class[i] = s}
InClasses(D, class, S) == {i \in D : class[i] \in S}

\* What is counted class by class is counted once.
LEMMA TotalOfClasses ==
  ASSUME NEW D, IsFiniteSet(D), NEW class, NEW S, IsFiniteSet(S), NEW f,
         \A s \in S : f[s] = Cardinality(ClassOf(D, class, s))
  PROVE  Total(f, S) = Cardinality(InClasses(D, class, S))
  <1> USE DEF ClassOf, InClasses
  <1> DEFINE in(V) == {i \in D : class[i] \in V}
             good == {V \in SUBSET S : Total(f, V) = Cardinality(in(V))}
  <1>1. \A E \in SUBSET D : IsFiniteSet(E) /\ Cardinality(E) \in Nat
    BY FS_Subset, FS_CardinalityType
  <1>2. {} \in good
    <2>1. in({}) = {}
      OBVIOUS
    <2> QED
      BY <2>1, TotalEmpty, FS_EmptySet
  <1>3. ASSUME NEW V \in SUBSET S, NEW x \in S, V \in good PROVE V \cup {x} \in good
    <2>1. CASE x \in V
      <3>1. V \cup {x} = V
        BY <2>1
      <3> QED
        BY <1>3, <3>1
    <2>2. CASE x \notin V
      <3> DEFINE own == {i \in D : class[i] = x}
                 A == in(V)
                 B == in(V \cup {x})
      <3>1. /\ B = A \cup own /\ A \cap own = {}
            /\ A \in SUBSET D /\ own \in SUBSET D
        BY <2>2
      <3>2. IsFiniteSet(V)
        BY FS_Subset
      <3>3. ASSUME NEW y \in V PROVE f[y] \in Int
        <4> DEFINE E == {i \in D : class[i] = y}
        <4>1. E \in SUBSET D /\ f[y] = Cardinality(E)
          OBVIOUS
        <4> HIDE DEF E
        <4> QED
          BY <1>1, <4>1
      <3>4. f[x] = Cardinality(own)
        OBVIOUS
      <3>5. Total(f, V) = Cardinality(A)
        BY <1>3
      <3> HIDE DEF own, A, B
      <3>6. Cardinality(B) = Cardinality(A) + Cardinality(own)
        <4>1. Cardinality(A \cup own) = Cardinality(A) + Cardinality(own) - Cardinality({})
          BY <1>1, <3>1, FS_Union
        <4> QED
          BY <1>1, <3>1, <4>1, FS_EmptySet
      <3>7. Total(f, V \cup {x}) = Total(f, V) + f[x]
        BY <1>1, <2>2, <3>1, <3>2, <3>3, <3>4, TotalWith
      <3>8. Total(f, V \cup {x}) = Cardinality(B)
        BY <3>4, <3>5, <3>6, <3>7
      <3> QED
        BY <3>8 DEF B
    <2> QED
      BY <2>1, <2>2
  <1>4. S \in good
    <2> HIDE DEF good
    <2> QED
      BY <1>2, <1>3, FiniteInduction
  <1> QED
    BY <1>4

-----------------------------------------------------------------------------
(* Lists *)

IsList(s) == Len(s) \in Nat /\ s = [i \in 1..Len(s) |-> s[i]]

LEMMA ListIs ==
  ASSUME NEW n \in Nat, NEW g, g = [k \in 1..n |-> g[k]]
  PROVE  IsList(g) /\ Len(g) = n /\ SubSeq(g, 1, n) = g
  <1>1. g \in Seq({g[k] : k \in 1..n}) /\ Len(g) = n
    OBVIOUS
  <1>2. SubSeq(g, 1, n) = g
    BY <1>1
  <1> QED
    BY <1>1, <1>2 DEF IsList

LEMMA PrefixIs ==
  ASSUME NEW s, IsList(s), NEW n \in Nat
  PROVE  /\ IsList(Prefix(s, n))
         /\ Len(Prefix(s, n)) = Least(n, Len(s))
         /\ \A k \in 1..Least(n, Len(s)) : Prefix(s, n)[k] = s[k]
  <1> DEFINE m == Least(n, Len(s))
             g == [k \in 1..m |-> s[k]]
  <1>1. m \in Nat /\ m <= Len(s)
    BY DEF Least, IsList
  <1>2. s \in Seq({s[i] : i \in 1..Len(s)})
    BY DEF IsList
  <1>3. Prefix(s, n) = SubSeq(s, 1, m)
    BY DEF Prefix, Least
  <1>4. SubSeq(s, 1, m) = g
    <2> HIDE DEF m
    <2> QED
      BY <1>1, <1>2
  <1>5. IsList(g) /\ Len(g) = m
    <2> HIDE DEF m
    <2> QED
      BY <1>1, ListIs
  <1> QED
    BY <1>3, <1>4, <1>5

\* What is taken of a list: the element at a position gets its rank.
LEMMA TakenIs ==
  ASSUME NEW s, Len(s) \in Nat, NEW at \in SUBSET (1..Len(s))
  PROVE  /\ IsList(Taken(s, at)) /\ Len(Taken(s, at)) = Cardinality(at)
         /\ \A i \in at : Taken(s, at)[Rank(at, i)] = s[i]
         /\ \A k \in 1..Cardinality(at) :
              \E i \in at : Rank(at, i) = k /\ Taken(s, at)[k] = s[i]
  <1> DEFINE c == Cardinality(at)
             nth(k) == CHOOSE i \in at : Rank(at, i) = k
             g == [k \in 1..c |-> s[nth(k)]]
  <1>1. /\ c \in Nat
        /\ \A i \in at : Rank(at, i) \in 1..c
        /\ \A i, j \in at : i < j => Rank(at, i) < Rank(at, j)
        /\ \A k \in 1..c : \E i \in at : Rank(at, i) = k
    BY RankIs
  <1>2. Taken(s, at) = SubSeq(g, 1, c)
    BY DEF Taken, Rank
  <1>3. g = [k \in 1..c |-> g[k]]
    OBVIOUS
  <1>4. IsList(g) /\ Len(g) = c /\ SubSeq(g, 1, c) = g
    <2> HIDE DEF g, c
    <2> QED
      BY <1>1, <1>3, ListIs
  <1>5. \A i, j \in at : Rank(at, i) = Rank(at, j) => i = j
    <2>1. \A i \in at : i \in Nat /\ Rank(at, i) \in Nat
      <3> HIDE DEF c
      <3> QED
        BY <1>1
    <2> QED
      BY <1>1, <2>1
  <1>6. ASSUME NEW k \in 1..c PROVE nth(k) \in at /\ Rank(at, nth(k)) = k
    BY <1>1
  <1>7. ASSUME NEW i \in at PROVE g[Rank(at, i)] = s[i]
    <2>1. Rank(at, i) \in 1..c
      BY <1>1
    <2>2. nth(Rank(at, i)) = i
      BY <1>5, <1>6, <2>1
    <2> QED
      BY <2>1, <2>2
  <1>8. ASSUME NEW k \in 1..c
        PROVE  \E i \in at : Rank(at, i) = k /\ g[k] = s[i]
    <2>1. g[k] = s[nth(k)]
      OBVIOUS
    <2> QED
      BY <1>6, <2>1
  <1>9. Taken(s, at) = g
    BY <1>2, <1>4
  <1> HIDE DEF g, nth
  <1> QED
    BY <1>4, <1>7, <1>8, <1>9

LEMMA TakenAll ==
  ASSUME NEW s, IsList(s) PROVE Taken(s, 1..Len(s)) = s
  <1> DEFINE n == Len(s)
             at == 1..n
             t == Taken(s, at)
  <1>1. n \in Nat
    BY DEF IsList
  <1>2. at \in SUBSET (1..Len(s)) /\ Cardinality(at) = n
    <2>1. Cardinality(1..n) = n
      <3> HIDE DEF n
      <3> QED
        BY <1>1, FS_Interval
    <2> QED
      BY <2>1
  <1>3. ASSUME NEW i \in at PROVE Rank(at, i) = i
    <2>1. {j \in at : j <= i} = 1..i /\ i \in Nat
      <3> HIDE DEF n
      <3> QED
        BY <1>1, <1>3
    <2>2. Cardinality(1..i) = i
      BY <2>1, FS_Interval
    <2> QED
      BY <2>1, <2>2 DEF Rank
  <1> HIDE DEF at
  <1>4. IsList(t) /\ Len(t) = n /\ \A i \in at : t[i] = s[i]
    <2>1. IsList(t) /\ Len(t) = Cardinality(at) /\ \A i \in at : t[Rank(at, i)] = s[i]
      BY <1>1, <1>2, TakenIs
    <2> QED
      BY <1>2, <1>3, <2>1
  <1> HIDE DEF t
  <1>5. t = s
    BY <1>4 DEF IsList, at
  <1> QED
    BY <1>5 DEF t, at

LEMMA KeptIs ==
  ASSUME NEW s PROVE Selected(s, Kept) = Taken(s, {i \in 1..Len(s) : Kept(s[i])})
  <1> DEFINE of(t) == Taken(t, {i \in 1..Len(t) : Kept(t[i])})
  <1>1. Selected(s, Kept) = CHOOSE y \in {of(t) : t \in {s}} : TRUE
    BY DEF Selected, Once
  <1> HIDE DEF of
  <1>2. Selected(s, Kept) = of(s)
    BY <1>1
  <1> QED
    BY <1>2 DEF of

LEMMA HighRiskIs ==
  ASSUME NEW s
  PROVE  Selected(s, IsHighRisk) = Taken(s, {i \in 1..Len(s) : IsHighRisk(s[i])})
  <1> DEFINE of(t) == Taken(t, {i \in 1..Len(t) : IsHighRisk(t[i])})
  <1>1. Selected(s, IsHighRisk) = CHOOSE y \in {of(t) : t \in {s}} : TRUE
    BY DEF Selected, Once
  <1> HIDE DEF of
  <1>2. Selected(s, IsHighRisk) = of(s)
    BY <1>1
  <1> QED
    BY <1>2 DEF of

LEMMA NegativeIs ==
  ASSUME NEW s
  PROVE  Selected(s, IsNegative) = Taken(s, {i \in 1..Len(s) : IsNegative(s[i])})
  <1> DEFINE of(t) == Taken(t, {i \in 1..Len(t) : IsNegative(t[i])})
  <1>1. Selected(s, IsNegative) = CHOOSE y \in {of(t) : t \in {s}} : TRUE
    BY DEF Selected, Once
  <1> HIDE DEF of
  <1>2. Selected(s, IsNegative) = of(s)
    BY <1>1
  <1> QED
    BY <1>2 DEF of

LEMMA PositiveIs ==
  ASSUME NEW s
  PROVE  Selected(s, IsPositive) = Taken(s, {i \in 1..Len(s) : IsPositive(s[i])})
  <1> DEFINE of(t) == Taken(t, {i \in 1..Len(t) : IsPositive(t[i])})
  <1>1. Selected(s, IsPositive) = CHOOSE y \in {of(t) : t \in {s}} : TRUE
    BY DEF Selected, Once
  <1> HIDE DEF of
  <1>2. Selected(s, IsPositive) = of(s)
    BY <1>1
  <1> QED
    BY <1>2 DEF of

Bad(rows) == Selected(rows, IsNegative)
Good(rows) == Selected(rows, IsPositive)
Risk(rows) == Selected(rows, IsHighRisk)

BadCount(rows) == CountOf(rows, IsNegative)
GoodCount(rows) == CountOf(rows, IsPositive)
RiskCount(rows) == CountOf(rows, IsHighRisk)

\* How many there are, however they are counted.
LEMMA CountsAgree ==
  ASSUME NEW s, IsList(s)
  PROVE  /\ IsList(Bad(s)) /\ Len(Bad(s)) = BadCount(s)
         /\ IsList(Good(s)) /\ Len(Good(s)) = GoodCount(s)
         /\ IsList(Risk(s)) /\ Len(Risk(s)) = RiskCount(s)
  <1>1. DOMAIN s = 1..Len(s) /\ Len(s) \in Nat
    BY DEF IsList
  <1>2. IsList(Risk(s)) /\ Len(Risk(s)) = RiskCount(s)
    <2> DEFINE at == {i \in 1..Len(s) : IsHighRisk(s[i])}
    <2>1. IsList(Taken(s, at)) /\ Len(Taken(s, at)) = Cardinality(at)
      BY <1>1, TakenIs
    <2> QED
      BY <1>1, <2>1, HighRiskIs DEF CountOf, Risk, RiskCount
  <1>3. IsList(Bad(s)) /\ Len(Bad(s)) = BadCount(s)
    <2> DEFINE at == {i \in 1..Len(s) : IsNegative(s[i])}
    <2>1. IsList(Taken(s, at)) /\ Len(Taken(s, at)) = Cardinality(at)
      BY <1>1, TakenIs
    <2> QED
      BY <1>1, <2>1, NegativeIs DEF CountOf, Bad, BadCount
  <1>4. IsList(Good(s)) /\ Len(Good(s)) = GoodCount(s)
    <2> DEFINE at == {i \in 1..Len(s) : IsPositive(s[i])}
    <2>1. IsList(Taken(s, at)) /\ Len(Taken(s, at)) = Cardinality(at)
      BY <1>1, TakenIs
    <2> QED
      BY <1>1, <2>1, PositiveIs DEF CountOf, Good, GoodCount
  <1> QED
    BY <1>2, <1>3, <1>4

\* Of two that are taken, the first was before the other.
LEMMA TakenOrder ==
  ASSUME NEW s, Len(s) \in Nat, NEW at \in SUBSET (1..Len(s))
  PROVE  \A k, l \in 1..Cardinality(at) : k < l =>
           \E i, j \in at : i < j /\ Taken(s, at)[k] = s[i] /\ Taken(s, at)[l] = s[j]
  <1> SUFFICES ASSUME NEW k \in 1..Cardinality(at), NEW l \in 1..Cardinality(at), k < l
               PROVE  \E i, j \in at :
                        i < j /\ Taken(s, at)[k] = s[i] /\ Taken(s, at)[l] = s[j]
    OBVIOUS
  <1>1. PICK i \in at : Rank(at, i) = k /\ Taken(s, at)[k] = s[i]
    BY TakenIs
  <1>2. PICK j \in at : Rank(at, j) = l /\ Taken(s, at)[l] = s[j]
    BY TakenIs
  <1>3. j < i => Rank(at, j) < Rank(at, i)
    BY RankIs
  <1>4. Cardinality(at) \in Nat
    BY RankIs
  <1>5. i # j /\ ~(j < i)
    <2> HIDE DEF Rank
    <2> QED
      BY <1>1, <1>2, <1>3, <1>4
  <1>6. i < j
    BY <1>5
  <1> QED
    BY <1>1, <1>2, <1>6

-----------------------------------------------------------------------------
(* Reviews as an upload makes them *)

IsReview(r) ==
  /\ Labelled(r) = r /\ Kept(r)
  /\ r.row \in Nat /\ r.sentiment \in 0..100 /\ IsFiniteSet(r.content)

\* In the order of the file.
IsReviews(rows) ==
  /\ IsList(rows)
  /\ \A i \in 1..Len(rows) : IsReview(rows[i])
  /\ \A i, j \in 1..Len(rows) : i < j => rows[i].row < rows[j].row

LEMMA TakenReviews ==
  ASSUME NEW rows, IsReviews(rows), NEW at \in SUBSET (1..Len(rows))
  PROVE  IsReviews(Taken(rows, at))
  <1> DEFINE t == Taken(rows, at)
  <1>1. Len(rows) \in Nat
    BY DEF IsReviews, IsList
  <1>2. IsList(t) /\ Len(t) = Cardinality(at)
    BY <1>1, TakenIs
  <1>3. ASSUME NEW k \in 1..Len(t) PROVE IsReview(t[k])
    <2>1. \E i \in at : t[k] = rows[i]
      BY <1>1, <1>2, TakenIs
    <2> QED
      BY <2>1 DEF IsReviews
  <1>4. ASSUME NEW k \in 1..Len(t), NEW l \in 1..Len(t), k < l
        PROVE  t[k].row < t[l].row
    <2>1. \A m, o \in 1..Len(t) : m < o =>
            \E i, j \in at : i < j /\ t[m] = rows[i] /\ t[o] = rows[j]
      <3>1. \A k1, l1 \in 1..Cardinality(at) : k1 < l1 =>
              \E i, j \in at : i < j /\ t[k1] = rows[i] /\ t[l1] = rows[j]
        BY <1>1, TakenOrder
      <3> HIDE DEF t
      <3> QED
        BY <1>2, <3>1
    <2> HIDE DEF t
    <2>2. \E i, j \in at : i < j /\ t[k] = rows[i] /\ t[l] = rows[j]
      BY <1>4, <2>1
    <2> QED
      BY <2>2 DEF IsReviews
  <1> HIDE DEF t
  <1>5. IsReviews(t)
    BY <1>2, <1>3, <1>4 DEF IsReviews
  <1> QED
    BY <1>5 DEF t

\* What is prepared once more stays what it is.
LEMMA PreparedOnce ==
  ASSUME NEW rows, IsReviews(rows) PROVE Prepare(rows) = rows
  <1>1. IsList(rows)
    BY DEF IsReviews
  <1>2. {i \in 1..Len(rows) : Kept(rows[i])} = 1..Len(rows)
    BY DEF IsReviews, IsReview
  <1>3. Selected(rows, Kept) = rows
    BY <1>1, <1>2, KeptIs, TakenAll
  <1>4. Prepare(rows) = [k \in 1..Len(rows) |-> Labelled(rows[k])]
    BY <1>3 DEF Prepare
  <1>5. Prepare(rows) = [k \in 1..Len(rows) |-> rows[k]]
    BY <1>4 DEF IsReviews, IsReview
  <1> QED
    BY <1>1, <1>5 DEF IsList

\* A review that the filters f select, but for highRiskOnly.
Within(r, f) ==
  /\ r.rating \in f.ratings[1]..f.ratings[2]
  /\ r.sentiment \in f.sentiments[1]..f.sentiments[2]
  /\ Categories(f) = {} \/ r.category \in Categories(f)
  /\ Stripped(f.keyword) = "" \/ Stripped(f.keyword) \in r.content

WithinAt(rows, f) == {i \in 1..Len(rows) : Within(rows[i], f)}

IsFrame(fr) == fr = [columns |-> fr.columns, rows |-> fr.rows]

LEMMA FilterIs ==
  ASSUME NEW fr, IsFrame(fr), NEW f
  PROVE  FilterReviews(fr, f).rows =
           LET rows == Taken(fr.rows, WithinAt(fr.rows, f))
           IN  IF fr.rows # <<>> /\ f.highRiskOnly THEN Selected(rows, IsHighRisk)
               ELSE rows
  <1> DEFINE keyword == Stripped(f.keyword)
             kept(r) == /\ r.rating \in f.ratings[1]..f.ratings[2]
                        /\ r.sentiment \in f.sentiments[1]..f.sentiments[2]
                        /\ Categories(f) = {} \/ r.category \in Categories(f)
                        /\ keyword = "" \/ keyword \in r.content
             of(t) == Taken(t, {i \in 1..Len(t) : kept(t[i])})
             rows == CHOOSE y \in {of(t) : t \in {fr.rows}} : TRUE
             within == [fr EXCEPT !.rows = rows]
  <1>1. FilterReviews(fr, f) = IF fr.rows # <<>> /\ f.highRiskOnly
                               THEN HighRiskOf(within) ELSE within
    BY DEF FilterReviews, Selected, Once
  <1>2. of(fr.rows) = Taken(fr.rows, WithinAt(fr.rows, f))
    BY DEF WithinAt, Within
  <1> HIDE DEF of
  <1>3. rows = of(fr.rows)
    OBVIOUS
  <1>4. within.rows = rows
    BY DEF IsFrame
  <1> HIDE DEF within, rows
  <1>5. HighRiskOf(within).rows = Selected(within.rows, IsHighRisk)
    BY DEF HighRiskOf
  <1> QED
    BY <1>1, <1>2, <1>3, <1>4, <1>5

LEMMA FilteredReviews ==
  ASSUME NEW fr, IsFrame(fr), IsReviews(fr.rows), NEW f
  PROVE  IsReviews(FilterReviews(fr, f).rows)
  <1> DEFINE rows == Taken(fr.rows, WithinAt(fr.rows, f))
             at == {i \in 1..Len(rows) : IsHighRisk(rows[i])}
  <1>1. IsReviews(rows)
    BY TakenReviews DEF WithinAt
  <1>2. IsReviews(Taken(rows, at)) /\ Selected(rows, IsHighRisk) = Taken(rows, at)
    <2> HIDE DEF rows
    <2> QED
      BY <1>1, TakenReviews, HighRiskIs
  <1> QED
    BY <1>1, <1>2, FilterIs

\* Filters with the same text in a signature select the same.
LEMMA SameScope ==
  ASSUME NEW fr, IsFrame(fr), NEW f, NEW g, Canonical(f) = Canonical(g),
         Stripped(f.keyword) # "__EMPTY__", Stripped(g.keyword) # "__EMPTY__"
  PROVE  FilterReviews(fr, f).rows = FilterReviews(fr, g).rows
  <1>1. /\ f.ratings = g.ratings /\ f.sentiments = g.sentiments
        /\ Categories(f) = Categories(g) /\ f.highRiskOnly = g.highRiskOnly
        /\ OrEmpty(Stripped(f.keyword)) = OrEmpty(Stripped(g.keyword))
    BY DEF Canonical
  <1>2. Stripped(f.keyword) = Stripped(g.keyword)
    BY <1>1 DEF OrEmpty
  <1>3. \A r : Within(r, f) <=> Within(r, g)
    BY <1>1, <1>2 DEF Within
  <1>4. WithinAt(fr.rows, f) = WithinAt(fr.rows, g)
    BY <1>3 DEF WithinAt
  <1> QED
    BY <1>1, <1>4, FilterIs

LEMMA ScoreIs ==
  ASSUME NEW r, r.sentiment \in {None} \cup (0..100) PROVE Sentiment(r) \in 0..100
  BY DEF Sentiment

LEMMA StoredReviews ==
  ASSUME NEW file \in File
  PROVE  /\ IsFrame(Stored(file))
         /\ IsReviews(Stored(file).rows)
  <1> DEFINE n == Len(file)
             lines == Processed(file)
             at == {i \in 1..Len(lines) : Kept(lines[i])}
             t == Taken(lines, at)
             rows == [k \in 1..Len(t) |-> Labelled(t[k])]
  <1>1. /\ n \in Nat
        /\ \A i \in 1..n : /\ IsFiniteSet(file[i].content)
                           /\ file[i].sentiment \in {None} \cup (0..100)
    BY ReviewQueriesAssumption
  <1>2. /\ IsList(lines) /\ Len(lines) = n
        /\ \A i \in 1..n : /\ lines[i].row = i /\ lines[i].content = file[i].content
                           /\ lines[i].sentiment = Sentiment(file[i])
    <2>1. \A i \in 1..n :
            lines[i] = [row |-> i, rating |-> file[i].rating,
                        content |-> file[i].content, sentiment |-> Sentiment(file[i]),
                        version |-> Version(file, file[i]), day |-> file[i].day]
      BY DEF Processed
    <2>2. lines = [i \in 1..n |-> lines[i]]
      BY DEF Processed
    <2> HIDE DEF lines, n
    <2>3. IsList(lines) /\ Len(lines) = n
      BY <1>1, <2>2, ListIs
    <2> QED
      BY <2>1, <2>3
  <1>3. Selected(lines, Kept) = t
    BY KeptIs
  <1>4. Stored(file).rows = rows
    BY <1>3 DEF Stored, Prepared, Prepare
  <1>5. IsList(t) /\ Len(t) = Cardinality(at)
    BY <1>1, <1>2, TakenIs
  <1>6. IsList(rows) /\ Len(rows) = Len(t) /\ Len(t) \in Nat
    <2>1. rows = [k \in 1..Len(t) |-> rows[k]] /\ Len(t) \in Nat
      BY <1>5 DEF IsList
    <2> HIDE DEF rows, t
    <2> QED
      BY <2>1, ListIs
  <1>12. /\ \A k \in 1..Len(t) : \E i \in at : t[k] = lines[i]
         /\ \A k, l \in 1..Len(t) : k < l =>
              \E i, j \in at : i < j /\ t[k] = lines[i] /\ t[l] = lines[j]
    <2>1. at \in SUBSET (1..Len(lines)) /\ Len(lines) \in Nat
      BY <1>1, <1>2
    <2> HIDE DEF at, lines
    <2>2. \A k \in 1..Cardinality(at) : \E i \in at : t[k] = lines[i]
      BY <2>1, TakenIs
    <2>3. \A k, l \in 1..Cardinality(at) : k < l =>
              \E i, j \in at : i < j /\ t[k] = lines[i] /\ t[l] = lines[j]
      BY <2>1, TakenOrder
    <2> QED
      BY <1>5, <2>2, <2>3
  <1>7. ASSUME NEW i \in at PROVE IsReview(Labelled(lines[i]))
    <2> DEFINE r == lines[i]
    <2>0. i \in 1..n /\ Kept(lines[i])
      BY <1>2
    <2> HIDE DEF lines, n
    <2>4. r.sentiment = Sentiment(file[i]) /\ r.row = i /\ r.content = file[i].content
      BY <1>2, <2>0
    <2>5. Sentiment(file[i]) \in 0..100
      BY <1>1, <2>0, ScoreIs
    <2>6. i \in Nat /\ IsFiniteSet(file[i].content)
      BY <1>1, <2>0 DEF n
    <2>1. /\ r.row \in Nat /\ IsFiniteSet(r.content) /\ r.sentiment \in 0..100
          /\ Kept(r)
      BY <2>0, <2>4, <2>5, <2>6
    <2> HIDE DEF r
    <2>2. /\ Labelled(r).row = r.row /\ Labelled(r).content = r.content
          /\ Labelled(r).sentiment = r.sentiment /\ Labelled(r).rating = r.rating
          /\ Labelled(Labelled(r)) = Labelled(r)
      BY DEF Labelled
    <2>3. Kept(Labelled(r))
      BY <2>1, <2>2 DEF Kept, BlankContent
    <2>7. IsReview(Labelled(r))
      BY <2>1, <2>2, <2>3 DEF IsReview
    <2> QED
      BY <2>7 DEF r
  <1>8. \A i \in at : i \in 1..n /\ Labelled(lines[i]).row = i
    BY <1>2 DEF Labelled
  <1>9. ASSUME NEW k \in 1..Len(rows) PROVE IsReview(rows[k])
    <2>1. PICK i \in at : t[k] = lines[i]
      BY <1>6, <1>12
    <2> QED
      BY <1>6, <1>7, <2>1
  <1>10. ASSUME NEW k \in 1..Len(rows), NEW l \in 1..Len(rows), k < l
         PROVE  rows[k].row < rows[l].row
    <2>1. PICK i, j \in at : i < j /\ t[k] = lines[i] /\ t[l] = lines[j]
      <3> HIDE DEF rows, t, at, lines
      <3> QED
        BY <1>6, <1>10, <1>12
    <2> HIDE DEF t, at
    <2>2. rows[k] = Labelled(lines[i]) /\ rows[l] = Labelled(lines[j])
      BY <1>6, <2>1
    <2> HIDE DEF rows
    <2> QED
      BY <1>8, <2>1, <2>2
  <1>11. IsReviews(rows)
    <2> HIDE DEF rows
    <2> QED
      BY <1>6, <1>9, <1>10 DEF IsReviews
  <1> QED
    BY <1>4, <1>11 DEF Stored, IsFrame

-----------------------------------------------------------------------------
(* What a figure says of the reviews *)

RiskList(rows) == Prefix(Sorted(Risk(rows), RiskOrder), PreviewRows)

MismatchCount(rows) == CountOf(rows, IsMismatch)

MismatchList(rows) ==
  Prefix(Sorted(Selected(rows, IsMismatch), MismatchOrder), PreviewRows)

\* Of a share of the reviews.
ShareFigure(rows, x) ==
  IF Len(x) = 1 THEN Len(rows)
  ELSE IF x[2] = "words" THEN KeywordScores(rows, 0).words
  ELSE KeywordScores(rows, x[3]).listed

Figure(rows, x) ==
  CASE x[1] = "total" -> Len(rows)
    [] x[1] = "rating" -> HealthMetrics(rows).rating
    [] x[1] = "bad ratio" -> HealthMetrics(rows).negative
    [] x[1] = "sentiment" -> HealthMetrics(rows).sentiment
    [] x[1] = "risk" -> RiskCount(rows)
    [] x[1] = "priority" -> RankedGroups(rows, x[2])[x[3]]
    [] x[1] = "priorities" -> Least(x[2], Len(Groups(rows)))
    [] x[1] = "bad" -> ShareFigure(Bad(rows), x)
    [] x[1] = "good" -> ShareFigure(Good(rows), x)
    [] x[1] = "stars" -> RatingDistribution(rows)
    [] x[1] = "bins" -> SentimentDistribution(rows)
    [] x[1] = "trend" -> Trend(rows)
    [] x[1] = "risk list" -> RiskList(rows)
    [] x[1] = "mismatch list" -> MismatchList(rows)
    [] x[1] = "mismatch" -> MismatchCount(rows)
    [] x[1] = "of" -> Len(OfVersions(rows, x[2]))
    [] x[1] = "in" -> RepresentativeReviews([rows |-> rows], x[3], x[2], 0).sample
    [] x[1] = "version" -> VersionRow(rows, x[2])

\* The pair p of a figure and its value is true of the reviews.
Says(rows, p) ==
  \/ p[2] = Figure(rows, p[1])
  \/ p[1][1] = "version" /\ Padded(rows)

\* The rows of a table of priorities among some figures: the first of one
\* ranking of the groups.
Top(figures, rows) ==
  \A p \in figures : p[1][1] = "priority" =>
    /\ p[1][3] \in 1..Len(RankedGroups(rows, p[1][2]))
    /\ \A q \in figures : q[1][1] = "priority" => q[1][2] = p[1][2]
    /\ \A k \in 1..p[1][3] :
         \E q \in figures : q[1] = <<"priority", p[1][2], k>>

Unranked(figures) == \A p \in figures : p[1][1] # "priority"

\* An answer is about the reviews of its filters, and true of them.
Honest(a) ==
  /\ IsReviews(a.scope)
  /\ \E service \in {"dataframe_scope_signature", "compute_content_hash"} :
       a.signature = Signature(service, a.filters)
  /\ ~a.full => a.scope = Scope(a.filters).rows
  /\ \A p \in a.figures : Says(a.scope, p)
  /\ Top(a.figures, a.scope)
  /\ a.by = "summary" /\ a.figures # {} =>
       \A x \in {"total", "bad ratio", "stars", "bins"} :
         \E p \in a.figures : p[1] = <<x>>
  /\ a.by = "insight" => a.packet = Packet(a.scope) /\ a.scope # <<>>

QueriesInv ==
  /\ frame # None => IsFrame(frame) /\ IsReviews(frame.rows)
  /\ frame = None => answers = {}
  /\ \A a \in answers : Honest(a)

LEMMA SaysIs ==
  ASSUME NEW rows, NEW x, NEW value, value = Figure(rows, x)
  PROVE  Says(rows, <<x, value>>)
  BY DEF Says

LEMMA PriorityFigures ==
  ASSUME NEW rows
  PROVE  /\ \A i, k : Figure(rows, <<"priority", i, k>>) = RankedGroups(rows, i)[k]
         /\ \A n : Figure(rows, <<"priorities", n>>) = Least(n, Len(Groups(rows)))
  BY DEF Figure

LEMMA MetricFigures ==
  ASSUME NEW rows
  PROVE  /\ Says(rows, <<<<"total">>, Len(rows)>>)
         /\ Says(rows, <<<<"rating">>, HealthMetrics(rows).rating>>)
         /\ Says(rows, <<<<"bad ratio">>, HealthMetrics(rows).negative>>)
         /\ Says(rows, <<<<"sentiment">>, HealthMetrics(rows).sentiment>>)
         /\ Says(rows, <<<<"risk">>, RiskCount(rows)>>)
  BY DEF Figure, Says

LEMMA ListFigures ==
  ASSUME NEW rows
  PROVE  /\ Says(rows, <<<<"stars">>, RatingDistribution(rows)>>)
         /\ Says(rows, <<<<"bins">>, SentimentDistribution(rows)>>)
         /\ Says(rows, <<<<"trend">>, Trend(rows)>>)
         /\ Says(rows, <<<<"risk list">>, RiskList(rows)>>)
         /\ Says(rows, <<<<"mismatch">>, MismatchCount(rows)>>)
         /\ Says(rows, <<<<"mismatch list">>, MismatchList(rows)>>)
  BY DEF Figure, Says

LEMMA SampleFigures ==
  ASSUME NEW rows
  PROVE  /\ Says(rows, <<<<"bad">>, Len(Bad(rows))>>)
         /\ Says(rows, <<<<"good">>, Len(Good(rows))>>)
         /\ \A v : Says(rows, <<<<"of", v>>, Len(OfVersions(rows, v))>>)
         /\ \A c, t : Says(rows, <<<<"in", c, t>>,
                         RepresentativeReviews([rows |-> rows], t, c, 0).sample>>)
  BY DEF Figure, ShareFigure, Says

LEMMA ShareFigures ==
  ASSUME NEW rows
  PROVE  /\ Figure(rows, <<"bad", "words">>) = KeywordScores(Bad(rows), 0).words
         /\ \A n : Figure(rows, <<"bad", "listed", n>>) =
                     KeywordScores(Bad(rows), n).listed
         /\ Figure(rows, <<"good", "words">>) = KeywordScores(Good(rows), 0).words
         /\ \A n : Figure(rows, <<"good", "listed", n>>) =
                     KeywordScores(Good(rows), n).listed
  BY DEF Figure, ShareFigure

-----------------------------------------------------------------------------
(* Sorting and the priority table *)

LEMMA RiskSorted ==
  ASSUME NEW s, Len(s) \in Nat
  PROVE  IsList(Sorted(s, RiskOrder)) /\ Len(Sorted(s, RiskOrder)) = Len(s)
  <1> DEFINE place(t, i) == Cardinality({j \in 1..Len(t) : RiskOrder(t[j], t[i])})
             g(t) == [k \in 1..Len(t) |->
                        t[CHOOSE i \in 1..Len(t) : place(t, i) = k - 1]]
             of(t) == SubSeq(g(t), 1, Len(t))
  <1>1. Sorted(s, RiskOrder) = CHOOSE y \in {of(t) : t \in {s}} : TRUE
    BY DEF Sorted, Once
  <1>2. g(s) = [k \in 1..Len(s) |-> g(s)[k]]
    OBVIOUS
  <1> HIDE DEF g
  <1>3. of(s) = g(s) /\ IsList(g(s)) /\ Len(g(s)) = Len(s)
    BY <1>2, ListIs
  <1> HIDE DEF of
  <1> QED
    BY <1>1, <1>3

LEMMA ScoreSorted ==
  ASSUME NEW s, Len(s) \in Nat
  PROVE  IsList(Sorted(s, ScoreOrder)) /\ Len(Sorted(s, ScoreOrder)) = Len(s)
  <1> DEFINE place(t, i) == Cardinality({j \in 1..Len(t) : ScoreOrder(t[j], t[i])})
             g(t) == [k \in 1..Len(t) |->
                        t[CHOOSE i \in 1..Len(t) : place(t, i) = k - 1]]
             of(t) == SubSeq(g(t), 1, Len(t))
  <1>1. Sorted(s, ScoreOrder) = CHOOSE y \in {of(t) : t \in {s}} : TRUE
    BY DEF Sorted, Once
  <1>2. g(s) = [k \in 1..Len(s) |-> g(s)[k]]
    OBVIOUS
  <1> HIDE DEF g
  <1>3. of(s) = g(s) /\ IsList(g(s)) /\ Len(g(s)) = Len(s)
    BY <1>2, ListIs
  <1> HIDE DEF of
  <1> QED
    BY <1>1, <1>3

LEMMA GroupsAre ==
  ASSUME NEW rows PROVE Len(Groups(rows)) \in Nat
  <1> DEFINE occurs(c) == \E i \in DOMAIN rows : rows[i].category = c
             at(t) == {i \in 1..Len(t) : occurs(t[i])}
             of(t) == Taken(t, at(t))
  <1>1. Groups(rows) = CHOOSE y \in {of(t) : t \in {GroupOrder}} : TRUE
    BY DEF Groups, Selected, Once
  <1>2. Len(GroupOrder) \in Nat
    BY ReviewAnalysisAssumption
  <1>3. Len(of(GroupOrder)) \in Nat
    <2> HIDE DEF occurs
    <2> QED
      BY <1>2, TakenIs DEF IsList
  <1> HIDE DEF of
  <1> QED
    BY <1>1, <1>3

LEMMA RankedAre ==
  ASSUME NEW rows, NEW insights
  PROVE  /\ IsList(RankedGroups(rows, insights))
         /\ Len(RankedGroups(rows, insights)) = Len(Groups(rows))
  <1> DEFINE n == Len(Groups(rows))
             table == [k \in 1..n |-> PriorityRow(rows, insights, Groups(rows)[k])]
  <1>1. n \in Nat
    BY GroupsAre
  <1>2. table = [k \in 1..n |-> table[k]]
    OBVIOUS
  <1>3. RankedGroups(rows, insights) = Sorted(table, ScoreOrder)
    BY DEF RankedGroups
  <1> HIDE DEF n, table
  <1>4. Len(table) = n
    BY <1>1, <1>2, ListIs
  <1> QED
    BY <1>1, <1>3, <1>4, ScoreSorted DEF n

LEMMA PrioritiesSay ==
  ASSUME NEW rows, NEW insights, NEW top \in Nat,
         NEW p \in Priorities(PriorityTable(rows, insights, top), insights, top)
  PROVE  Says(rows, p)
  <1> DEFINE all == RankedGroups(rows, insights)
             table == Prefix(all, top)
  <1>1. /\ IsList(table) /\ Len(table) = Least(top, Len(all))
        /\ \A k \in 1..Len(table) : table[k] = all[k]
    BY RankedAre, PrefixIs
  <1>2. PriorityTable(rows, insights, top) = table
    BY DEF PriorityTable
  <1> HIDE DEF table
  <1>3. DOMAIN table = 1..Len(table)
    BY <1>1 DEF IsList
  <1>4. CASE p = <<<<"priorities", top>>, Len(table)>>
    <2>1. Len(table) = Figure(rows, <<"priorities", top>>)
      BY <1>1, RankedAre, PriorityFigures
    <2> QED
      BY <1>4, <2>1, SaysIs
  <1>5. CASE \E k \in DOMAIN table : p = <<<<"priority", insights, k>>, table[k]>>
    <2>1. PICK k \in 1..Len(table) : p = <<<<"priority", insights, k>>, table[k]>>
      BY <1>3, <1>5
    <2>2. table[k] = Figure(rows, <<"priority", insights, k>>)
      BY <1>1, PriorityFigures
    <2> QED
      BY <2>1, <2>2, SaysIs
  <1> QED
    BY <1>2, <1>4, <1>5 DEF Priorities

-----------------------------------------------------------------------------
(* Words *)

LEMMA SharesAreReviews ==
  ASSUME NEW rows, IsReviews(rows)
  PROVE  IsReviews(Bad(rows)) /\ IsReviews(Good(rows)) /\ IsReviews(Risk(rows))
  <1>1. IsReviews(Bad(rows))
    <2>1. IsReviews(Taken(rows, {i \in 1..Len(rows) : IsNegative(rows[i])}))
      BY TakenReviews
    <2> QED
      BY <2>1, NegativeIs DEF Bad
  <1>2. IsReviews(Good(rows))
    <2>1. IsReviews(Taken(rows, {i \in 1..Len(rows) : IsPositive(rows[i])}))
      BY TakenReviews
    <2> QED
      BY <2>1, PositiveIs DEF Good
  <1>3. IsReviews(Risk(rows))
    <2>1. IsReviews(Taken(rows, {i \in 1..Len(rows) : IsHighRisk(rows[i])}))
      BY TakenReviews
    <2> QED
      BY <2>1, HighRiskIs DEF Risk
  <1> QED
    BY <1>1, <1>2, <1>3

\* A list that is cut twice is as long as the shorter cut.
LEMMA CutWords ==
  ASSUME NEW rows, IsReviews(rows), NEW m \in Nat, NEW n \in Nat
  PROVE  LET cut == Cut(KeywordScores(rows, m), n)
         IN  /\ cut.words = KeywordScores(rows, 0).words
             /\ cut.listed = KeywordScores(rows, Least(n, m)).listed
  <1> DEFINE f == [i \in 1..Len(rows) |-> rows[i].content \cap Tokens]
             sets == {f[i] : i \in 1..Len(rows)}
             words == UNION {rows[i].content \cap Tokens : i \in DOMAIN rows}
             c == Cardinality(words)
  <1>1. Len(rows) \in Nat /\ DOMAIN rows = 1..Len(rows)
    BY DEF IsReviews, IsList
  <1>2. IsFiniteSet(1..Len(rows))
    BY <1>1, FS_Interval
  <1>3. IsFiniteSet(sets)
    <2> DEFINE D == 1..Len(rows)
    <2>1. f = [i \in D |-> f[i]]
      OBVIOUS
    <2> HIDE DEF D, f
    <2>2. f \in Surjection(D, {f[i] : i \in D})
      BY <2>1 DEF Surjection
    <2>3. IsFiniteSet({f[i] : i \in D})
      BY <1>2, <2>2, FS_Surjection DEF D
    <2> QED
      BY <2>3 DEF D
  <1>4. \A i \in 1..Len(rows) : IsFiniteSet(f[i])
    <2>1. \A i \in 1..Len(rows) : IsFiniteSet(rows[i].content)
      BY DEF IsReviews, IsReview
    <2>2. \A S : IsFiniteSet(S) => IsFiniteSet(S \cap Tokens)
      BY FS_Intersection
    <2> QED
      BY <2>1, <2>2
  <1>5. words = UNION sets
    BY <1>1
  <1>6. IsFiniteSet(words)
    <2> HIDE DEF f, words
    <2> QED
      BY <1>3, <1>4, <1>5, FS_UNION
  <1>7. c \in Nat
    <2> HIDE DEF words
    <2> QED
      BY <1>6, FS_CardinalityType
  <1>8. \A k : KeywordScores(rows, k) = [words |-> words, listed |-> Least(c, k)]
    BY DEF KeywordScores
  <1> HIDE DEF words, c
  <1>9. Least(Least(c, m), n) = Least(c, Least(n, m))
    BY <1>7 DEF Least
  <1> QED
    BY <1>8, <1>9 DEF Cut

LEMMA WordsSay ==
  ASSUME NEW rows, IsReviews(rows), NEW top \in Nat, NEW p
  PROVE  /\ \/ p \in Words("bad", Cut(KeywordScores(Bad(rows), KeywordRows), top), top)
            \/ p \in Words("good", Cut(KeywordScores(Good(rows), KeywordRows), top), top)
            \/ p \in Words("bad", KeywordScores(Bad(rows), KeywordRows), KeywordRows)
            \/ p \in Words("good", KeywordScores(Good(rows), KeywordRows), KeywordRows)
         => Says(rows, p)
  <1> DEFINE least == Least(top, KeywordRows)
             whole(some) == KeywordScores(some, KeywordRows)
             cut(some) == Cut(whole(some), top)
  <1>1. \A some : IsReviews(some) =>
          /\ cut(some).words = KeywordScores(some, 0).words
          /\ cut(some).listed = KeywordScores(some, least).listed
          /\ whole(some).words = KeywordScores(some, 0).words
    <2>1. KeywordRows \in Nat
      BY ReviewAnalysisAssumption
    <2>2. \A some : whole(some).words = KeywordScores(some, 0).words
      BY DEF KeywordScores
    <2> QED
      BY <2>1, <2>2, CutWords
  <1>2. Least(KeywordRows, KeywordRows) = KeywordRows
    BY DEF Least
  <1> HIDE DEF least, whole
  <1>3. ASSUME p \in Words("bad", cut(Bad(rows)), top) PROVE Says(rows, p)
    <2>1. \/ p = <<<<"bad", "words">>, cut(Bad(rows)).words>>
          \/ p = <<<<"bad", "listed", least>>, cut(Bad(rows)).listed>>
      BY <1>3 DEF Words, least
    <2> QED
      BY <1>1, <2>1, ShareFigures, SharesAreReviews, SaysIs
  <1>4. ASSUME p \in Words("good", cut(Good(rows)), top) PROVE Says(rows, p)
    <2>1. \/ p = <<<<"good", "words">>, cut(Good(rows)).words>>
          \/ p = <<<<"good", "listed", least>>, cut(Good(rows)).listed>>
      BY <1>4 DEF Words, least
    <2> QED
      BY <1>1, <2>1, ShareFigures, SharesAreReviews, SaysIs
  <1>5. ASSUME p \in Words("bad", whole(Bad(rows)), KeywordRows) PROVE Says(rows, p)
    <2>1. \/ p = <<<<"bad", "words">>, whole(Bad(rows)).words>>
          \/ p = <<<<"bad", "listed", KeywordRows>>, whole(Bad(rows)).listed>>
      BY <1>2, <1>5 DEF Words
    <2>2. whole(Bad(rows)).listed = Figure(rows, <<"bad", "listed", KeywordRows>>)
      BY ShareFigures DEF whole
    <2> QED
      BY <1>1, <2>1, <2>2, ShareFigures, SharesAreReviews, SaysIs
  <1>6. ASSUME p \in Words("good", whole(Good(rows)), KeywordRows) PROVE Says(rows, p)
    <2>1. \/ p = <<<<"good", "words">>, whole(Good(rows)).words>>
          \/ p = <<<<"good", "listed", KeywordRows>>, whole(Good(rows)).listed>>
      BY <1>2, <1>6 DEF Words
    <2>2. whole(Good(rows)).listed = Figure(rows, <<"good", "listed", KeywordRows>>)
      BY ShareFigures DEF whole
    <2> QED
      BY <1>1, <2>1, <2>2, ShareFigures, SharesAreReviews, SaysIs
  <1> QED
    BY <1>3, <1>4, <1>5, <1>6 DEF whole

-----------------------------------------------------------------------------
(* What the summary and each tool state *)

LEMMA MetricsSay ==
  ASSUME NEW rows, IsReviews(rows), NEW p \in Metric(HealthMetrics(rows))
  PROVE  Says(rows, p)
  <1> DEFINE m == HealthMetrics(rows)
  <1>1. m.total = Len(rows)
    BY DEF HealthMetrics, NoMetrics
  <1>2. m.risk = RiskCount(rows)
    <2>1. CASE rows = <<>>
      <3>1. {i \in DOMAIN rows : IsHighRisk(rows[i])} = {}
        BY <2>1
      <3>2. RiskCount(rows) = 0
        BY <3>1, FS_EmptySet DEF RiskCount, CountOf
      <3> QED
        BY <2>1, <3>2 DEF HealthMetrics, NoMetrics
    <2>2. CASE rows # <<>>
      BY <2>2 DEF HealthMetrics, RiskCount
    <2> QED
      BY <2>1, <2>2
  <1>3. \/ p = <<<<"total">>, m.total>>
        \/ p = <<<<"rating">>, m.rating>>
        \/ p = <<<<"bad ratio">>, m.negative>>
        \/ p = <<<<"sentiment">>, m.sentiment>>
        \/ p = <<<<"risk">>, m.risk>>
    BY DEF Metric
  <1> QED
    BY <1>1, <1>2, <1>3, MetricFigures

LEMMA SummarySays ==
  ASSUME NEW fr, IsReviews(fr.rows), NEW insights, NEW p \in SummaryFigures(fr, insights)
  PROVE  Says(fr.rows, p)
  <1> DEFINE rows == fr.rows
             table == PriorityTable(rows, insights, PriorityRows)
             bad == KeywordScores(Bad(rows), KeywordRows)
             good == KeywordScores(Good(rows), KeywordRows)
  <1>1. \/ p \in Metric(HealthMetrics(rows))
        \/ p \in Priorities(table, insights, PriorityRows)
        \/ p \in Words("bad", bad, KeywordRows)
        \/ p \in Words("good", good, KeywordRows)
        \/ p \in {<<<<"stars">>, RatingDistribution(rows)>>,
                  <<<<"bins">>, SentimentDistribution(rows)>>, <<<<"trend">>, Trend(rows)>>,
                  <<<<"risk list">>, RiskList(rows)>>,
                  <<<<"mismatch list">>, MismatchList(rows)>>,
                  <<<<"mismatch">>, MismatchCount(rows)>>}
    BY DEF SummaryFigures, Bad, Good, RiskList, Risk, MismatchList, MismatchCount,
           ViewOf, HighRiskOf
  <1>2. PriorityRows \in Nat /\ KeywordRows \in Nat
    BY ReviewAnalysisAssumption
  <1>3. CASE p \in Metric(HealthMetrics(rows))
    BY <1>3, MetricsSay
  <1>4. CASE p \in Priorities(table, insights, PriorityRows)
    BY <1>2, <1>4, PrioritiesSay
  <1>5. CASE p \in Words("bad", bad, KeywordRows) \/ p \in Words("good", good, KeywordRows)
    BY <1>2, <1>5, WordsSay
  <1>6. CASE p \in {<<<<"stars">>, RatingDistribution(rows)>>,
                    <<<<"bins">>, SentimentDistribution(rows)>>,
                    <<<<"trend">>, Trend(rows)>>,
                    <<<<"risk list">>, RiskList(rows)>>,
                    <<<<"mismatch list">>, MismatchList(rows)>>,
                    <<<<"mismatch">>, MismatchCount(rows)>>}
    BY <1>6, ListFigures
  <1> QED
    BY <1>1, <1>3, <1>4, <1>5, <1>6

LEMMA ToldIs ==
  ASSUME NEW call, NEW fr, NEW insights, NEW p \in ToolFigures(call, fr, insights)
  PROVE  LET o == Called(call, fr, insights)
         IN  \/ ~o.failed /\ p = <<SampleOf(call), o.sample>>
             \/ o.output # None /\ p \in Stated(call, o.output, insights)
  <1> DEFINE of(o) ==
               IF o.failed THEN {}
               ELSE {<<SampleOf(call), o.sample>>}
                      \cup IF o.output = None THEN {} ELSE Stated(call, o.output, insights)
             called == Called(call, fr, insights)
  <1>1. ToolFigures(call, fr, insights) = CHOOSE y \in {of(v) : v \in {called}} : TRUE
    BY DEF ToolFigures, Once
  <1>2. p \in of(called)
    <2> HIDE DEF of, called
    <2> QED
      BY <1>1
  <1> QED
    BY <1>2

LEMMA MetricsToolSays ==
  ASSUME NEW fr, IsReviews(fr.rows), NEW insights, NEW call,
         call.tool = "get_review_metrics", NEW p \in ToolFigures(call, fr, insights)
  PROVE  Says(fr.rows, p)
  <1> DEFINE o == MetricsTool(fr)
  <1>1. \/ p = <<<<"total">>, o.sample>>
        \/ o.output # None /\ p \in Metric(o.output)
    BY ToldIs DEF Called, SampleOf, Stated
  <1>2. AgentData(fr) = fr.rows
    BY PreparedOnce DEF AgentData
  <1>3. o.sample = Len(fr.rows)
        /\ (o.output # None => o.output = HealthMetrics(fr.rows))
    BY <1>2 DEF MetricsTool, Output, GeneralAnalysis
  <1> HIDE DEF o
  <1> QED
    BY <1>1, <1>3, MetricsSay, MetricFigures

LEMMA TrendToolSays ==
  ASSUME NEW fr, IsReviews(fr.rows), NEW insights, NEW call,
         call.tool = "analyze_sentiment_trend", NEW p \in ToolFigures(call, fr, insights)
  PROVE  Says(fr.rows, p)
  <1> DEFINE o == TrendTool(fr)
  <1>1. \/ p = <<<<"total">>, o.sample>>
        \/ o.output # None /\ p = <<<<"trend">>, o.output.trend>>
    <2>1. /\ Called(call, fr, insights) = o /\ SampleOf(call) = <<"total">>
          /\ \A out : Stated(call, out, insights) = {<<<<"trend">>, out.trend>>}
      BY DEF Called, SampleOf, Stated
    <2> HIDE DEF o
    <2> QED
      BY <2>1, ToldIs
  <1>2. AgentData(fr) = fr.rows
    BY PreparedOnce DEF AgentData
  <1>3. o.sample = Len(fr.rows)
        /\ (o.output # None => o.output.trend = Trend(fr.rows))
    BY <1>2 DEF TrendTool, Output, TrendAnalysis
  <1> HIDE DEF o
  <1> QED
    BY <1>1, <1>3, ListFigures, MetricFigures

LEMMA NegativeToolSays ==
  ASSUME NEW fr, IsReviews(fr.rows), NEW insights, NEW call,
         call.tool = "analyze_negative_reviews", call.top \in Nat,
         NEW p \in ToolFigures(call, fr, insights)
  PROVE  Says(fr.rows, p)
  <1> DEFINE o == NegativeTool(fr, insights, call.top)
             rows == fr.rows
             cut == Cut(KeywordScores(Bad(rows), KeywordRows), call.top)
  <1>1. \/ p = <<<<"bad">>, o.sample>>
        \/ /\ o.output # None
           /\ \/ p = <<<<"bad">>, o.output.count>>
              \/ p = <<<<"bad ratio">>, o.output.ratio>>
              \/ p = <<<<"rating">>, o.output.rating>>
              \/ p \in Words("bad", o.output.keywords, call.top)
    <2>1. /\ Called(call, fr, insights) = o /\ SampleOf(call) = <<"bad">>
          /\ \A out : Stated(call, out, insights) =
               {<<<<"bad">>, out.count>>, <<<<"bad ratio">>, out.ratio>>,
                <<<<"rating">>, out.rating>>}
                 \cup Words("bad", out.keywords, call.top)
      BY DEF Called, SampleOf, Stated
    <2> HIDE DEF o
    <2> QED
      BY <2>1, ToldIs
  <1>2. AgentData(fr) = rows
    BY PreparedOnce DEF AgentData
  <1>3. Len(Bad(rows)) = BadCount(rows)
    BY CountsAgree DEF IsReviews
  <1>4. o.sample = Len(Bad(rows))
    BY <1>2, <1>3 DEF NegativeTool, Output, BadCount
  <1>5. o.output # None =>
          /\ o.output.count = Len(Bad(rows)) /\ o.output.keywords = cut
          /\ o.output.ratio = HealthMetrics(rows).negative
          /\ o.output.rating = HealthMetrics(rows).rating
    <2>1. rows # <<>> => /\ HealthMetrics(rows).negative = Ratio(Len(Bad(rows)), rows)
                         /\ HealthMetrics(rows).rating = AverageRating(rows)
      BY <1>3 DEF HealthMetrics, BadCount
    <2> DEFINE a == NegativeAnalysis(fr, insights)
    <2>2. rows = <<>> => a = None
      BY <1>2 DEF NegativeAnalysis
    <2>3. rows # <<>> =>
            /\ a = [a EXCEPT !.keywords = KeywordScores(Bad(rows), KeywordRows)]
            /\ a.count = Len(Bad(rows)) /\ a.ratio = Ratio(Len(Bad(rows)), rows)
            /\ a.rating = AverageRating(rows)
            /\ a.keywords = KeywordScores(Bad(rows), KeywordRows)
            /\ "keywords" \in DOMAIN a
      BY <1>2 DEF NegativeAnalysis, Bad
    <2>4. o.output = IF a = None THEN None
                     ELSE [a EXCEPT !.keywords = Cut(@, call.top)]
      BY DEF NegativeTool, Output, WithKeywords
    <2> HIDE DEF a, o
    <2> QED
      BY <2>1, <2>2, <2>3, <2>4
  <1> HIDE DEF o
  <1> QED
    BY <1>1, <1>4, <1>5, WordsSay, SampleFigures, MetricFigures

LEMMA PositiveToolSays ==
  ASSUME NEW fr, IsReviews(fr.rows), NEW insights, NEW call,
         call.tool = "analyze_positive_reviews", call.top \in Nat,
         NEW p \in ToolFigures(call, fr, insights)
  PROVE  Says(fr.rows, p)
  <1> DEFINE o == PositiveTool(fr, call.top)
             rows == fr.rows
             cut == Cut(KeywordScores(Good(rows), KeywordRows), call.top)
  <1>1. \/ p = <<<<"good">>, o.sample>>
        \/ /\ o.output # None
           /\ \/ p = <<<<"good">>, o.output.count>>
              \/ p \in Words("good", o.output.keywords, call.top)
    <2>1. /\ Called(call, fr, insights) = o /\ SampleOf(call) = <<"good">>
          /\ \A out : Stated(call, out, insights) =
               {<<<<"good">>, out.count>>} \cup Words("good", out.keywords, call.top)
      BY DEF Called, SampleOf, Stated
    <2> HIDE DEF o
    <2> QED
      BY <2>1, ToldIs
  <1>2. AgentData(fr) = rows
    BY PreparedOnce DEF AgentData
  <1>3. Len(Good(rows)) = GoodCount(rows)
    BY CountsAgree DEF IsReviews
  <1>4. o.sample = Len(Good(rows))
    BY <1>2, <1>3 DEF PositiveTool, Output, GoodCount
  <1>5. o.output # None =>
          o.output.count = Len(Good(rows)) /\ o.output.keywords = cut
    <2> DEFINE a == PositiveAnalysis(fr)
    <2>1. rows = <<>> => a = None
      BY <1>2 DEF PositiveAnalysis
    <2>2. rows # <<>> =>
            /\ a.count = Len(Good(rows))
            /\ a.keywords = KeywordScores(Good(rows), KeywordRows)
            /\ "keywords" \in DOMAIN a /\ "count" \in DOMAIN a
      BY <1>2 DEF PositiveAnalysis, Good
    <2>3. o.output = IF a = None THEN None
                     ELSE [a EXCEPT !.keywords = Cut(@, call.top)]
      BY DEF PositiveTool, Output, WithKeywords
    <2> HIDE DEF a, o
    <2> QED
      BY <2>1, <2>2, <2>3
  <1> HIDE DEF o
  <1> QED
    BY <1>1, <1>4, <1>5, WordsSay, SampleFigures

LEMMA RiskToolSays ==
  ASSUME NEW fr, IsReviews(fr.rows), NEW insights, NEW call,
         call.tool = "find_high_risk_reviews", NEW p \in ToolFigures(call, fr, insights)
  PROVE  Says(fr.rows, p)
  <1> DEFINE o == RiskTool(fr)
             rows == fr.rows
  <1>1. \/ p = <<<<"risk">>, o.sample>>
        \/ /\ o.output # None
           /\ \/ p = <<<<"risk">>, o.output.count>>
              \/ p = <<<<"risk list">>, Prefix(o.output.reviews, PreviewRows)>>
    <2>1. /\ Called(call, fr, insights) = o /\ SampleOf(call) = <<"risk">>
          /\ \A out : Stated(call, out, insights) =
               {<<<<"risk">>, out.count>>,
                <<<<"risk list">>, Prefix(out.reviews, PreviewRows)>>}
      BY DEF Called, SampleOf, Stated
    <2> HIDE DEF o
    <2> QED
      BY <2>1, ToldIs
  <1>2. AgentData(fr) = rows
    BY PreparedOnce DEF AgentData
  <1>3. Len(Risk(rows)) = RiskCount(rows)
    BY CountsAgree DEF IsReviews
  <1>4. o.sample = RiskCount(rows)
    BY <1>2 DEF RiskTool, Output, RiskCount
  <1>5. o.output # None =>
          o.output.count = Len(Risk(rows))
          /\ Prefix(o.output.reviews, PreviewRows) = RiskList(rows)
    <2>1. o.output = RiskAnalysis(fr)
      BY DEF RiskTool, Output
    <2>2. rows = <<>> => RiskAnalysis(fr) = None
      BY <1>2 DEF RiskAnalysis
    <2>3. rows # <<>> => /\ RiskAnalysis(fr).count = Len(Risk(rows))
                         /\ RiskAnalysis(fr).reviews = Sorted(Risk(rows), RiskOrder)
      BY <1>2 DEF RiskAnalysis, Risk
    <2> QED
      BY <2>1, <2>2, <2>3 DEF RiskList
  <1> HIDE DEF o
  <1> QED
    BY <1>1, <1>3, <1>4, <1>5, MetricFigures, ListFigures

LEMMA PriorityToolSays ==
  ASSUME NEW fr, IsReviews(fr.rows), NEW insights, NEW call,
         call.tool = "calculate_issue_priority", call.top \in Nat,
         NEW p \in ToolFigures(call, fr, insights)
  PROVE  Says(fr.rows, p)
  <1> DEFINE o == PriorityTool(fr, insights, call.top)
             rows == fr.rows
  <1>1. \/ p = <<<<"total">>, o.sample>>
        \/ /\ o.output # None
           /\ \/ p = <<<<"bad ratio">>, o.output.ratio>>
              \/ p \in Priorities(o.output.priority, insights, call.top)
    <2>1. /\ Called(call, fr, insights) = o /\ SampleOf(call) = <<"total">>
          /\ \A out : Stated(call, out, insights) =
               {<<<<"bad ratio">>, out.ratio>>}
                 \cup Priorities(out.priority, insights, call.top)
      BY DEF Called, SampleOf, Stated
    <2> HIDE DEF o
    <2> QED
      BY <2>1, ToldIs
  <1>2. AgentData(fr) = rows
    BY PreparedOnce DEF AgentData
  <1>3. o.sample = Len(rows)
    BY <1>2 DEF PriorityTool, Output
  <1>4. o.output # None =>
          /\ o.output.ratio = HealthMetrics(rows).negative
          /\ o.output.priority = PriorityTable(rows, insights, call.top)
    <2> DEFINE a == ProductSuggestion(fr, insights)
    <2>1. rows = <<>> => a = None
      BY <1>2 DEF ProductSuggestion
    <2>2. rows # <<>> => /\ a.ratio = HealthMetrics(rows).negative
                         /\ "priority" \in DOMAIN a /\ "ratio" \in DOMAIN a
      BY <1>2 DEF ProductSuggestion
    <2>3. o.output =
            IF a = None THEN None
            ELSE [a EXCEPT !.priority = PriorityTable(rows, insights, call.top)]
      BY <1>2 DEF PriorityTool, Output
    <2> HIDE DEF a, o
    <2> QED
      BY <2>1, <2>2, <2>3
  <1> HIDE DEF o
  <1> QED
    BY <1>1, <1>3, <1>4, PrioritiesSay, MetricFigures

LEMMA ReportSays ==
  ASSUME NEW fr, IsReviews(fr.rows), NEW insights, NEW call,
         call.tool = "report_generation", NEW p \in ToolFigures(call, fr, insights)
  PROVE  Says(fr.rows, p)
  <1> DEFINE o == Report(fr, insights)
             rows == fr.rows
  <1>1. \/ p = <<<<"total">>, Len(rows)>>
        \/ /\ o # None
           /\ \/ p \in Metric(o.metrics)
              \/ p = <<<<"risk">>, o.riskCount>>
              \/ p \in Priorities(o.priority, insights, PriorityRows)
    <2>1. /\ Called(call, fr, insights) = Output(o, Len(rows))
          /\ SampleOf(call) = <<"total">>
          /\ \A out : Stated(call, out, insights) =
               Metric(out.metrics) \cup {<<<<"risk">>, out.riskCount>>}
                 \cup Priorities(out.priority, insights, PriorityRows)
      BY DEF Called, SampleOf, Stated
    <2> HIDE DEF o
    <2> QED
      BY <2>1, ToldIs DEF Output
  <1>2. AgentData(fr) = rows
    BY PreparedOnce DEF AgentData
  <1>3. Len(Risk(rows)) = RiskCount(rows)
    BY CountsAgree DEF IsReviews
  <1>4. o # None => /\ o.metrics = HealthMetrics(rows)
                    /\ o.riskCount = RiskCount(rows)
                    /\ o.priority = PriorityTable(rows, insights, PriorityRows)
    BY <1>2, <1>3 DEF Report, Risk
  <1>5. PriorityRows \in Nat
    BY ReviewAnalysisAssumption
  <1> HIDE DEF o
  <1> QED
    BY <1>1, <1>4, <1>5, MetricsSay, PrioritiesSay, MetricFigures

OfCategory(s, c) == Selected(s, LAMBDA r : c = None \/ r.category = c)

LEMMA AnyCategory ==
  ASSUME NEW s, IsList(s), NEW c, c = None
  PROVE  OfCategory(s, c) = s
  <1> DEFINE of(t) == Taken(t, {i \in 1..Len(t) : c = None \/ t[i].category = c})
  <1>1. OfCategory(s, c) = CHOOSE y \in {of(t) : t \in {s}} : TRUE
    BY DEF OfCategory, Selected, Once
  <1>2. {i \in 1..Len(s) : c = None \/ s[i].category = c} = 1..Len(s)
    OBVIOUS
  <1>3. of(s) = s
    BY <1>2, TakenAll
  <1> HIDE DEF of
  <1> QED
    BY <1>1, <1>3

LEMMA RepresentativeSays ==
  ASSUME NEW fr, IsReviews(fr.rows), NEW insights, NEW call,
         call.tool = "retrieve_representative_reviews",
         call.type \in {"negative", "positive", "high_risk", "all"},
         NEW p \in ToolFigures(call, fr, insights)
  PROVE  Says(fr.rows, p)
  <1> DEFINE o == RepresentativeReviews(fr, call.type, call.category, call.top)
             rows == fr.rows
             s == OfType(rows, call.type)
             own == OfCategory(s, call.category)
  <1>1. ~o.failed /\ p = <<SampleOf(call), o.sample>>
    <2>1. Called(call, fr, insights) = o /\ \A out : Stated(call, out, insights) = {}
      BY DEF Called, Stated
    <2> HIDE DEF o
    <2> QED
      BY <2>1, ToldIs
  <1>2. AgentData(fr) = rows /\ AgentData([rows |-> rows]) = rows
    BY PreparedOnce DEF AgentData
  <1>3. CASE call.category # None
    <2>1. SampleOf(call) = <<"in", call.category, call.type>>
      BY <1>3 DEF SampleOf
    <2>2. o.sample =
            RepresentativeReviews([rows |-> rows], call.type, call.category, 0).sample
      BY <1>2 DEF RepresentativeReviews, Output, ToolFailed
    <2> HIDE DEF o
    <2> QED
      BY <1>1, <2>1, <2>2, SampleFigures
  <1>4. CASE call.category = None
    <2>1. o.failed \/ o.sample = Len(Sorted(own, RiskOrder))
      BY <1>2 DEF RepresentativeReviews, Output, ToolFailed, OfCategory
    <2>2. \/ call.type = "negative" /\ s = Bad(rows) /\ SampleOf(call) = <<"bad">>
          \/ call.type = "positive" /\ s = Good(rows) /\ SampleOf(call) = <<"good">>
          \/ call.type = "high_risk" /\ s = Risk(rows) /\ SampleOf(call) = <<"risk">>
          \/ call.type = "all" /\ s = rows /\ SampleOf(call) = <<"total">>
      BY <1>4 DEF OfType, SampleOf, Bad, Good, Risk
    <2>3. IsList(s)
      BY <2>2, CountsAgree DEF IsReviews
    <2>4. own = s
      BY <1>4, <2>3, AnyCategory
    <2>5. Len(Sorted(own, RiskOrder)) = Len(s)
      <3> HIDE DEF own, s
      <3> QED
        BY <2>3, <2>4, RiskSorted DEF IsList
    <2>6. o.sample = Len(s)
      BY <1>1, <2>1, <2>5
    <2>7. Len(Risk(rows)) = RiskCount(rows)
      BY CountsAgree DEF IsReviews
    <2> HIDE DEF o, s
    <2> QED
      BY <1>1, <2>2, <2>6, <2>7, SampleFigures, MetricFigures
  <1> QED
    BY <1>3, <1>4

-----------------------------------------------------------------------------
(* Versions, of which compare_versions takes some and then those of each *)

\* A part of what was taken has as many ranks as positions.
LEMMA RanksOf ==
  ASSUME NEW n \in Nat, NEW A \in SUBSET (1..n), NEW D \in SUBSET A
  PROVE  /\ Cardinality({Rank(A, i) : i \in D}) = Cardinality(D)
         /\ {Rank(A, i) : i \in D} \in SUBSET (1..Cardinality(A))
  <1> DEFINE T == {Rank(A, i) : i \in D}
             f == [i \in D |-> Rank(A, i)]
  <1>1. \A i \in A : i \in Nat /\ Rank(A, i) \in 1..Cardinality(A)
    <2>1. \A i \in A : i \in Nat
      OBVIOUS
    <2>2. \A i \in A : Rank(A, i) \in 1..Cardinality(A)
      BY RankIs
    <2> QED
      BY <2>1, <2>2
  <1>2. \A i, j \in A : i < j => Rank(A, i) < Rank(A, j)
    BY RankIs
  <1>3. Cardinality(A) \in Nat /\ IsFiniteSet(D)
    BY RankIs, SubsetCount
  <1>4. \A i, j \in D : Rank(A, i) = Rank(A, j) => i = j
    <2> DEFINE c == Cardinality(A)
    <2> HIDE DEF c
    <2>1. \A i \in A : i \in Nat /\ Rank(A, i) \in Nat
      BY <1>1, <1>3 DEF c
    <2> QED
      BY <1>2, <2>1
  <1>5. f \in [D -> T] /\ (\A t \in T : \E i \in D : f[i] = t)
        /\ \A i, j \in D : f[i] = f[j] => i = j
    BY <1>4
  <1>6. f \in Surjection(D, T) /\ f \in Injection(D, T)
    <2> HIDE DEF f, T
    <2> QED
      BY <1>5 DEF Surjection, Injection, IsInjective
  <1>7. ExistsBijection(D, T)
    <2> HIDE DEF f, T
    <2> QED
      BY <1>6 DEF ExistsBijection, Bijection
  <1>8. Cardinality(T) = Cardinality(D)
    <2> HIDE DEF T
    <2> QED
      BY <1>3, <1>7, FS_Bijection
  <1> QED
    BY <1>1, <1>8

\* To take from what is taken is to take once.
LEMMA TakenTwice ==
  ASSUME NEW s, Len(s) \in Nat, NEW A \in SUBSET (1..Len(s)), NEW B \in SUBSET A
  PROVE  Taken(Taken(s, A), {Rank(A, i) : i \in B}) = Taken(s, B)
  <1> DEFINE t == Taken(s, A)
             C == {Rank(A, i) : i \in B}
             u == Taken(t, C)
             v == Taken(s, B)
             c == Cardinality(B)
  <1>1. /\ Len(t) = Cardinality(A) /\ Cardinality(A) \in Nat
        /\ \A i \in A : t[Rank(A, i)] = s[i]
    BY TakenIs, RankIs
  <1>2. C \in SUBSET (1..Len(t)) /\ Cardinality(C) = c
    BY <1>1, RanksOf
  <1>3. ASSUME NEW i \in B PROVE Rank(C, Rank(A, i)) = Rank(B, i)
    <2> DEFINE D == {j \in B : j <= i}
    <2>1. {k \in C : k <= Rank(A, i)} = {Rank(A, j) : j \in D}
      <3>1. \A j \in A : j \in Nat /\ Rank(A, j) \in Nat
        <4> DEFINE a == Cardinality(A)
        <4> HIDE DEF a
        <4>1. a \in Nat /\ \A j \in A : j \in Nat /\ Rank(A, j) \in 1..a
          <5>1. \A j \in A : j \in Nat
            OBVIOUS
          <5>2. a \in Nat /\ \A j \in A : Rank(A, j) \in 1..a
            BY RankIs DEF a
          <5> QED
            BY <5>1, <5>2
        <4> QED
          BY <4>1
      <3>2. \A j, k \in A : j < k => Rank(A, j) < Rank(A, k)
        BY RankIs
      <3>3. \A j \in B : Rank(A, j) <= Rank(A, i) <=> j <= i
        BY <3>1, <3>2
      <3> QED
        BY <3>3
    <2>2. Cardinality({Rank(A, j) : j \in D}) = Cardinality(D)
      <3>1. D \in SUBSET A
        OBVIOUS
      <3> HIDE DEF D
      <3> QED
        BY <3>1, RanksOf
    <2> QED
      BY <2>1, <2>2 DEF Rank
  <1>4. /\ IsList(u) /\ Len(u) = c
        /\ \A k \in C : u[Rank(C, k)] = t[k]
    <2> HIDE DEF t, C
    <2> QED
      BY <1>1, <1>2, TakenIs
  <1>5. /\ IsList(v) /\ Len(v) = c
        /\ \A k \in 1..c : \E i \in B : Rank(B, i) = k /\ v[k] = s[i]
    BY TakenIs
  <1>6. ASSUME NEW k \in 1..c PROVE u[k] = v[k]
    <2>1. PICK i \in B : Rank(B, i) = k /\ v[k] = s[i]
      BY <1>5
    <2>2. Rank(A, i) \in C /\ t[Rank(A, i)] = s[i]
      BY <1>1
    <2>3. u[Rank(C, Rank(A, i))] = t[Rank(A, i)]
      <3> HIDE DEF u, t, C
      <3> QED
        BY <1>4, <2>2
    <2>4. Rank(C, Rank(A, i)) = k
      BY <1>3, <2>1
    <2> HIDE DEF u, t, v, C
    <2> QED
      BY <2>1, <2>2, <2>3, <2>4
  <1> HIDE DEF u, v, c
  <1>7. u = v
    BY <1>4, <1>5, <1>6 DEF IsList
  <1> QED
    BY <1>7 DEF u, v

OfVersion(rows, v) ==
  Selected(rows, LAMBDA r : r.version # None /\ Stripped(r.version.text) = v)

OfVersionAt(rows, v) ==
  {i \in 1..Len(rows) : rows[i].version # None /\ Stripped(rows[i].version.text) = v}

LEMMA OfVersionIs ==
  ASSUME NEW rows, NEW v
  PROVE  OfVersion(rows, v) = Taken(rows, OfVersionAt(rows, v))
  <1> DEFINE of(t) == Taken(t, OfVersionAt(t, v))
  <1>1. OfVersion(rows, v) = CHOOSE y \in {of(t) : t \in {rows}} : TRUE
    BY DEF OfVersion, Selected, Once, OfVersionAt
  <1> HIDE DEF of
  <1>2. OfVersion(rows, v) = of(rows)
    BY <1>1
  <1> QED
    BY <1>2 DEF of

OfVersionsAt(rows, versions) ==
  {i \in 1..Len(rows) : rows[i].version # None /\ rows[i].version.text \in versions}

LEMMA OfVersionsIs ==
  ASSUME NEW rows, NEW versions, versions # {}
  PROVE  OfVersions(rows, versions) = Taken(rows, OfVersionsAt(rows, versions))
  <1> DEFINE of(t) == Taken(t, OfVersionsAt(t, versions))
  <1>1. OfVersions(rows, versions) = CHOOSE y \in {of(t) : t \in {rows}} : TRUE
    BY DEF OfVersions, Selected, Once, OfVersionsAt
  <1> HIDE DEF of
  <1>2. OfVersions(rows, versions) = of(rows)
    BY <1>1
  <1> QED
    BY <1>2 DEF of

\* The row of a version among chosen ones is its row among all, where no
\* version has blanks around it.
LEMMA ChosenVersion ==
  ASSUME NEW rows, IsReviews(rows), ~Padded(rows), NEW versions, versions # {},
         NEW i \in DOMAIN OfVersions(rows, versions),
         OfVersions(rows, versions)[i].version # None,
         NEW v, v = Stripped(OfVersions(rows, versions)[i].version.text)
  PROVE  VersionRow(OfVersions(rows, versions), v) = VersionRow(rows, v)
  <1> DEFINE A == OfVersionsAt(rows, versions)
             B == OfVersionAt(rows, v)
             t == Taken(rows, A)
  <1>1. OfVersions(rows, versions) = t
    BY OfVersionsIs
  <1>2. Len(rows) \in Nat /\ DOMAIN rows = 1..Len(rows)
    BY DEF IsReviews, IsList
  <1>3. A \in SUBSET (1..Len(rows)) /\ B \in SUBSET (1..Len(rows))
    BY DEF OfVersionsAt, OfVersionAt
  <1>4. \A j \in 1..Len(rows) :
          rows[j].version # None => Stripped(rows[j].version.text) = rows[j].version.text
    BY <1>2 DEF Padded
  <1> HIDE DEF t
  <1>5. /\ IsList(t) /\ Len(t) = Cardinality(A) /\ Cardinality(A) \in Nat
        /\ \A j \in A : Rank(A, j) \in 1..Len(t) /\ t[Rank(A, j)] = rows[j]
        /\ \A k \in 1..Len(t) : \E j \in A : Rank(A, j) = k /\ t[k] = rows[j]
    <2> HIDE DEF A
    <2>1. /\ IsList(t) /\ Len(t) = Cardinality(A)
          /\ \A j \in A : t[Rank(A, j)] = rows[j]
          /\ \A k \in 1..Cardinality(A) : \E j \in A : Rank(A, j) = k /\ t[k] = rows[j]
      BY <1>2, <1>3, TakenIs DEF t
    <2>2. Cardinality(A) \in Nat /\ \A j \in A : Rank(A, j) \in 1..Cardinality(A)
      BY <1>2, <1>3, RankIs
    <2> QED
      BY <2>1, <2>2
  <1>6. v \in versions
    <2>1. i \in 1..Len(t)
      BY <1>1, <1>5 DEF IsList
    <2>2. PICK j \in A : t[i] = rows[j]
      BY <1>5, <2>1
    <2>3. /\ j \in 1..Len(rows) /\ rows[j].version # None
          /\ rows[j].version.text \in versions
      BY <2>2 DEF OfVersionsAt
    <2>4. v = Stripped(rows[j].version.text)
      BY <1>1, <2>2
    <2> QED
      BY <1>4, <2>3, <2>4
  <1>7. B \in SUBSET A
    BY <1>3, <1>4, <1>6 DEF OfVersionsAt, OfVersionAt
  <1>8. OfVersionAt(t, v) = {Rank(A, j) : j \in B}
    <2>1. \A j \in A : j \in B <=> /\ rows[j].version # None
                                   /\ Stripped(rows[j].version.text) = v
      BY <1>3 DEF OfVersionAt
    <2>2. ASSUME NEW k \in OfVersionAt(t, v) PROVE \E j \in B : k = Rank(A, j)
      <3>1. k \in 1..Len(t) /\ t[k].version # None /\ Stripped(t[k].version.text) = v
        BY <2>2 DEF OfVersionAt
      <3> HIDE DEF A, B
      <3>2. PICK j \in A : Rank(A, j) = k /\ t[k] = rows[j]
        BY <1>5, <3>1
      <3> QED
        BY <2>1, <3>1, <3>2
    <2>3. ASSUME NEW j \in B PROVE Rank(A, j) \in OfVersionAt(t, v)
      <3> HIDE DEF A, B
      <3>1. Rank(A, j) \in 1..Len(t) /\ t[Rank(A, j)] = rows[j]
        BY <1>5, <1>7
      <3>2. rows[j].version # None /\ Stripped(rows[j].version.text) = v
        BY <1>7, <2>1
      <3> QED
        BY <3>1, <3>2 DEF OfVersionAt
    <2> HIDE DEF A, B
    <2> QED
      BY <2>2, <2>3
  <1>9. OfVersion(t, v) = OfVersion(rows, v)
    <2> HIDE DEF A, B
    <2>1. Taken(t, {Rank(A, j) : j \in B}) = Taken(rows, B)
      BY <1>2, <1>3, <1>7, TakenTwice DEF t
    <2> QED
      BY <1>8, <2>1, OfVersionIs DEF B
  <1>10. VersionRow(t, v) = VersionRow(rows, v)
    BY <1>9 DEF VersionRow, OfVersion
  <1> QED
    BY <1>1, <1>10

LEMMA VersionToolSays ==
  ASSUME NEW fr, IsReviews(fr.rows), NEW insights, NEW call,
         call.tool = "compare_versions", NEW p \in ToolFigures(call, fr, insights)
  PROVE  Says(fr.rows, p)
  <1> DEFINE o == VersionTool(fr, call.versions)
             rows == fr.rows
             own == OfVersions(rows, call.versions)
             chosen(i) == Stripped(own[i].version.text)
  <1>1. \/ p = <<SampleOf(call), o.sample>>
        \/ /\ o.output # None
           /\ \E row \in o.output.table : p = <<<<"version", row.version>>, row>>
    <2>1. /\ Called(call, fr, insights) = o
          /\ \A out : Stated(call, out, insights) =
               {<<<<"version", row.version>>, row>> : row \in out.table}
      BY DEF Called, Stated
    <2> HIDE DEF o
    <2> QED
      BY <2>1, ToldIs
  <1>2. AgentData(fr) = rows
    BY PreparedOnce DEF AgentData
  <1>3. o.sample = Len(own) /\ o.output = VersionAnalysis(own)
    BY <1>2 DEF VersionTool, Output
  <1> HIDE DEF o
  <1>4. CASE p = <<SampleOf(call), o.sample>>
    <2>1. CASE call.versions = {}
      <3>1. SampleOf(call) = <<"total">>
        BY <2>1 DEF SampleOf
      <3>2. own = rows
        BY <2>1 DEF OfVersions
      <3> QED
        BY <1>3, <1>4, <3>1, <3>2, MetricFigures
    <2>2. CASE call.versions # {}
      <3>1. SampleOf(call) = <<"of", call.versions>>
        BY <2>2 DEF SampleOf
      <3> QED
        BY <1>3, <1>4, <3>1, SampleFigures
    <2> QED
      BY <2>1, <2>2
  <1>5. CASE /\ o.output # None
             /\ \E row \in o.output.table : p = <<<<"version", row.version>>, row>>
    <2>1. o.output.table = {VersionRow(own, v) : v \in
            {chosen(i) : i \in {i \in DOMAIN own : own[i].version # None}} \ {""}}
      <3> DEFINE table == {VersionRow(own, v) : v \in
                    {chosen(i) : i \in {i \in DOMAIN own : own[i].version # None}} \ {""}}
                 worse(q, r) == \/ q.ratio > r.ratio
                                \/ q.ratio = r.ratio /\ q.rating < r.rating
      <3>1. VersionAnalysis(own) =
              IF table = {} THEN None
              ELSE [table |-> table, worst |-> {q \in table : \A r \in table : ~worse(r, q)}]
        BY DEF VersionAnalysis
      <3> HIDE DEF table, own, worse
      <3>2. o.output.table = table
        BY <1>3, <1>5, <3>1
      <3> QED
        BY <3>2 DEF table
    <2>2. PICK i \in DOMAIN own :
            /\ own[i].version # None
            /\ LET row == VersionRow(own, chosen(i))
               IN  p = <<<<"version", row.version>>, row>>
      <3> HIDE DEF own
      <3> QED
        BY <1>5, <2>1
    <2> DEFINE v == chosen(i)
    <2>3. VersionRow(own, v).version = v
      BY DEF VersionRow
    <2>4. p = <<<<"version", v>>, VersionRow(own, v)>>
      BY <2>2, <2>3
    <2>5. CASE Padded(rows)
      BY <2>4, <2>5 DEF Says
    <2>6. CASE ~Padded(rows)
      <3>1. VersionRow(own, v) = VersionRow(rows, v)
        <4>1. CASE call.versions = {}
          BY <4>1 DEF OfVersions
        <4>2. CASE call.versions # {}
          BY <2>2, <2>6, <4>2, ChosenVersion
        <4> QED
          BY <4>1, <4>2
      <3> HIDE DEF v
      <3>2. Figure(rows, <<"version", v>>) = VersionRow(rows, v)
        BY DEF Figure
      <3> QED
        BY <2>4, <3>1, <3>2, SaysIs
    <2> QED
      BY <2>5, <2>6
  <1> QED
    BY <1>1, <1>4, <1>5

LEMMA PacketSays ==
  ASSUME NEW rows, rows # <<>>, NEW p \in PacketFigures(rows)
  PROVE  Says(rows, p)
  <1>1. /\ HealthMetrics(rows).rating = AverageRating(rows)
        /\ HealthMetrics(rows).sentiment = AverageSentiment(rows)
    BY DEF HealthMetrics
  <1>2. \/ p = <<<<"total">>, Len(rows)>>
        \/ p = <<<<"rating">>, AverageRating(rows)>>
        \/ p = <<<<"sentiment">>, AverageSentiment(rows)>>
        \/ p = <<<<"stars">>, RatingDistribution(rows)>>
    BY DEF PacketFigures
  <1> QED
    BY <1>1, <1>2, MetricFigures, ListFigures

LEMMA ToolSays ==
  ASSUME NEW fr, IsReviews(fr.rows), NEW insights, NEW call \in ToolCall,
         NEW p \in ToolFigures(call, fr, insights)
  PROVE  Says(fr.rows, p)
  <1>1. /\ call.tool \in ToolName /\ call.top \in Nat
        /\ call.type \in {"negative", "positive", "high_risk", "all"}
    BY ReviewQueriesAssumption
  <1> QED
    BY <1>1, MetricsToolSays, NegativeToolSays, PositiveToolSays, RiskToolSays,
       VersionToolSays, TrendToolSays, PriorityToolSays, RepresentativeSays, ReportSays
       DEF ToolName

-----------------------------------------------------------------------------
(* The packet *)

\* There is a first of some positions.
LEMMA FirstOf ==
  ASSUME NEW n \in Nat, NEW at \in SUBSET (1..n), at # {}
  PROVE  \E i \in at : \A j \in at : i <= j
  <1> DEFINE c == Cardinality(at)
  <1>1. IsFiniteSet(at) /\ c \in Nat
    BY SubsetCount
  <1>2. c # 0
    BY <1>1, FS_EmptySet
  <1>3. 1 \in 1..c
    <2> HIDE DEF c
    <2> QED
      BY <1>1, <1>2
  <1>4. PICK i \in at : Rank(at, i) = 1
    BY <1>3, RankIs
  <1>5. \A j \in at : Rank(at, j) \in 1..c /\ (j < i => Rank(at, j) < Rank(at, i))
    BY RankIs
  <1>6. \A j \in at : ~(j < i)
    <2> HIDE DEF c
    <2> QED
      BY <1>1, <1>4, <1>5
  <1>7. \A j \in at : j \in Nat
    OBVIOUS
  <1> QED
    BY <1>6, <1>7

\* And one of the least values, with none of the same before it.
LEMMA LeastFirst ==
  ASSUME NEW n \in Nat, n # 0, NEW m \in Nat, NEW key \in [1..n -> 0..m]
  PROVE  \E i \in 1..n : \A j \in 1..n : \/ key[i] < key[j]
                                         \/ key[i] = key[j] /\ i <= j
  <1> DEFINE S == {key[i] + 1 : i \in 1..n}
  <1>1. S \in SUBSET (1..(m + 1)) /\ S # {}
    <2>1. key[1] + 1 \in S
      OBVIOUS
    <2>2. \A i \in 1..n : key[i] + 1 \in 1..(m + 1)
      OBVIOUS
    <2> QED
      BY <2>1, <2>2
  <1>2. PICK s \in S : \A t \in S : s <= t
    <2> HIDE DEF S
    <2>1. m + 1 \in Nat
      OBVIOUS
    <2> QED
      BY <1>1, <2>1, FirstOf
  <1> DEFINE at == {i \in 1..n : key[i] + 1 = s}
  <1>3. PICK i \in at : \A j \in at : i <= j
    <2>1. at \in SUBSET (1..n) /\ at # {}
      OBVIOUS
    <2> HIDE DEF at
    <2> QED
      BY <2>1, FirstOf
  <1>4. ASSUME NEW j \in 1..n PROVE key[i] < key[j] \/ (key[i] = key[j] /\ i <= j)
    <2>1. key[i] \in Int /\ key[j] \in Int /\ key[i] + 1 = s /\ s <= key[j] + 1
      BY <1>2
    <2>2. key[i] = key[j] => j \in at
      BY <2>1
    <2> QED
      BY <1>3, <2>1, <2>2
  <1> QED
    BY <1>3, <1>4

LEMMA WorstSorted ==
  ASSUME NEW s, IsReviews(s)
  PROVE  /\ IsList(Sorted(s, WorstFirst)) /\ Len(Sorted(s, WorstFirst)) = Len(s)
         /\ s # <<>> => \E i \in 1..Len(s) :
              /\ Sorted(s, WorstFirst)[1] = s[i]
              /\ \A j \in 1..Len(s) : s[i].rating <= s[j].rating
  <1> DEFINE before(t, i) == {j \in 1..Len(t) : WorstFirst(t[j], t[i])}
             place(t, i) == Cardinality(before(t, i))
             g(t) == [k \in 1..Len(t) |->
                        t[CHOOSE i \in 1..Len(t) : place(t, i) = k - 1]]
             of(t) == SubSeq(g(t), 1, Len(t))
  <1>1. Sorted(s, WorstFirst) = CHOOSE y \in {of(t) : t \in {s}} : TRUE
    BY DEF Sorted, Once
  <1>2. g(s) = [k \in 1..Len(s) |-> g(s)[k]] /\ Len(s) \in Nat /\ IsList(s)
    BY DEF IsReviews, IsList
  <1>3. ASSUME s # <<>>
        PROVE  \E i \in 1..Len(s) :
                 /\ g(s)[1] = s[i] /\ \A j \in 1..Len(s) : s[i].rating <= s[j].rating
    <2> DEFINE n == Len(s)
               key == [i \in 1..n |-> s[i].rating]
    <2>1. n # 0 /\ n \in Nat
      <3>1. Len(s) = 0 => s = <<>>
        BY <1>2 DEF IsList
      <3> QED
        BY <1>2, <1>3, <3>1
    <2>2. \A i \in 1..n : s[i].rating \in 0..50 /\ s[i].rating \in Int
      <3>1. \A i \in 1..n : s[i].rating \in 10..50
        BY DEF IsReviews, IsReview, Kept
      <3>2. \A x \in 10..50 : x \in 0..50 /\ x \in Int
        OBVIOUS
      <3> QED
        BY <3>1, <3>2
    <2>3. key \in [1..n -> 0..50] /\ \A i \in 1..n : key[i] = s[i].rating
      BY <2>2
    <2>4. PICK i \in 1..n : \A j \in 1..n : \/ key[i] < key[j]
                                            \/ key[i] = key[j] /\ i <= j
      <3> HIDE DEF n, key
      <3> QED
        BY <2>1, <2>3, LeastFirst
    <2>5. \A j \in 1..n : ~WorstFirst(s[j], s[i])
      <3>1. \A j, k \in 1..n : j < k => s[j].row < s[k].row
        BY DEF IsReviews
      <3>2. \A j \in 1..n : s[j].row \in Nat
        BY DEF IsReviews, IsReview
      <3> HIDE DEF n, key
      <3>3. \A j \in 1..n : i <= j => ~(s[j].row < s[i].row)
        <4>1. \A j \in 1..n : i <= j => i < j \/ i = j
          BY <2>1
        <4> QED
          BY <3>1, <3>2, <4>1
      <3>4. ASSUME NEW j \in 1..n PROVE ~WorstFirst(s[j], s[i])
        <4>1. /\ s[j].rating \in Int /\ s[i].rating \in Int
              /\ \/ s[i].rating < s[j].rating
                 \/ s[i].rating = s[j].rating /\ ~(s[j].row < s[i].row)
          BY <2>2, <2>3, <2>4, <3>3
        <4> QED
          BY ONLY <4>1 DEF WorstFirst
      <3> QED
        BY <3>4
    <2>6. before(s, i) = {}
      BY <2>5
    <2>7. place(s, i) = 0
      BY <2>6, FS_EmptySet
    <2> DEFINE first == CHOOSE k \in 1..n : place(s, k) = 0
    <2>8. first \in 1..n /\ place(s, first) = 0
      <3> HIDE DEF place
      <3> QED
        BY <2>7
    <2>9. g(s)[1] = s[first]
      <3> HIDE DEF place
      <3>1. 1 \in 1..n /\ 1 - 1 = 0
        BY <2>1
      <3> QED
        BY <3>1
    <2>10. before(s, first) = {}
      <3> DEFINE B == before(s, first)
      <3>1. B \in SUBSET (1..n)
        OBVIOUS
      <3> HIDE DEF B, n, first
      <3>2. IsFiniteSet(B)
        BY <2>1, <3>1, SubsetCount
      <3>3. Cardinality(B) = 0
        BY <2>8 DEF B
      <3> QED
        BY <3>2, <3>3, FS_EmptySet DEF B
    <2>11. \A j \in 1..n : s[first].rating <= s[j].rating
      <3>1. \A j \in 1..n : ~WorstFirst(s[j], s[first])
        BY <2>10
      <3>2. ASSUME NEW j \in 1..n PROVE s[first].rating <= s[j].rating
        <4>1. /\ s[j].rating \in Int /\ s[first].rating \in Int
              /\ ~WorstFirst(s[j], s[first])
          BY <2>2, <2>8, <3>1
        <4> QED
          BY ONLY <4>1 DEF WorstFirst
      <3> QED
        BY <3>2
    <2> HIDE DEF first, g
    <2> QED
      BY <2>8, <2>9, <2>11
  <1> HIDE DEF g
  <1>4. of(s) = g(s) /\ IsList(g(s)) /\ Len(g(s)) = Len(s)
    BY <1>2, ListIs
  <1> HIDE DEF of
  <1>5. Sorted(s, WorstFirst) = g(s)
    BY <1>1, <1>4
  <1> QED
    BY <1>3, <1>4, <1>5

LEMMA BestSorted ==
  ASSUME NEW s, IsReviews(s)
  PROVE  /\ IsList(Sorted(s, BestFirst)) /\ Len(Sorted(s, BestFirst)) = Len(s)
         /\ s # <<>> => \E i \in 1..Len(s) :
              /\ Sorted(s, BestFirst)[1] = s[i]
              /\ \A j \in 1..Len(s) : s[j].rating <= s[i].rating
  <1> DEFINE before(t, i) == {j \in 1..Len(t) : BestFirst(t[j], t[i])}
             place(t, i) == Cardinality(before(t, i))
             g(t) == [k \in 1..Len(t) |->
                        t[CHOOSE i \in 1..Len(t) : place(t, i) = k - 1]]
             of(t) == SubSeq(g(t), 1, Len(t))
  <1>1. Sorted(s, BestFirst) = CHOOSE y \in {of(t) : t \in {s}} : TRUE
    BY DEF Sorted, Once
  <1>2. g(s) = [k \in 1..Len(s) |-> g(s)[k]] /\ Len(s) \in Nat /\ IsList(s)
    BY DEF IsReviews, IsList
  <1>3. ASSUME s # <<>>
        PROVE  \E i \in 1..Len(s) :
                 /\ g(s)[1] = s[i] /\ \A j \in 1..Len(s) : s[j].rating <= s[i].rating
    <2> DEFINE n == Len(s)
               key == [i \in 1..n |-> 50 - s[i].rating]
    <2>1. n # 0 /\ n \in Nat
      <3>1. Len(s) = 0 => s = <<>>
        BY <1>2 DEF IsList
      <3> QED
        BY <1>2, <1>3, <3>1
    <2>2. \A i \in 1..n : 50 - s[i].rating \in 0..50 /\ s[i].rating \in Int
      <3>1. \A i \in 1..n : s[i].rating \in 10..50
        BY DEF IsReviews, IsReview, Kept
      <3>2. \A x \in 10..50 : 50 - x \in 0..50 /\ x \in Int
        OBVIOUS
      <3> QED
        BY <3>1, <3>2
    <2>3. key \in [1..n -> 0..50] /\ \A i \in 1..n : key[i] = 50 - s[i].rating
      BY <2>2
    <2>4. PICK i \in 1..n : \A j \in 1..n : \/ key[i] < key[j]
                                            \/ key[i] = key[j] /\ i <= j
      <3> HIDE DEF n, key
      <3> QED
        BY <2>1, <2>3, LeastFirst
    <2>5. \A j \in 1..n : ~BestFirst(s[j], s[i])
      <3>1. \A j, k \in 1..n : j < k => s[j].row < s[k].row
        BY DEF IsReviews
      <3>2. \A j \in 1..n : s[j].row \in Nat
        BY DEF IsReviews, IsReview
      <3> HIDE DEF n, key
      <3>3. \A j \in 1..n : i <= j => ~(s[j].row < s[i].row)
        <4>1. \A j \in 1..n : i <= j => i < j \/ i = j
          BY <2>1
        <4> QED
          BY <3>1, <3>2, <4>1
      <3>4. ASSUME NEW j \in 1..n PROVE ~BestFirst(s[j], s[i])
        <4>1. /\ s[j].rating \in Int /\ s[i].rating \in Int
              /\ \/ s[j].rating < s[i].rating
                 \/ s[i].rating = s[j].rating /\ ~(s[j].row < s[i].row)
          BY <2>2, <2>3, <2>4, <3>3
        <4> QED
          BY ONLY <4>1 DEF BestFirst
      <3> QED
        BY <3>4
    <2>6. before(s, i) = {}
      BY <2>5
    <2>7. place(s, i) = 0
      BY <2>6, FS_EmptySet
    <2> DEFINE first == CHOOSE k \in 1..n : place(s, k) = 0
    <2>8. first \in 1..n /\ place(s, first) = 0
      <3> HIDE DEF place
      <3> QED
        BY <2>7
    <2>9. g(s)[1] = s[first]
      <3> HIDE DEF place
      <3>1. 1 \in 1..n /\ 1 - 1 = 0
        BY <2>1
      <3> QED
        BY <3>1
    <2>10. before(s, first) = {}
      <3> DEFINE B == before(s, first)
      <3>1. B \in SUBSET (1..n)
        OBVIOUS
      <3> HIDE DEF B, n, first
      <3>2. IsFiniteSet(B)
        BY <2>1, <3>1, SubsetCount
      <3>3. Cardinality(B) = 0
        BY <2>8 DEF B
      <3> QED
        BY <3>2, <3>3, FS_EmptySet DEF B
    <2>11. \A j \in 1..n : s[j].rating <= s[first].rating
      <3>1. \A j \in 1..n : ~BestFirst(s[j], s[first])
        BY <2>10
      <3>2. ASSUME NEW j \in 1..n PROVE s[j].rating <= s[first].rating
        <4>1. /\ s[j].rating \in Int /\ s[first].rating \in Int
              /\ ~BestFirst(s[j], s[first])
          BY <2>2, <2>8, <3>1
        <4> QED
          BY ONLY <4>1 DEF BestFirst
      <3> QED
        BY <3>2
    <2> HIDE DEF first, g
    <2> QED
      BY <2>8, <2>9, <2>11
  <1> HIDE DEF g
  <1>4. of(s) = g(s) /\ IsList(g(s)) /\ Len(g(s)) = Len(s)
    BY <1>2, ListIs
  <1> HIDE DEF of
  <1>5. Sorted(s, BestFirst) = g(s)
    BY <1>1, <1>4
  <1> QED
    BY <1>3, <1>4, <1>5

LEMMA LowestSorted ==
  ASSUME NEW s, IsReviews(s)
  PROVE  /\ IsList(Sorted(s, LowestFirst)) /\ Len(Sorted(s, LowestFirst)) = Len(s)
         /\ s # <<>> => \E i \in 1..Len(s) :
              /\ Sorted(s, LowestFirst)[1] = s[i]
              /\ \A j \in 1..Len(s) : s[i].sentiment <= s[j].sentiment
  <1> DEFINE before(t, i) == {j \in 1..Len(t) : LowestFirst(t[j], t[i])}
             place(t, i) == Cardinality(before(t, i))
             g(t) == [k \in 1..Len(t) |->
                        t[CHOOSE i \in 1..Len(t) : place(t, i) = k - 1]]
             of(t) == SubSeq(g(t), 1, Len(t))
  <1>1. Sorted(s, LowestFirst) = CHOOSE y \in {of(t) : t \in {s}} : TRUE
    BY DEF Sorted, Once
  <1>2. g(s) = [k \in 1..Len(s) |-> g(s)[k]] /\ Len(s) \in Nat /\ IsList(s)
    BY DEF IsReviews, IsList
  <1>3. ASSUME s # <<>>
        PROVE  \E i \in 1..Len(s) :
                 /\ g(s)[1] = s[i] /\ \A j \in 1..Len(s) : s[i].sentiment <= s[j].sentiment
    <2> DEFINE n == Len(s)
               key == [i \in 1..n |-> s[i].sentiment]
    <2>1. n # 0 /\ n \in Nat
      <3>1. Len(s) = 0 => s = <<>>
        BY <1>2 DEF IsList
      <3> QED
        BY <1>2, <1>3, <3>1
    <2>2. \A i \in 1..n : s[i].sentiment \in 0..100 /\ s[i].sentiment \in Int
      <3>1. \A i \in 1..n : s[i].sentiment \in 0..100
        BY DEF IsReviews, IsReview
      <3>2. \A x \in 0..100 : x \in 0..100 /\ x \in Int
        OBVIOUS
      <3> QED
        BY <3>1, <3>2
    <2>3. key \in [1..n -> 0..100] /\ \A i \in 1..n : key[i] = s[i].sentiment
      BY <2>2
    <2>4. PICK i \in 1..n : \A j \in 1..n : \/ key[i] < key[j]
                                            \/ key[i] = key[j] /\ i <= j
      <3> HIDE DEF n, key
      <3> QED
        BY <2>1, <2>3, LeastFirst
    <2>5. \A j \in 1..n : ~LowestFirst(s[j], s[i])
      <3>1. \A j, k \in 1..n : j < k => s[j].row < s[k].row
        BY DEF IsReviews
      <3>2. \A j \in 1..n : s[j].row \in Nat
        BY DEF IsReviews, IsReview
      <3> HIDE DEF n, key
      <3>3. \A j \in 1..n : i <= j => ~(s[j].row < s[i].row)
        <4>1. \A j \in 1..n : i <= j => i < j \/ i = j
          BY <2>1
        <4> QED
          BY <3>1, <3>2, <4>1
      <3>4. ASSUME NEW j \in 1..n PROVE ~LowestFirst(s[j], s[i])
        <4>1. /\ s[j].sentiment \in Int /\ s[i].sentiment \in Int
              /\ \/ s[i].sentiment < s[j].sentiment
                 \/ s[i].sentiment = s[j].sentiment /\ ~(s[j].row < s[i].row)
          BY <2>2, <2>3, <2>4, <3>3
        <4> QED
          BY ONLY <4>1 DEF LowestFirst
      <3> QED
        BY <3>4
    <2>6. before(s, i) = {}
      BY <2>5
    <2>7. place(s, i) = 0
      BY <2>6, FS_EmptySet
    <2> DEFINE first == CHOOSE k \in 1..n : place(s, k) = 0
    <2>8. first \in 1..n /\ place(s, first) = 0
      <3> HIDE DEF place
      <3> QED
        BY <2>7
    <2>9. g(s)[1] = s[first]
      <3> HIDE DEF place
      <3>1. 1 \in 1..n /\ 1 - 1 = 0
        BY <2>1
      <3> QED
        BY <3>1
    <2>10. before(s, first) = {}
      <3> DEFINE B == before(s, first)
      <3>1. B \in SUBSET (1..n)
        OBVIOUS
      <3> HIDE DEF B, n, first
      <3>2. IsFiniteSet(B)
        BY <2>1, <3>1, SubsetCount
      <3>3. Cardinality(B) = 0
        BY <2>8 DEF B
      <3> QED
        BY <3>2, <3>3, FS_EmptySet DEF B
    <2>11. \A j \in 1..n : s[first].sentiment <= s[j].sentiment
      <3>1. \A j \in 1..n : ~LowestFirst(s[j], s[first])
        BY <2>10
      <3>2. ASSUME NEW j \in 1..n PROVE s[first].sentiment <= s[j].sentiment
        <4>1. /\ s[j].sentiment \in Int /\ s[first].sentiment \in Int
              /\ ~LowestFirst(s[j], s[first])
          BY <2>2, <2>8, <3>1
        <4> QED
          BY ONLY <4>1 DEF LowestFirst
      <3> QED
        BY <3>2
    <2> HIDE DEF first, g
    <2> QED
      BY <2>8, <2>9, <2>11
  <1> HIDE DEF g
  <1>4. of(s) = g(s) /\ IsList(g(s)) /\ Len(g(s)) = Len(s)
    BY <1>2, ListIs
  <1> HIDE DEF of
  <1>5. Sorted(s, LowestFirst) = g(s)
    BY <1>1, <1>4
  <1> QED
    BY <1>3, <1>4, <1>5

Joined(s, t) == s \o t

LEMMA ConcatIs ==
  ASSUME NEW s, IsList(s), NEW t, IsList(t)
  PROVE  /\ IsList(Joined(s, t)) /\ Len(Joined(s, t)) = Len(s) + Len(t)
         /\ \A i \in 1..Len(s) : Joined(s, t)[i] = s[i]
         /\ Len(t) # 0 => Joined(s, t)[Len(s) + 1] = t[1]
  <1> DEFINE u == Joined(s, t)
             S == {s[i] : i \in 1..Len(s)} \cup {t[i] : i \in 1..Len(t)}
             m == Len(s)
             n == Len(t)
  <1>1. s \in Seq(S) /\ t \in Seq(S) /\ m \in Nat /\ n \in Nat
    <2>1. s = [i \in 1..m |-> s[i]] /\ t = [i \in 1..n |-> t[i]] /\ m \in Nat /\ n \in Nat
      BY DEF IsList
    <2> QED
      BY ONLY <2>1
  <1> HIDE DEF S
  <1>2. /\ u \in Seq(S) /\ Len(u) = m + n
        /\ \A i \in 1..(m + n) : u[i] = IF i <= m THEN s[i] ELSE t[i - m]
    BY <1>1 DEF Joined
  <1> HIDE DEF u
  <1>3. u = [i \in 1..Len(u) |-> u[i]] /\ m + n \in Nat
    <2>1. \A v \in Seq(S) : v = [i \in 1..Len(v) |-> v[i]]
      OBVIOUS
    <2>2. m + n \in Nat
      <3> HIDE DEF m, n
      <3> QED
        BY <1>1
    <2> QED
      BY <1>2, <2>1, <2>2
  <1>4. IsList(u)
    BY <1>2, <1>3 DEF IsList
  <1>5. \A i \in 1..m : i \in 1..(m + n) /\ i <= m
    <2> HIDE DEF m, n
    <2> QED
      BY <1>1
  <1>6. n # 0 => m + 1 \in 1..(m + n) /\ ~(m + 1 <= m) /\ (m + 1) - m = 1
    <2> HIDE DEF m, n
    <2> QED
      BY <1>1
  <1> QED
    BY <1>2, <1>4, <1>5, <1>6 DEF u

\* Every row stays with the values it had, and none twice.
LEMMA DuplicatesDropped ==
  ASSUME NEW s, IsList(s)
  PROVE  LET d == DropDuplicates(s)
         IN  /\ IsList(d) /\ Len(d) <= Len(s)
             /\ s # <<>> => Len(d) # 0 /\ d[1] = s[1]
             /\ \A k, l \in 1..Len(d) : k # l => Values(d[k]) # Values(d[l])
             /\ \A i \in 1..Len(s) : \E k \in 1..Len(d) : Values(d[k]) = Values(s[i])
  <1> DEFINE n == Len(s)
             first(i) == \A j \in 1..(i-1) : Values(s[j]) # Values(s[i])
             places == [i \in DOMAIN s |-> i]
             of(t) == Taken(t, {k \in 1..Len(t) : first(t[k])})
             at == {i \in 1..n : first(i)}
             kept == Taken(places, at)
             d == [k \in DOMAIN kept |-> s[kept[k]]]
             c == Cardinality(at)
  <1>1. n \in Nat /\ DOMAIN s = 1..n /\ places = [i \in 1..n |-> i]
    BY DEF IsList
  <1>2. Len(places) = n
    <2>1. places = [i \in 1..n |-> places[i]]
      BY <1>1
    <2> HIDE DEF places, n
    <2> QED
      BY <1>1, <2>1, ListIs
  <1>3. {k \in 1..Len(places) : first(places[k])} = at
    <2>1. \A k \in 1..n : places[k] = k
      BY <1>1
    <2> HIDE DEF first, n
    <2> QED
      BY <1>2, <2>1
  <1>4. DropDuplicates(s) = d
    <2> DEFINE some == CHOOSE y \in {of(t) : t \in {places}} : TRUE
    <2>1. DropDuplicates(s) = [k \in DOMAIN some |-> s[some[k]]]
      BY DEF DropDuplicates, Selected, Once
    <2>2. of(places) = kept
      BY <1>3
    <2> HIDE DEF of, kept
    <2>3. some = kept
      BY <2>2
    <2> HIDE DEF some
    <2> QED
      BY <2>1, <2>3
  <1>5. at \in SUBSET (1..n)
    OBVIOUS
  <1>6. c \in Nat /\ c <= n
    <2>1. Cardinality(1..n) = n
      <3> HIDE DEF n
      <3> QED
        BY <1>1, FS_Interval
    <2>2. n \in Nat
      BY <1>1
    <2> HIDE DEF at, n
    <2>3. Cardinality(at) \in Nat /\ Cardinality(at) <= Cardinality(1..n)
      BY ONLY <1>5, <2>2, SubsetCount
    <2> QED
      BY ONLY <2>1, <2>3
  <1>7. /\ IsList(kept) /\ Len(kept) = c
        /\ \A i \in at : Rank(at, i) \in 1..c /\ kept[Rank(at, i)] = i
        /\ \A k \in 1..c : kept[k] \in at
        /\ \A k, l \in 1..c : k < l => kept[k] < kept[l]
    <2>1. Len(places) \in Nat /\ at \in SUBSET (1..Len(places))
      BY <1>1, <1>2, <1>5
    <2>2. \A i \in at : places[i] = i
      BY <1>1
    <2> HIDE DEF places, at, c
    <2>3. /\ IsList(kept) /\ Len(kept) = c
          /\ \A i \in at : kept[Rank(at, i)] = i
          /\ \A k \in 1..c : \E i \in at : kept[k] = i
      BY <2>1, <2>2, TakenIs DEF c
    <2>4. \A i \in at : Rank(at, i) \in 1..c
      BY <1>1, <1>5, RankIs DEF c
    <2>5. \A k, l \in 1..c : k < l => \E i, j \in at : i < j /\ kept[k] = i /\ kept[l] = j
      BY <2>1, <2>2, TakenOrder DEF c
    <2> HIDE DEF kept
    <2> QED
      BY <2>3, <2>4, <2>5
  <1> HIDE DEF places, kept, c
  <1>8. /\ DOMAIN kept = 1..c /\ d = [k \in 1..c |-> d[k]]
        /\ \A k \in 1..c : d[k] = s[kept[k]]
    BY <1>7 DEF IsList
  <1>9. IsList(d) /\ Len(d) = c
    <2> HIDE DEF d
    <2> QED
      BY <1>6, <1>8, ListIs
  <1>10. ASSUME NEW k \in 1..c, NEW l \in 1..c, k < l
         PROVE  Values(s[kept[k]]) # Values(s[kept[l]])
    <2>1. kept[k] \in 1..n /\ first(kept[l]) /\ kept[l] \in 1..n /\ kept[k] < kept[l]
      BY <1>7, <1>10
    <2>2. kept[k] \in 1..(kept[l] - 1)
      <3> HIDE DEF n, first
      <3> QED
        BY <1>1, <2>1
    <2> QED
      BY <2>1, <2>2
  <1>11. ASSUME NEW i \in 1..n
         PROVE  \E j \in at : Values(s[j]) = Values(s[i])
    <2> DEFINE same == {j \in 1..n : Values(s[j]) = Values(s[i])}
    <2>1. same \in SUBSET (1..n) /\ i \in same
      OBVIOUS
    <2>2. PICK j \in same : \A k \in same : j <= k
      <3> HIDE DEF same, n
      <3> QED
        BY <1>1, <2>1, FirstOf
    <2>3. first(j)
      <3>1. ASSUME NEW k \in 1..(j - 1) PROVE Values(s[k]) # Values(s[j])
        <4>1. j \in 1..n /\ Values(s[j]) = Values(s[i])
          BY <2>2
        <4> HIDE DEF n
        <4>2. k \in 1..n /\ ~(j <= k)
          BY <1>1, <4>1
        <4>3. k \notin same
          BY <2>2, <4>2
        <4> QED
          BY <4>1, <4>2, <4>3 DEF n
      <3> QED
        BY <3>1
    <2> HIDE DEF first
    <2> QED
      BY <2>2, <2>3
  <1>12. ASSUME s # <<>> PROVE c # 0 /\ d[1] = s[1]
    <2>1. n # 0
      <3>1. Len(s) = 0 => s = <<>>
        BY DEF IsList
      <3> QED
        BY <1>12, <3>1
    <2>2. first(1) /\ 1 \in at
      <3>1. 1..(1 - 1) = {} /\ 1 \in 1..n
        <4> HIDE DEF n
        <4> QED
          BY <1>1, <2>1
      <3> QED
        BY <3>1
    <2> DEFINE r == Rank(at, 1)
    <2>3. r \in 1..c /\ kept[r] = 1
      BY <1>7, <2>2
    <2> HIDE DEF r, d, at, first
    <2>4. c # 0 /\ 1 \in 1..c
      BY <1>6, <2>3
    <2>5. \A i \in at : ~(i < 1)
      <3> HIDE DEF n
      <3> QED
        BY <1>1 DEF at
    <2>6. ~(1 < r)
      BY <1>7, <2>3, <2>4, <2>5
    <2>7. r = 1
      BY <1>6, <2>3, <2>6
    <2> QED
      BY <1>8, <2>3, <2>4, <2>7
  <1>13. \A k, l \in 1..c : k # l => Values(d[k]) # Values(d[l])
    <2>1. \A k, l \in 1..c : k # l => k < l \/ l < k
      BY <1>6
    <2>2. \A k, l \in 1..c : k < l => Values(d[k]) # Values(d[l])
      <3> HIDE DEF d
      <3> QED
        BY <1>8, <1>10
    <2> HIDE DEF d
    <2> QED
      BY <2>1, <2>2
  <1>14. \A i \in 1..n : \E k \in 1..c : Values(d[k]) = Values(s[i])
    <2> HIDE DEF d, at
    <2> QED
      BY <1>7, <1>8, <1>11
  <1> HIDE DEF d
  <1>15. /\ IsList(d) /\ Len(d) <= Len(s)
         /\ s # <<>> => Len(d) # 0 /\ d[1] = s[1]
         /\ \A k, l \in 1..Len(d) : k # l => Values(d[k]) # Values(d[l])
         /\ \A i \in 1..Len(s) : \E k \in 1..Len(d) : Values(d[k]) = Values(s[i])
    BY <1>6, <1>9, <1>12, <1>13, <1>14
  <1> QED
    BY <1>4, <1>15

\* How many rows each part of the packet has.
LEMMA Shares ==
  ASSUME NEW limit \in Nat \ {0}
  PROVE  LET negative == Most(1, limit \div 2)
             positive == Most(1, limit \div 4)
             mismatch == Most(0, limit - negative - positive)
         IN  /\ negative \in Nat \ {0} /\ positive \in Nat \ {0} /\ mismatch \in Nat
             /\ limit > 1 => negative + positive + mismatch <= limit
             /\ limit > 2 => mismatch # 0
  <1>1. /\ limit \div 2 \in Nat /\ limit \div 4 \in Nat
        /\ 2 * (limit \div 2) <= limit /\ 4 * (limit \div 4) <= limit
    OBVIOUS
  <1> QED
    BY <1>1 DEF Most

LEMMA SameValues ==
  ASSUME NEW r, NEW q, IsReview(r), Values(q) = Values(r)
  PROVE  q.rating = r.rating /\ q.sentiment = r.sentiment
  <1>1. r = [row |-> r.row, rating |-> r.rating, content |-> r.content,
             sentiment |-> r.sentiment, version |-> r.version, day |-> r.day,
             category |-> Classify(r.content), labels |-> Labels(r.rating, r.sentiment)]
    BY DEF IsReview, Labelled
  <1>2. "rating" \in DOMAIN r \ {"row"} /\ "sentiment" \in DOMAIN r \ {"row"}
    BY <1>1
  <1>3. \A x : /\ DOMAIN Values(x) = DOMAIN x \ {"row"}
               /\ \A y \in DOMAIN x \ {"row"} : Values(x)[y] = x[y]
    BY DEF Values
  <1>4. "rating" \in DOMAIN q \ {"row"} /\ "sentiment" \in DOMAIN q \ {"row"}
    BY <1>2, <1>3
  <1>5. Values(q)["rating"] = q["rating"] /\ Values(r)["rating"] = r["rating"]
        /\ Values(q)["sentiment"] = q["sentiment"]
        /\ Values(r)["sentiment"] = r["sentiment"]
    BY <1>2, <1>3, <1>4
  <1> QED
    BY <1>5

Odd(rows) == Selected(rows, IsMismatch)

LEMMA OddIs ==
  ASSUME NEW rows, IsReviews(rows)
  PROVE  /\ IsReviews(Odd(rows)) /\ Len(Odd(rows)) = MismatchCount(rows)
         /\ \A k \in 1..Len(Odd(rows)) : IsMismatch(Odd(rows)[k])
         /\ \A j \in 1..Len(rows) : IsMismatch(rows[j]) =>
              \E k \in 1..Len(Odd(rows)) : Odd(rows)[k] = rows[j]
  <1> DEFINE at(t) == {i \in 1..Len(t) : IsMismatch(t[i])}
             of(t) == Taken(t, at(t))
             A == at(rows)
  <1>1. Odd(rows) = CHOOSE y \in {of(t) : t \in {rows}} : TRUE
    BY DEF Odd, Selected, Once
  <1>2. Len(rows) \in Nat /\ A \in SUBSET (1..Len(rows)) /\ DOMAIN rows = 1..Len(rows)
    BY DEF IsReviews, IsList
  <1>3. MismatchCount(rows) = Cardinality(A)
    BY <1>2 DEF MismatchCount, CountOf
  <1>4. \A j \in 1..Len(rows) : j \in A <=> IsMismatch(rows[j])
    OBVIOUS
  <1>5. of(rows) = Taken(rows, A)
    OBVIOUS
  <1> HIDE DEF of
  <1>6. Odd(rows) = Taken(rows, A)
    BY <1>1, <1>5
  <1> HIDE DEF at
  <1>7. IsReviews(Taken(rows, A)) /\ Len(Taken(rows, A)) = Cardinality(A)
    BY <1>2, TakenReviews, TakenIs
  <1>8. /\ \A j \in A : /\ Rank(A, j) \in 1..Cardinality(A)
                        /\ Taken(rows, A)[Rank(A, j)] = rows[j]
        /\ \A k \in 1..Cardinality(A) : \E j \in A : Taken(rows, A)[k] = rows[j]
    BY <1>2, TakenIs, RankIs
  <1> QED
    BY <1>2, <1>3, <1>4, <1>6, <1>7, <1>8

\* What PacketCovers says, of the reviews of an answer.
LEMMA PacketIs ==
  ASSUME NEW rows, IsReviews(rows), rows # <<>>
  PROVE  LET packet == Packet(rows)
             shown == 1..Len(packet)
             limit == Most(1, PacketSize)
         IN  /\ IsList(packet) /\ Len(packet) \in 1..limit
             /\ \A k, l \in shown : k # l => Values(packet[k]) # Values(packet[l])
             /\ \E k \in shown :
                  /\ packet[k].rating \in 10..50
                  /\ \A j \in 1..Len(rows) : packet[k].rating <= rows[j].rating
             /\ limit > 1 => \E k \in shown :
                  /\ packet[k].rating \in 10..50
                  /\ \A j \in 1..Len(rows) : rows[j].rating <= packet[k].rating
             /\ limit > 2 /\ MismatchCount(rows) # 0 => \E k \in shown :
                  /\ IsMismatch(packet[k])
                  /\ \A j \in 1..Len(rows) :
                       IsMismatch(rows[j]) => packet[k].sentiment <= rows[j].sentiment
  <1> DEFINE limit == Most(1, PacketSize)
             negative == Most(1, limit \div 2)
             positive == Most(1, limit \div 4)
             mismatch == Most(0, limit - negative - positive)
             worst == Sorted(rows, WorstFirst)
             best == Sorted(rows, BestFirst)
             odd == Sorted(Odd(rows), LowestFirst)
             w == Prefix(worst, negative)
             b == Prefix(best, positive)
             o == Prefix(odd, mismatch)
             pools == w \o b \o o
             d == DropDuplicates(pools)
             packet == Prefix(d, limit)
  <1>1. Packet(rows) = packet
    BY DEF Packet, Odd
  <1>2. limit \in Nat \ {0}
    BY ReviewAnalysisAssumption DEF Most
  <1>3. /\ negative \in Nat \ {0} /\ positive \in Nat \ {0} /\ mismatch \in Nat
        /\ limit > 1 => negative + positive + mismatch <= limit
        /\ limit > 2 => mismatch # 0
    <2> HIDE DEF limit
    <2> QED
      BY <1>2, Shares
  <1>4. Len(rows) \in Nat \ {0}
    <2>1. Len(rows) \in Nat /\ (Len(rows) = 0 => rows = <<>>)
      BY DEF IsReviews, IsList
    <2> QED
      BY <2>1
  <1> HIDE DEF limit, negative, positive, mismatch
  <1>5. /\ IsList(worst) /\ Len(worst) = Len(rows)
        /\ \E i \in 1..Len(rows) : /\ worst[1] = rows[i]
                                   /\ \A j \in 1..Len(rows) : rows[i].rating <= rows[j].rating
    BY WorstSorted
  <1>6. /\ IsList(best) /\ Len(best) = Len(rows)
        /\ \E i \in 1..Len(rows) : /\ best[1] = rows[i]
                                   /\ \A j \in 1..Len(rows) : rows[j].rating <= rows[i].rating
    BY BestSorted
  <1>7. /\ IsList(odd) /\ Len(odd) = MismatchCount(rows) /\ MismatchCount(rows) \in Nat
        /\ MismatchCount(rows) # 0 =>
             /\ IsReview(odd[1]) /\ IsMismatch(odd[1])
             /\ \A j \in 1..Len(rows) :
                  IsMismatch(rows[j]) => odd[1].sentiment <= rows[j].sentiment
    <2> DEFINE m == Odd(rows)
    <2>1. /\ IsReviews(m) /\ Len(m) = MismatchCount(rows)
          /\ \A k \in 1..Len(m) : IsMismatch(m[k])
          /\ \A j \in 1..Len(rows) : IsMismatch(rows[j]) => \E k \in 1..Len(m) : m[k] = rows[j]
      BY OddIs
    <2> HIDE DEF m
    <2>2. Len(m) \in Nat /\ (Len(m) # 0 => m # <<>>)
      BY <2>1 DEF IsReviews, IsList
    <2>3. /\ IsList(Sorted(m, LowestFirst)) /\ Len(Sorted(m, LowestFirst)) = Len(m)
          /\ m # <<>> => \E i \in 1..Len(m) :
               /\ Sorted(m, LowestFirst)[1] = m[i]
               /\ \A j \in 1..Len(m) : m[i].sentiment <= m[j].sentiment
      BY <2>1, LowestSorted
    <2>4. odd = Sorted(m, LowestFirst)
      BY DEF m
    <2> HIDE DEF odd
    <2>5. ASSUME Len(m) # 0
          PROVE  /\ IsReview(odd[1]) /\ IsMismatch(odd[1])
                 /\ \A j \in 1..Len(rows) :
                      IsMismatch(rows[j]) => odd[1].sentiment <= rows[j].sentiment
      <3>1. PICK i \in 1..Len(m) : /\ odd[1] = m[i]
                                   /\ \A j \in 1..Len(m) : m[i].sentiment <= m[j].sentiment
        BY <2>2, <2>3, <2>4, <2>5
      <3>2. IsReview(m[i]) /\ IsMismatch(m[i])
        BY <2>1 DEF IsReviews
      <3> QED
        BY <2>1, <3>1, <3>2
    <2> QED
      BY <2>1, <2>2, <2>3, <2>4, <2>5
  <1> HIDE DEF worst, best, odd
  <1>8. /\ IsList(w) /\ Len(w) = Least(negative, Len(rows)) /\ w[1] = worst[1]
        /\ Len(w) \in Nat \ {0} /\ Len(w) <= negative
    <2>1. /\ IsList(w) /\ Len(w) = Least(negative, Len(rows))
          /\ \A k \in 1..Least(negative, Len(rows)) : w[k] = worst[k]
      BY <1>3, <1>5, PrefixIs
    <2>2. Least(negative, Len(rows)) \in Nat \ {0} /\ Least(negative, Len(rows)) <= negative
      BY <1>3, <1>4 DEF Least
    <2> HIDE DEF w
    <2> QED
      BY <2>1, <2>2
  <1>9. /\ IsList(b) /\ Len(b) = Least(positive, Len(rows)) /\ b[1] = best[1]
        /\ Len(b) \in Nat \ {0} /\ Len(b) <= positive
    <2>1. /\ IsList(b) /\ Len(b) = Least(positive, Len(rows))
          /\ \A k \in 1..Least(positive, Len(rows)) : b[k] = best[k]
      BY <1>3, <1>6, PrefixIs
    <2>2. Least(positive, Len(rows)) \in Nat \ {0} /\ Least(positive, Len(rows)) <= positive
      BY <1>3, <1>4 DEF Least
    <2> HIDE DEF b
    <2> QED
      BY <2>1, <2>2
  <1>10. /\ IsList(o) /\ Len(o) \in Nat /\ Len(o) <= mismatch
         /\ mismatch # 0 /\ MismatchCount(rows) # 0 => Len(o) # 0 /\ o[1] = odd[1]
    <2> DEFINE n == Least(mismatch, MismatchCount(rows))
    <2>1. /\ IsList(o) /\ Len(o) = n
          /\ \A k \in 1..n : o[k] = odd[k]
      BY <1>3, <1>7, PrefixIs
    <2>2. /\ n \in Nat /\ n <= mismatch
          /\ mismatch # 0 /\ MismatchCount(rows) # 0 => n # 0
      BY <1>3, <1>7 DEF Least
    <2> HIDE DEF o, n
    <2> QED
      BY <2>1, <2>2
  <1> HIDE DEF w, b, o
  <1>11. /\ IsList(pools) /\ Len(pools) = Len(w) + Len(b) + Len(o)
         /\ pools[1] = w[1] /\ pools[Len(w) + 1] = b[1]
         /\ Len(o) # 0 => pools[Len(w) + Len(b) + 1] = o[1]
    <2> DEFINE v == Joined(w, b)
    <2>1. /\ IsList(v) /\ Len(v) = Len(w) + Len(b)
          /\ v[1] = w[1] /\ v[Len(w) + 1] = b[1]
      <3>1. 1 \in 1..Len(w)
        BY <1>8
      <3>2. /\ IsList(v) /\ Len(v) = Len(w) + Len(b)
            /\ \A i \in 1..Len(w) : v[i] = w[i]
            /\ v[Len(w) + 1] = b[1]
        BY <1>8, <1>9, ConcatIs
      <3> HIDE DEF v
      <3> QED
        BY <3>1, <3>2
    <2>5. pools = Joined(v, o)
      BY DEF Joined
    <2> HIDE DEF v, pools
    <2>2. /\ IsList(pools) /\ Len(pools) = Len(v) + Len(o)
          /\ \A i \in 1..Len(v) : pools[i] = v[i]
          /\ Len(o) # 0 => pools[Len(v) + 1] = o[1]
      BY <1>10, <2>1, <2>5, ConcatIs
    <2>3. 1 \in 1..Len(v) /\ Len(w) + 1 \in 1..Len(v)
      BY <1>8, <1>9, <2>1
    <2> QED
      BY <2>1, <2>2, <2>3
  <1> HIDE DEF pools
  <1>12. /\ IsList(d) /\ Len(d) \in Nat \ {0} /\ Len(d) <= Len(pools) /\ d[1] = pools[1]
         /\ \A k, l \in 1..Len(d) : k # l => Values(d[k]) # Values(d[l])
         /\ \A i \in 1..Len(pools) : \E k \in 1..Len(d) : Values(d[k]) = Values(pools[i])
    <2>1. Len(pools) # 0
      BY <1>8, <1>9, <1>10, <1>11
    <2>2. pools # <<>>
      BY <2>1
    <2> HIDE DEF d
    <2>3. /\ IsList(d) /\ Len(d) <= Len(pools) /\ Len(d) # 0 /\ d[1] = pools[1]
          /\ \A k, l \in 1..Len(d) : k # l => Values(d[k]) # Values(d[l])
          /\ \A i \in 1..Len(pools) : \E k \in 1..Len(d) : Values(d[k]) = Values(pools[i])
      BY <1>11, <2>2, DuplicatesDropped DEF d
    <2> QED
      BY <2>3 DEF IsList
  <1> HIDE DEF d
  <1>13. /\ IsList(packet) /\ Len(packet) = Least(limit, Len(d))
         /\ \A k \in 1..Len(packet) : packet[k] = d[k]
    <2>1. limit \in Nat
      BY <1>2
    <2>2. /\ IsList(packet) /\ Len(packet) = Least(limit, Len(d))
          /\ \A k \in 1..Least(limit, Len(d)) : packet[k] = d[k]
      BY <1>12, <2>1, PrefixIs
    <2> HIDE DEF packet
    <2> QED
      BY <2>2
  <1> HIDE DEF packet
  <1>14. Len(packet) \in 1..limit /\ Len(packet) \in Nat \ {0} /\ Len(packet) <= Len(d)
    BY <1>2, <1>12, <1>13 DEF Least
  <1>15. 1 \in 1..Len(packet) /\ \A k \in 1..Len(packet) : k \in 1..Len(d)
    BY <1>12, <1>14
  <1>16. \A k, l \in 1..Len(packet) : k # l => Values(packet[k]) # Values(packet[l])
    BY <1>12, <1>13, <1>15
  <1>17. \E k \in 1..Len(packet) :
           /\ packet[k].rating \in 10..50
           /\ \A j \in 1..Len(rows) : packet[k].rating <= rows[j].rating
    <2>1. packet[1] = worst[1]
      BY <1>8, <1>11, <1>12, <1>13, <1>15
    <2>2. PICK i \in 1..Len(rows) : /\ worst[1] = rows[i]
                                    /\ \A j \in 1..Len(rows) : rows[i].rating <= rows[j].rating
      BY <1>5
    <2>3. rows[i].rating \in 10..50
      BY DEF IsReviews, IsReview, Kept
    <2> QED
      BY <1>15, <2>1, <2>2, <2>3
  <1>18. limit > 1 => Len(packet) = Len(d)
    <2> SUFFICES ASSUME limit > 1 PROVE Len(d) <= limit
      BY <1>2, <1>12, <1>13 DEF Least
    <2>1. negative + positive + mismatch <= limit
      BY <1>3
    <2>2. Len(w) + Len(b) + Len(o) <= negative + positive + mismatch
      BY <1>3, <1>8, <1>9, <1>10
    <2> QED
      BY <1>2, <1>3, <1>8, <1>9, <1>10, <1>11, <1>12, <2>1, <2>2
  <1>19. ASSUME limit > 1, NEW i \in 1..Len(pools), IsReview(pools[i])
         PROVE  \E k \in 1..Len(packet) : /\ packet[k].rating = pools[i].rating
                                          /\ packet[k].sentiment = pools[i].sentiment
    <2>1. PICK k \in 1..Len(d) : Values(d[k]) = Values(pools[i])
      BY <1>12
    <2>2. k \in 1..Len(packet) /\ packet[k] = d[k]
      BY <1>13, <1>18, <1>19
    <2> QED
      BY <1>19, <2>1, <2>2, SameValues
  <1>20. ASSUME limit > 1
         PROVE  \E k \in 1..Len(packet) :
                  /\ packet[k].rating \in 10..50
                  /\ \A j \in 1..Len(rows) : rows[j].rating <= packet[k].rating
    <2>1. PICK i \in 1..Len(rows) : /\ best[1] = rows[i]
                                    /\ \A j \in 1..Len(rows) : rows[j].rating <= rows[i].rating
      BY <1>6
    <2>2. Len(w) + 1 \in 1..Len(pools)
      BY <1>8, <1>9, <1>10, <1>11
    <2>3. pools[Len(w) + 1] = rows[i] /\ IsReview(rows[i])
      BY <1>9, <1>11, <2>1 DEF IsReviews
    <2>4. \E k \in 1..Len(packet) : packet[k].rating = rows[i].rating
      BY <1>19, <1>20, <2>2, <2>3
    <2>5. rows[i].rating \in 10..50
      BY <2>3 DEF IsReview, Kept
    <2> QED
      BY <2>1, <2>4, <2>5
  <1>21. ASSUME limit > 2, MismatchCount(rows) # 0
         PROVE  \E k \in 1..Len(packet) :
                  /\ IsMismatch(packet[k])
                  /\ \A j \in 1..Len(rows) :
                       IsMismatch(rows[j]) => packet[k].sentiment <= rows[j].sentiment
    <2>1. Len(o) # 0 /\ o[1] = odd[1]
      BY <1>3, <1>10, <1>21
    <2>2. Len(w) + Len(b) + 1 \in 1..Len(pools)
      BY <1>8, <1>9, <1>10, <1>11, <2>1
    <2>3. pools[Len(w) + Len(b) + 1] = odd[1]
      BY <1>11, <2>1
    <2>4. limit > 1
      BY <1>2, <1>21
    <2>5. PICK k \in 1..Len(packet) : /\ packet[k].rating = odd[1].rating
                                      /\ packet[k].sentiment = odd[1].sentiment
      BY <1>7, <1>19, <1>21, <2>2, <2>3, <2>4
    <2>6. IsMismatch(packet[k])
      BY <1>7, <1>21, <2>5 DEF IsMismatch
    <2> QED
      BY <1>7, <1>21, <2>5, <2>6
  <1> QED
    BY <1>1, <1>13, <1>14, <1>16, <1>17, <1>20, <1>21 DEF limit

-----------------------------------------------------------------------------
(* Means, shares and scores on their scales *)

\* A rounded quotient stays between the whole numbers that the quotient does.
OnScale(x, lo, hi) == x \in lo..hi

LEMMA ScaleIs ==
  \A x, lo, hi : lo \in Int /\ hi \in Int /\ OnScale(x, lo, hi) =>
    x \in Int /\ lo <= x /\ x <= hi
  BY DEF OnScale

Between(a, b, lo, hi) ==
  /\ a \in Nat /\ b \in Nat \ {0} /\ lo \in Nat /\ hi \in Nat
  /\ lo * b <= a /\ a <= hi * b

LEMMA RoundedWithin ==
  ASSUME NEW a, NEW b, NEW lo, NEW hi, Between(a, b, lo, hi)
  PROVE  OnScale(Rounded(a, b), lo, hi)
  <1> USE DEF Between, OnScale
  <1> DEFINE q == a \div b
             r == a % b
  <1>1. q \in Nat /\ r \in 0..(b - 1) /\ a = b * q + r
    OBVIOUS
  <1> HIDE DEF q, r
  <1>2. lo <= q
    <2>1. SUFFICES ASSUME q + 1 <= lo PROVE FALSE
      BY <1>1
    <2>2. b * (q + 1) <= b * lo
      BY <1>1, <2>1
    <2> QED
      BY <1>1, <2>2
  <1>3. q <= hi /\ (q = hi => r = 0)
    <2>1. ASSUME hi + 1 <= q PROVE FALSE
      <3>1. b * (hi + 1) <= b * q
        BY <1>1, <2>1
      <3> QED
        BY <1>1, <3>1
    <2> QED
      BY <1>1, <2>1
  <1>4. Rounded(a, b) = IF 2 * r > b \/ (2 * r = b /\ q % 2 = 1) THEN q + 1 ELSE q
    BY DEF Rounded, q, r
  <1>5. q = hi => Rounded(a, b) = q
    BY <1>1, <1>3, <1>4
  <1>6. Rounded(a, b) \in {q, q + 1}
    BY <1>4
  <1> QED
    BY <1>1, <1>2, <1>3, <1>5, <1>6

\* Where an element comes in a total order R of 1..n: how many are before it.
Place(n, R, i) == Cardinality({j \in 1..n : <<j, i>> \in R})

Ordered(n, R) ==
  /\ \A i \in 1..n : <<i, i>> \notin R
  /\ \A i, j \in 1..n : i # j => <<i, j>> \in R \/ <<j, i>> \in R
  /\ \A i, j, k \in 1..n : <<i, j>> \in R /\ <<j, k>> \in R => <<i, k>> \in R

LEMMA PlacesAre ==
  ASSUME NEW n \in Nat, NEW R, Ordered(n, R)
  PROVE  /\ \A i \in 1..n : Place(n, R, i) \in 0..(n - 1)
         /\ \A i, j \in 1..n : <<i, j>> \in R => Place(n, R, i) < Place(n, R, j)
         /\ \A i, j \in 1..n : Place(n, R, i) < Place(n, R, j) => <<i, j>> \in R
         /\ \A i, j \in 1..n : Place(n, R, i) = Place(n, R, j) => i = j
         /\ \A k \in 1..n : \E i \in 1..n : Place(n, R, i) = k - 1
  <1> DEFINE before(i) == {j \in 1..n : <<j, i>> \in R}
             D == 1..n
  <1>0. IsFiniteSet(D) /\ Cardinality(D) = n
    BY FS_Interval
  <1>1. ASSUME NEW i \in 1..n, NEW j \in 1..n, <<i, j>> \in R
        PROVE  Place(n, R, i) < Place(n, R, j)
    <2> DEFINE S == before(i)
               T == before(j)
    <2>1. S \in SUBSET T /\ T \in SUBSET (1..n) /\ i \in T /\ i \notin S
      BY <1>1 DEF Ordered
    <2>2. Place(n, R, i) = Cardinality(S) /\ Place(n, R, j) = Cardinality(T)
      BY DEF Place
    <2> HIDE DEF S, T
    <2>3. /\ Cardinality(S) \in Nat /\ Cardinality(T) \in Nat
          /\ Cardinality(S) <= Cardinality(T) /\ Cardinality(S) # Cardinality(T)
      BY <2>1, SubsetCount
    <2> QED
      BY <2>2, <2>3
  <1>2. ASSUME NEW i \in 1..n PROVE Place(n, R, i) \in 0..(n - 1)
    <2> DEFINE S == before(i)
               T == 1..n
    <2>1. S \in SUBSET T /\ i \in T /\ i \notin S
      BY DEF Ordered
    <2>2. Place(n, R, i) = Cardinality(S)
      BY DEF Place
    <2>3. Cardinality(T) = n /\ T \in SUBSET (1..n)
      BY FS_Interval
    <2> HIDE DEF S, T
    <2>4. /\ Cardinality(S) \in Nat /\ Cardinality(S) <= n /\ Cardinality(S) # n
      BY <2>1, <2>3, SubsetCount
    <2> QED
      BY <2>2, <2>4
  <1> DEFINE p(i) == Place(n, R, i)
  <1>3. \A i, j \in 1..n : i # j => <<i, j>> \in R \/ <<j, i>> \in R
    BY DEF Ordered
  <1> HIDE DEF D
  <1>4. \A i \in 1..n : p(i) \in Int
    BY <1>2
  <1>5. \A i, j \in 1..n : <<i, j>> \in R => p(i) < p(j)
    BY <1>1
  <1> HIDE DEF p
  <1>6. \A i, j \in 1..n : p(i) = p(j) => i = j
    <2> SUFFICES ASSUME NEW i \in 1..n, NEW j \in 1..n, p(i) = p(j), i # j PROVE FALSE
      OBVIOUS
    <2>1. p(i) < p(j) \/ p(j) < p(i)
      BY <1>3, <1>5
    <2> QED
      BY <1>4, <2>1
  <1>7. \A i, j \in 1..n : p(i) < p(j) => <<i, j>> \in R
    <2> SUFFICES ASSUME NEW i \in 1..n, NEW j \in 1..n, p(i) < p(j), <<i, j>> \notin R
                 PROVE  FALSE
      OBVIOUS
    <2>1. p(i) \in Int /\ p(j) \in Int
      BY <1>4
    <2>2. i # j
      BY <2>1
    <2>3. p(j) < p(i)
      BY <1>3, <1>5, <2>2
    <2> QED
      BY <2>1, <2>3
  <1>8. \A k \in 1..n : \E i \in 1..n : p(i) = k - 1
    <2> DEFINE f == [i \in D |-> p(i) + 1]
    <2>1. \A i \in 1..n : p(i) + 1 \in 1..n
      <3>1. \A i \in 1..n : p(i) \in 0..(n - 1)
        BY <1>2 DEF p
      <3> QED
        BY <3>1
    <2>2. f \in [D -> D] /\ \A i, j \in D : f[i] = f[j] => i = j
      <3>1. \A i, j \in D : p(i) + 1 = p(j) + 1 => p(i) = p(j)
        BY <1>4 DEF D
      <3>2. f \in [D -> D]
        BY <2>1 DEF D
      <3> QED
        BY <1>6, <3>1, <3>2 DEF D
    <2>3. f \in Injection(D, D)
      <3> HIDE DEF f
      <3> QED
        BY <2>2 DEF Injection, IsInjective
    <2>4. f \in Surjection(D, D)
      <3> HIDE DEF f
      <3>1. Cardinality(D) = Cardinality(D) <=> f \in Surjection(D, D)
        BY <1>0, <2>3, FS_Injection, Zenon
      <3> QED
        BY <3>1
    <2>5. \A k \in D : \E i \in D : f[i] = k
      <3> HIDE DEF f
      <3> QED
        BY <2>4 DEF Surjection
    <2>6. \A k \in D : \E i \in D : p(i) + 1 = k
      BY <2>5
    <2>7. ASSUME NEW k \in 1..n PROVE \E i \in 1..n : p(i) = k - 1
      <3>1. PICK i \in 1..n : p(i) + 1 = k
        BY <2>6 DEF D
      <3>2. p(i) \in Int
        BY <1>4
      <3> QED
        BY <3>1, <3>2
    <2> QED
      BY <2>7
  <1> QED
    BY <1>2, <1>1, <1>6, <1>7, <1>8 DEF p

InCategory(s, c) == Selected(s, LAMBDA r : r.category = c)
CategoryAt(s, c) == {i \in 1..Len(s) : s[i].category = c}

LEMMA InCategoryIs ==
  ASSUME NEW s, NEW c PROVE InCategory(s, c) = Taken(s, CategoryAt(s, c))
  <1> DEFINE of(t) == Taken(t, CategoryAt(t, c))
  <1>1. InCategory(s, c) = CHOOSE y \in {of(t) : t \in {s}} : TRUE
    BY DEF InCategory, Selected, Once, CategoryAt
  <1> HIDE DEF of
  <1>2. InCategory(s, c) = of(s)
    BY <1>1
  <1> QED
    BY <1>2 DEF of

LEMMA SumsWithin ==
  ASSUME NEW rows, IsReviews(rows)
  PROVE  /\ RatingSum(rows) \in (10 * Len(rows))..(50 * Len(rows))
         /\ SentimentSum(rows) \in 0..(100 * Len(rows))
  <1> DEFINE n == Len(rows)
             D == 1..n
             ratings == [i \in D |-> rows[i].rating]
             sentiments == [i \in D |-> rows[i].sentiment]
  <1>1. n \in Nat /\ DOMAIN rows = D
    BY DEF IsReviews, IsList
  <1>2. \A i \in D : rows[i].rating \in 10..50 /\ rows[i].sentiment \in 0..100
    BY DEF IsReviews, IsReview, Kept
  <1>3. /\ DOMAIN ratings = D /\ DOMAIN sentiments = D
        /\ \A i \in D : ratings[i] \in 10..50 /\ sentiments[i] \in 0..100
    BY <1>2
  <1>4. /\ RatingSum(rows) = Total(ratings, D)
        /\ SentimentSum(rows) = Total(sentiments, D)
    <2>1. /\ RatingSum(rows) = Sets!SumFunction(ratings)
          /\ SentimentSum(rows) = Sets!SumFunction(sentiments)
      BY <1>1 DEF RatingSum, SentimentSum
    <2>2. \A f : Sets!SumFunction(f) = Total(f, DOMAIN f)
      BY DEF Sets!SumFunction, Total, Sets!SumFunctionOnSet, Sets!FoldFunction
    <2> HIDE DEF ratings, sentiments
    <2> QED
      BY <1>3, <2>1, <2>2
  <1>5. IsFiniteSet(D) /\ Cardinality(D) = n
    <2> HIDE DEF n
    <2> QED
      BY <1>1, FS_Interval
  <1> HIDE DEF D, ratings, sentiments
  <1>6. Total(ratings, D) \in (10 * Cardinality(D))..(50 * Cardinality(D))
    <2>1. 10 \in Int /\ 50 \in Int /\ \A i \in D : ratings[i] \in 10..50
      BY <1>3
    <2> QED
      BY <1>5, <2>1, TotalBetween, Zenon
  <1>7. Total(sentiments, D) \in (0 * Cardinality(D))..(100 * Cardinality(D))
    <2>1. 0 \in Int /\ 100 \in Int /\ \A i \in D : sentiments[i] \in 0..100
      BY <1>3
    <2> QED
      BY <1>5, <2>1, TotalBetween, Zenon
  <1>8. 0 * n = 0
    BY <1>1
  <1> QED
    BY <1>4, <1>5, <1>6, <1>7, <1>8

\* Rows that pass a test are as many as their number at most.
LEMMA CountsWithin ==
  ASSUME NEW rows, IsReviews(rows)
  PROVE  /\ Len(rows) \in Nat /\ (rows # <<>> => Len(rows) # 0)
         /\ BadCount(rows) \in 0..Len(rows) /\ RiskCount(rows) \in 0..Len(rows)
  <1>1. Len(rows) \in Nat /\ DOMAIN rows = 1..Len(rows) /\ IsList(rows)
    BY DEF IsReviews, IsList
  <1>2. Len(rows) = 0 => rows = <<>>
    BY <1>1 DEF IsList
  <1> DEFINE D == 1..Len(rows)
             B == {i \in D : IsNegative(rows[i])}
             R == {i \in D : IsHighRisk(rows[i])}
  <1>3. BadCount(rows) = Cardinality(B) /\ RiskCount(rows) = Cardinality(R)
    BY <1>1 DEF BadCount, RiskCount, CountOf
  <1>4. IsFiniteSet(D) /\ Cardinality(D) = Len(rows)
    <2> DEFINE n == Len(rows)
    <2>1. n \in Nat
      BY <1>1
    <2> HIDE DEF n
    <2>2. IsFiniteSet(1..n) /\ Cardinality(1..n) = n
      BY <2>1, FS_Interval
    <2> QED
      BY <2>2 DEF n
  <1>5. B \in SUBSET D /\ R \in SUBSET D
    OBVIOUS
  <1> HIDE DEF D, B, R
  <1>6. /\ Cardinality(B) \in Nat /\ Cardinality(B) <= Len(rows)
        /\ Cardinality(R) \in Nat /\ Cardinality(R) <= Len(rows)
    BY <1>4, <1>5, FS_Subset, FS_CardinalityType
  <1> QED
    BY <1>1, <1>2, <1>3, <1>6

\* Means and shares of some reviews are on their scales.
LEMMA MeansWithin ==
  ASSUME NEW rows, IsReviews(rows), rows # <<>>
  PROVE  /\ OnScale(AverageRating(rows), 100, 500)
         /\ OnScale(AverageSentiment(rows), 0, 10000)
         /\ OnScale(Ratio(BadCount(rows), rows), 0, 10000)
  <1> DEFINE n == Len(rows)
             r == RatingSum(rows)
             s == SentimentSum(rows)
             b == BadCount(rows)
             x == 10 * r
             y == 100 * s
             z == 10000 * b
  <1>1. n \in Nat \ {0} /\ b \in 0..n /\ r \in (10 * n)..(50 * n) /\ s \in 0..(100 * n)
    BY SumsWithin, CountsWithin
  <1>2. /\ AverageRating(rows) = Rounded(x, n)
        /\ AverageSentiment(rows) = Rounded(y, n)
        /\ Ratio(b, rows) = Rounded(z, n)
    BY DEF AverageRating, AverageSentiment, Ratio
  <1> HIDE DEF n, r, s, b
  <1>3. /\ Between(x, n, 100, 500)
        /\ Between(y, n, 0, 10000)
        /\ Between(z, n, 0, 10000)
    BY <1>1 DEF Between
  <1> HIDE DEF x, y, z
  <1>4. /\ OnScale(Rounded(x, n), 100, 500)
        /\ OnScale(Rounded(y, n), 0, 10000)
        /\ OnScale(Rounded(z, n), 0, 10000)
    BY ONLY <1>3, RoundedWithin
  <1> QED
    BY <1>2, <1>4 DEF b

LEMMA AdviceWithin ==
  ASSUME NEW insights, NEW c
  PROVE  CategoryAdvice(insights, c).score \in 25..100
  <1>1. \A severity : SeverityScore(severity) \in 25..100
    BY DEF SeverityScore
  <1> DEFINE points == IF insights = None THEN <<>> ELSE insights.painPoints
             score(i) == SeverityScore(points[i].severity)
             own == {i \in DOMAIN points : Classify(points[i].words) = c}
             i == CHOOSE i \in own : \A j \in own :
                    score(j) < score(i) \/ (score(j) = score(i) /\ i <= j)
  <1>2. CategoryAdvice(insights, c) =
          IF own = {} THEN [score |-> 50, suggestion |-> None]
          ELSE [score |-> score(i), suggestion |-> points[i].suggestion]
    BY DEF CategoryAdvice
  <1>3. score(i) \in 25..100
    BY <1>1
  <1> HIDE DEF own, score, i
  <1> QED
    BY <1>2, <1>3

\* The parts of a score are within their weights, without being cut to them.
LEMMA ScaledWithin ==
  ASSUME NEW group, IsReviews(group), group # <<>>, NEW advice,
         advice.score \in 25..100, NEW N \in Nat \ {0}, BadCount(group) <= N
  PROVE  LET unit == 20 * Len(group) * N
         IN  unit \in Nat \ {0} /\ ScaledScore(group, advice, N) \in 0..(100 * unit)
  <1> DEFINE n == Len(group)
             b == BadCount(group)
             k == RiskCount(group)
             r == RatingSum(group)
             s == SentimentSum(group)
             a == advice.score
             rest == 1000 * n - 5 * s - 10 * r + 3 * n * a + 100 * k
  <1>1. /\ n \in Nat \ {0} /\ b \in Nat /\ b <= n /\ b <= N
        /\ k \in 0..n /\ r \in (10 * n)..(50 * n) /\ s \in 0..(100 * n) /\ a \in 25..100
    BY SumsWithin, CountsWithin
  <1>2. ScaledScore(group, advice, N) = 700 * b * n + N * rest
    BY DEF ScaledScore, BadCount, RiskCount
  <1> HIDE DEF n, b, k, r, s, a
  <1>3. rest \in 0..(1300 * n)
    <2>1. n * a \in (25 * n)..(100 * n)
      <3>1. n * a = n * a /\ n * 25 <= n * a /\ n * a <= n * 100
        BY <1>1
      <3> QED
        BY <1>1, <3>1
    <2> DEFINE x == n * a
    <2>2. 3 * n * a = 3 * x
      BY <1>1
    <2> HIDE DEF x
    <2>3. 1000 * n - 5 * s - 10 * r + 3 * x + 100 * k \in 0..(1300 * n)
      BY <1>1, <2>1 DEF x
    <2> QED
      BY <2>2, <2>3
  <1> HIDE DEF rest
  <1>4. N * rest \in 0..(1300 * (N * n))
    <2>1. N * 0 <= N * rest /\ N * rest <= N * (1300 * n)
      BY <1>1, <1>3
    <2>2. N * (1300 * n) = 1300 * (N * n) /\ N * rest \in Int
      BY <1>1, <1>3
    <2> QED
      BY <1>1, <2>1, <2>2
  <1>5. 700 * b * n \in 0..(700 * (N * n))
    <2>1. 0 <= b * n /\ b * n <= N * n /\ b * n \in Int /\ N * n \in Int
      BY <1>1
    <2>2. 700 * b * n = 700 * (b * n)
      BY <1>1
    <2> QED
      BY <2>1, <2>2
  <1>6. 20 * n * N \in Nat \ {0} /\ 100 * (20 * n * N) = 2000 * (N * n) /\ N * n \in Nat
    <2>1. N * n \in Nat \ {0} /\ 20 * n * N = 20 * (N * n)
      BY <1>1
    <2> QED
      BY <2>1
  <1>7. 700 * b * n + N * rest \in 0..(2000 * (N * n))
    <2> DEFINE x == 700 * b * n
               y == N * rest
               z == N * n
    <2>1. x \in 0..(700 * z) /\ y \in 0..(1300 * z) /\ z \in Nat
      BY <1>4, <1>5, <1>6
    <2> HIDE DEF x, y, z
    <2>2. x + y \in 0..(2000 * z)
      BY <2>1
    <2> QED
      BY <2>2 DEF x, y, z
  <1> QED
    BY <1>2, <1>6, <1>7 DEF n

\* A score where the severity says that it is.
InBand(score, severity) ==
  CASE severity = "high" -> OnScale(score, 7500, 10000)
    [] severity = "medium" -> OnScale(score, 4500, 7500)
    [] severity = "low" -> OnScale(score, 0, 4500)

IsScaled(scaled, unit) == unit \in Nat \ {0} /\ scaled \in 0..(100 * unit)
ScoreOf(scaled, unit) == Rounded(100 * scaled, unit)

LEMMA ScoreInBand ==
  ASSUME NEW scaled, NEW unit, IsScaled(scaled, unit)
  PROVE  /\ OnScale(ScoreOf(scaled, unit), 0, 10000)
         /\ InBand(ScoreOf(scaled, unit), SeverityLabel(scaled, unit))
  <1> USE DEF IsScaled
  <1> DEFINE a == 100 * scaled
  <1>1. SeverityLabel(scaled, unit) =
          IF scaled >= 75 * unit THEN "high"
          ELSE IF scaled >= 45 * unit THEN "medium" ELSE "low"
    BY DEF SeverityLabel
  <1>2. /\ Between(a, unit, 0, 10000)
        /\ scaled >= 75 * unit => Between(a, unit, 7500, 10000)
        /\ scaled >= 45 * unit /\ ~(scaled >= 75 * unit) => Between(a, unit, 4500, 7500)
        /\ ~(scaled >= 45 * unit) => Between(a, unit, 0, 4500)
    BY DEF Between
  <1>3. scaled >= 75 * unit => scaled >= 45 * unit
    OBVIOUS
  <1> DEFINE high == scaled >= 75 * unit
             medium == scaled >= 45 * unit
             score == Rounded(a, unit)
  <1>4. /\ Between(a, unit, 0, 10000)
        /\ high => Between(a, unit, 7500, 10000)
        /\ medium /\ ~high => Between(a, unit, 4500, 7500)
        /\ ~medium => Between(a, unit, 0, 4500)
        /\ high => medium
        /\ SeverityLabel(scaled, unit) =
             IF high THEN "high" ELSE IF medium THEN "medium" ELSE "low"
    BY <1>1, <1>2, <1>3
  <1> HIDE DEF a, high, medium
  <1>5. OnScale(score, 0, 10000)
    BY ONLY <1>4, RoundedWithin
  <1>6. high => OnScale(score, 7500, 10000)
    BY ONLY <1>4, RoundedWithin
  <1>7. medium /\ ~high => OnScale(score, 4500, 7500)
    BY ONLY <1>4, RoundedWithin
  <1>8. ~medium => OnScale(score, 0, 4500)
    BY ONLY <1>4, RoundedWithin
  <1> HIDE DEF score
  <1>9. InBand(score, SeverityLabel(scaled, unit))
    <2>1. CASE high
      <3>1. SeverityLabel(scaled, unit) = "high"
        BY <1>4, <2>1
      <3> QED
        BY <1>6, <2>1, <3>1 DEF InBand
    <2>2. CASE ~high /\ medium
      <3>1. SeverityLabel(scaled, unit) = "medium"
        BY <1>4, <2>2
      <3> QED
        BY <1>7, <2>2, <3>1 DEF InBand
    <2>3. CASE ~medium
      <3>1. SeverityLabel(scaled, unit) = "low"
        BY <1>4, <2>3
      <3> QED
        BY <1>8, <2>3, <3>1 DEF InBand
    <2> QED
      BY <2>1, <2>2, <2>3
  <1> QED
    BY <1>5, <1>9 DEF score, a, ScoreOf

\* The negative reviews of a part are some of all negative ones.
LEMMA BadOfPart ==
  ASSUME NEW rows, IsReviews(rows), NEW A \in SUBSET (1..Len(rows))
  PROVE  BadCount(Taken(rows, A)) <= BadCount(rows)
  <1> DEFINE t == Taken(rows, A)
             B == {i \in A : IsNegative(rows[i])}
             C == {i \in 1..Len(rows) : IsNegative(rows[i])}
             ranks == {Rank(A, i) : i \in B}
  <1>1. Len(rows) \in Nat /\ DOMAIN rows = 1..Len(rows)
    BY DEF IsReviews, IsList
  <1>2. /\ IsList(t) /\ Len(t) = Cardinality(A)
        /\ \A i \in A : t[Rank(A, i)] = rows[i]
        /\ \A k \in 1..Cardinality(A) : \E i \in A : Rank(A, i) = k /\ t[k] = rows[i]
    BY <1>1, TakenIs
  <1>3. \A i \in A : Rank(A, i) \in 1..Cardinality(A)
    BY <1>1, RankIs
  <1> HIDE DEF t
  <1>4. {k \in DOMAIN t : IsNegative(t[k])} = ranks
    <2>1. DOMAIN t = 1..Cardinality(A)
      BY <1>2 DEF IsList
    <2>2. ASSUME NEW k \in DOMAIN t, IsNegative(t[k]) PROVE k \in ranks
      <3>1. PICK i \in A : Rank(A, i) = k /\ t[k] = rows[i]
        BY <1>2, <2>1
      <3> QED
        BY <2>2, <3>1
    <2>3. ASSUME NEW i \in B PROVE Rank(A, i) \in DOMAIN t /\ IsNegative(t[Rank(A, i)])
      BY <1>2, <1>3, <2>1
    <2> QED
      BY <2>2, <2>3
  <1>5. Cardinality(ranks) = Cardinality(B)
    BY <1>1, RanksOf
  <1>6. B \in SUBSET C /\ C \in SUBSET (1..Len(rows))
    OBVIOUS
  <1>7. BadCount(t) = Cardinality(ranks)
    BY <1>4 DEF BadCount, CountOf
  <1>8. BadCount(rows) = Cardinality(C)
    BY <1>1 DEF BadCount, CountOf
  <1> HIDE DEF B, C, ranks
  <1>9. Cardinality(B) <= Cardinality(C)
    BY <1>1, <1>6, SubsetCount
  <1> QED
    BY <1>5, <1>7, <1>8, <1>9 DEF t

IsPriorityRow(rows, c, p) ==
  /\ p.category = c
  /\ p.reviews = Cardinality(CategoryAt(rows, c)) /\ p.reviews \in 1..Len(rows)
  /\ OnScale(p.rating, 100, 500) /\ OnScale(p.sentiment, 0, 10000)
  /\ OnScale(p.score, 0, 10000) /\ InBand(p.score, p.severity)
  /\ p.severity \in {"high", "medium", "low"}

\* The row of a category that a review has.
LEMMA PriorityRowIs ==
  ASSUME NEW rows, IsReviews(rows), NEW insights, NEW i \in 1..Len(rows)
  PROVE  IsPriorityRow(rows, rows[i].category,
                       PriorityRow(rows, insights, rows[i].category))
  <1> DEFINE c == rows[i].category
             group == InCategory(rows, c)
             at == CategoryAt(rows, c)
             N == Most(CountOf(rows, IsNegative), 1)
             advice == CategoryAdvice(insights, c)
             scaled == ScaledScore(group, advice, N)
             unit == 20 * Len(group) * N
             p == PriorityRow(rows, insights, c)
  <1>1. /\ p.category = c /\ p.reviews = Len(group)
        /\ p.rating = AverageRating(group) /\ p.sentiment = AverageSentiment(group)
        /\ p.score = ScoreOf(scaled, unit)
        /\ p.severity = SeverityLabel(scaled, unit)
    BY DEF PriorityRow, InCategory, ScoreOf
  <1>2. Len(rows) \in Nat /\ at \in SUBSET (1..Len(rows)) /\ i \in at
    BY DEF IsReviews, IsList, CategoryAt
  <1>3. group = Taken(rows, at) /\ IsReviews(group) /\ Len(group) = Cardinality(at)
    BY <1>2, InCategoryIs, TakenReviews, TakenIs
  <1>4. Cardinality(at) \in 1..Len(rows)
    <2> HIDE DEF at
    <2> DEFINE S == {i}
               D == 1..Len(rows)
               n == Len(rows)
    <2>1. S \in SUBSET at /\ at \in SUBSET D /\ D \in SUBSET D /\ Cardinality(S) = 1
      BY <1>2, FS_Singleton
    <2>2. Cardinality(D) = n
      <3>1. n \in Nat /\ D = 1..n
        BY <1>2
      <3> HIDE DEF n, D
      <3> QED
        BY <3>1, FS_Interval
    <2>3. n \in Nat
      BY <1>2
    <2> HIDE DEF S, n
    <2>4. Cardinality(S) <= Cardinality(at) /\ Cardinality(at) <= Cardinality(D)
          /\ Cardinality(at) \in Nat
      BY <1>2, <2>1, SubsetCount
    <2> QED
      BY <2>1, <2>2, <2>3, <2>4 DEF n
  <1>5. group # <<>>
    BY <1>3, <1>4
  <1>6. N \in Nat \ {0} /\ BadCount(group) <= N
    <2>1. BadCount(rows) \in Nat /\ BadCount(group) \in Nat
          /\ BadCount(group) <= BadCount(rows)
      <3>1. BadCount(rows) \in 0..Len(rows) /\ Len(rows) \in Nat
        BY CountsWithin
      <3>2. BadCount(group) \in 0..Len(group) /\ Len(group) \in Nat
        BY <1>3, CountsWithin
      <3>3. BadCount(group) <= BadCount(rows)
        BY <1>2, <1>3, BadOfPart
      <3> QED
        BY <3>1, <3>2, <3>3
    <2>2. N = Most(BadCount(rows), 1)
      BY DEF BadCount
    <2> HIDE DEF N, group
    <2> QED
      BY <2>1, <2>2 DEF Most
  <1>7. unit \in Nat \ {0} /\ scaled \in 0..(100 * unit)
    <2>1. advice.score \in 25..100
      BY AdviceWithin
    <2> HIDE DEF N, group, advice
    <2> QED
      BY <1>3, <1>5, <1>6, <2>1, ScaledWithin
  <1>8. OnScale(AverageRating(group), 100, 500) /\ OnScale(AverageSentiment(group), 0, 10000)
    BY <1>3, <1>5, MeansWithin
  <1> HIDE DEF group, at, N, advice, scaled, unit, p, c
  <1>9. OnScale(p.score, 0, 10000) /\ InBand(p.score, p.severity)
    <2>1. /\ OnScale(ScoreOf(scaled, unit), 0, 10000)
          /\ InBand(ScoreOf(scaled, unit), SeverityLabel(scaled, unit))
      BY <1>7, ScoreInBand DEF IsScaled
    <2> QED
      BY <1>1, <2>1
  <1>10. p.reviews = Cardinality(at) /\ p.severity \in {"high", "medium", "low"}
    BY <1>1, <1>3 DEF SeverityLabel
  <1> QED
    <2>1. IsPriorityRow(rows, c, p)
      BY <1>1, <1>4, <1>8, <1>9, <1>10 DEF at, IsPriorityRow
    <2> QED
      BY <2>1 DEF p, c

-----------------------------------------------------------------------------
(* The groups in the order of their scores *)

\* Every review is of one group, and no two groups are the same.
LEMMA GroupOrderIs ==
  /\ Len(GroupOrder) \in Nat /\ DOMAIN GroupOrder = 1..Len(GroupOrder)
  /\ \A i, j \in 1..Len(GroupOrder) : i # j => GroupOrder[i] # GroupOrder[j]
  /\ \A content : \E i \in 1..Len(GroupOrder) : GroupOrder[i] = Classify(content)
  <1> DEFINE n == Len(Category)
             m == Len(GroupOrder)
  <1>1. Category \in Seq(STRING \ {"other"}) /\ n \in Nat
    BY ReviewDataAssumption
  <1>2. /\ m \in Nat /\ DOMAIN GroupOrder = 1..m
        /\ \A i, j \in 1..m : i # j => GroupOrder[i] # GroupOrder[j]
        /\ {GroupOrder[i] : i \in 1..m} = {"other"} \cup {Category[i] : i \in 1..n}
    <2>1. GroupOrder \in Seq(STRING)
      BY ReviewAnalysisAssumption
    <2>2. m \in Nat /\ DOMAIN GroupOrder = 1..m
      BY ONLY <2>1
    <2>3. /\ \A i, j \in 1..m : i # j => GroupOrder[i] # GroupOrder[j]
          /\ {GroupOrder[i] : i \in 1..m}
               = {"other"} \cup {Category[i] : i \in 1..n}
      BY ONLY ReviewAnalysisAssumption, Zenon DEF m, n
    <2> QED
      BY ONLY <2>2, <2>3
  <1> HIDE DEF n, m
  <1>3. \A c \in {"other"} \cup {Category[i] : i \in 1..n} :
          \E i \in 1..m : GroupOrder[i] = c
    BY <1>2
  <1>4. ASSUME NEW content
        PROVE  \E i \in 1..m : GroupOrder[i] = Classify(content)
    <2> DEFINE hit == {i \in 1..n : Keywords[Category[i]] \cap content # {}}
               first == CHOOSE i \in hit : \A j \in hit : i <= j
    <2>1. Classify(content) = IF hit = {} THEN "other" ELSE Category[first]
      BY DEF Classify, n
    <2>2. CASE hit = {}
      BY <1>3, <2>1, <2>2
    <2>3. CASE hit # {}
      <3>1. hit \in SUBSET (1..n)
        OBVIOUS
      <3>2. \E i \in hit : \A j \in hit : i <= j
        <4> HIDE DEF hit
        <4> QED
          BY <1>1, <2>3, <3>1, FirstOf
      <3>3. first \in 1..n
        <4> HIDE DEF hit
        <4> QED
          BY <3>1, <3>2
      <3> HIDE DEF hit, first
      <3> QED
        BY <1>3, <2>1, <2>3, <3>3
    <2> QED
      BY <2>2, <2>3
  <1> QED
    BY <1>2, <1>4 DEF m

\* The groups of some reviews: those that they have, in their order.
LEMMA GroupsOf ==
  ASSUME NEW rows, IsReviews(rows)
  PROVE  LET G == Groups(rows)
         IN  /\ Len(G) \in Nat /\ Len(G) <= Len(GroupOrder)
             /\ \A k \in 1..Len(G) : \E i \in 1..Len(rows) : rows[i].category = G[k]
             /\ \A k \in 1..Len(G) : \E i \in 1..Len(GroupOrder) : G[k] = GroupOrder[i]
             /\ \A i \in 1..Len(rows) : \E k \in 1..Len(G) : rows[i].category = G[k]
             /\ \A k, l \in 1..Len(G) : k # l => G[k] # G[l]
  <1> DEFINE occurs(c) == \E i \in DOMAIN rows : rows[i].category = c
             at(t) == {i \in 1..Len(t) : occurs(t[i])}
             of(t) == Taken(t, at(t))
             A == at(GroupOrder)
             G == Groups(rows)
             n == Len(GroupOrder)
  <1>1. G = CHOOSE y \in {of(t) : t \in {GroupOrder}} : TRUE
    BY DEF Groups, Selected, Once
  <1>2. of(GroupOrder) = Taken(GroupOrder, A)
    OBVIOUS
  <1>3. G = Taken(GroupOrder, A)
    <2> HIDE DEF of, A
    <2> QED
      BY <1>1, <1>2
  <1>4. /\ n \in Nat /\ A \in SUBSET (1..n) /\ DOMAIN rows = 1..Len(rows)
        /\ \A i \in 1..n : i \in A <=> \E j \in DOMAIN rows : rows[j].category = GroupOrder[i]
    BY GroupOrderIs DEF IsReviews, IsList
  <1> HIDE DEF A, G
  <1>5. /\ IsList(G) /\ Len(G) = Cardinality(A)
        /\ \A i \in A : G[Rank(A, i)] = GroupOrder[i]
        /\ \A k \in 1..Cardinality(A) :
             \E i \in A : Rank(A, i) = k /\ G[k] = GroupOrder[i]
    BY <1>3, <1>4, TakenIs
  <1>6. \A i \in A : Rank(A, i) \in 1..Cardinality(A)
    BY <1>4, RankIs
  <1>7. Len(G) \in Nat /\ Len(G) <= n
    <2> DEFINE D == 1..n
    <2>1. Cardinality(D) = n
      <3> HIDE DEF n
      <3> QED
        BY <1>4, FS_Interval
    <2>2. A \in SUBSET D /\ D \in SUBSET (1..n)
      BY <1>4
    <2> HIDE DEF D
    <2> QED
      BY <1>4, <1>5, <2>1, <2>2, SubsetCount
  <1>8. ASSUME NEW i \in 1..Len(rows)
        PROVE  \E k \in 1..Len(G) : rows[i].category = G[k]
    <2>1. rows[i].category = Classify(rows[i].content)
      <3>1. Labelled(rows[i]) = rows[i]
        BY DEF IsReviews, IsReview
      <3> QED
        BY <3>1 DEF Labelled
    <2>2. PICK j \in 1..n : GroupOrder[j] = rows[i].category
      BY <2>1, GroupOrderIs
    <2>3. j \in A
      BY <1>4, <2>2
    <2> QED
      BY <1>5, <1>6, <2>2, <2>3
  <1>9. ASSUME NEW k \in 1..Len(G), NEW l \in 1..Len(G), k # l PROVE G[k] # G[l]
    <2>1. PICK i \in A : Rank(A, i) = k /\ G[k] = GroupOrder[i]
      BY <1>5
    <2>2. PICK j \in A : Rank(A, j) = l /\ G[l] = GroupOrder[j]
      BY <1>5
    <2>3. i # j
      BY <1>9, <2>1, <2>2
    <2> QED
      BY <1>4, <2>1, <2>2, <2>3, GroupOrderIs
  <1>10. ASSUME NEW k \in 1..Len(G)
         PROVE  /\ \E i \in 1..Len(rows) : rows[i].category = G[k]
                /\ \E i \in 1..n : G[k] = GroupOrder[i]
    BY <1>4, <1>5
  <1> QED
    BY <1>7, <1>8, <1>9, <1>10 DEF G

\* Rows of different groups can be put in the order of their scores.
LEMMA ScoreRanked ==
  ASSUME NEW s, IsList(s),
         \A i \in 1..Len(s) : s[i].score \in Int,
         \A i \in 1..Len(s) : \E k \in 1..Len(GroupOrder) : s[i].category = GroupOrder[k],
         \A i, j \in 1..Len(s) : i # j => s[i].category # s[j].category
  PROVE  LET T == Sorted(s, ScoreOrder)
         IN  /\ IsList(T) /\ Len(T) = Len(s)
             /\ \A k \in 1..Len(s) : \E i \in 1..Len(s) : T[k] = s[i]
             /\ \A i \in 1..Len(s) : \E k \in 1..Len(s) : T[k] = s[i]
             /\ \A k, l \in 1..Len(s) : k < l =>
                  T[k].score >= T[l].score /\ T[k].category # T[l].category
  <1> DEFINE n == Len(s)
             spot(c) == CHOOSE i \in DOMAIN GroupOrder : GroupOrder[i] = c
             R == {e \in (1..n) \X (1..n) : ScoreOrder(s[e[1]], s[e[2]])}
             at(k) == CHOOSE i \in 1..n : Place(n, R, i) = k - 1
             g == [k \in 1..n |-> s[at(k)]]
             T == Sorted(s, ScoreOrder)
  <1>1. n \in Nat
    BY DEF IsList
  <1>2. \A i \in 1..n : /\ spot(s[i].category) \in Int
                        /\ GroupOrder[spot(s[i].category)] = s[i].category
    <2>1. /\ \A i \in DOMAIN GroupOrder : i \in Int
          /\ \A i \in 1..n : \E k \in DOMAIN GroupOrder : GroupOrder[k] = s[i].category
      BY GroupOrderIs
    <2>2. ASSUME NEW c, \E k \in DOMAIN GroupOrder : GroupOrder[k] = c
          PROVE  spot(c) \in DOMAIN GroupOrder /\ GroupOrder[spot(c)] = c
      BY <2>2
    <2> HIDE DEF spot
    <2> QED
      BY <2>1, <2>2
  <1>3. \A i, j \in 1..n : <<i, j>> \in R <=>
          \/ s[i].score > s[j].score
          \/ s[i].score = s[j].score /\ spot(s[i].category) < spot(s[j].category)
    BY DEF ScoreOrder
  <1>4. Place(n, R, 0) = Place(n, R, 0) /\
        \A i \in 1..n : {j \in 1..n : <<j, i>> \in R} = {j \in 1..n : ScoreOrder(s[j], s[i])}
    OBVIOUS
  <1>5. \A i, j \in 1..n : i # j => spot(s[i].category) # spot(s[j].category)
    <2> SUFFICES ASSUME NEW i \in 1..n, NEW j \in 1..n, i # j,
                        spot(s[i].category) = spot(s[j].category)
                 PROVE  FALSE
      OBVIOUS
    <2> HIDE DEF spot, R, g
    <2>1. s[i].category = s[j].category
      BY <1>2
    <2> QED
      BY <2>1
  <1>6. Ordered(n, R)
    <2> DEFINE score(i) == s[i].score
               place(i) == spot(s[i].category)
    <2>1. /\ \A i \in 1..n : score(i) \in Int /\ place(i) \in Int
          /\ \A i, j \in 1..n : i # j => place(i) # place(j)
          /\ \A i, j \in 1..n : <<i, j>> \in R <=>
               \/ score(i) > score(j)
               \/ score(i) = score(j) /\ place(i) < place(j)
      BY <1>2, <1>3, <1>5
    <2> HIDE DEF score, place, R, n
    <2>2. \A i \in 1..n : <<i, i>> \notin R
      BY <2>1
    <2>3. \A i, j \in 1..n : i # j => <<i, j>> \in R \/ <<j, i>> \in R
      BY <2>1
    <2>4. \A i, j, k \in 1..n : <<i, j>> \in R /\ <<j, k>> \in R => <<i, k>> \in R
      BY <2>1
    <2> QED
      BY <2>2, <2>3, <2>4 DEF Ordered
  <1>7. T = g /\ IsList(g) /\ Len(g) = n
    <2> DEFINE before(t, i) == Cardinality({j \in 1..Len(t) : ScoreOrder(t[j], t[i])})
               h(t) == [k \in 1..Len(t) |->
                          t[CHOOSE i \in 1..Len(t) : before(t, i) = k - 1]]
               of(t) == SubSeq(h(t), 1, Len(t))
    <2>1. T = CHOOSE y \in {of(t) : t \in {s}} : TRUE
      BY DEF Sorted, Once
    <2>2. \A i \in 1..n : before(s, i) = Place(n, R, i)
      BY <1>4 DEF Place
    <2>3. h(s) = g
      <3> DEFINE c(k) == CHOOSE i \in 1..n : before(s, i) = k - 1
      <3>1. \A k \in 1..n : c(k) = at(k)
        <4> HIDE DEF R, before
        <4> QED
          BY <2>2
      <3>2. h(s) = [k \in 1..n |-> s[c(k)]]
        OBVIOUS
      <3> HIDE DEF c, at, h
      <3> QED
        BY <3>1, <3>2
    <2>4. h(s) = [k \in 1..n |-> h(s)[k]]
      OBVIOUS
    <2> HIDE DEF h, g
    <2>5. of(s) = g /\ IsList(g) /\ Len(g) = n
      BY <1>1, <2>3, <2>4, ListIs
    <2> HIDE DEF of, T
    <2> QED
      BY <2>1, <2>5
  <1>8. \A k \in 1..n : at(k) \in 1..n /\ Place(n, R, at(k)) = k - 1
    <2> HIDE DEF R
    <2>1. \A k \in 1..n : \E i \in 1..n : Place(n, R, i) = k - 1
      BY <1>1, <1>6, PlacesAre
    <2> HIDE DEF n
    <2> QED
      BY <2>1
  <1>9. ASSUME NEW i \in 1..n PROVE \E k \in 1..n : at(k) = i
    <2> HIDE DEF R
    <2> DEFINE k == Place(n, R, i) + 1
    <2>1. Place(n, R, i) \in 0..(n - 1)
      BY <1>1, <1>6, PlacesAre
    <2>2. k \in 1..n /\ k - 1 = Place(n, R, i)
      <3> HIDE DEF n
      <3> QED
        BY <1>1, <2>1
    <2> HIDE DEF k, at, n
    <2>3. at(k) \in 1..n /\ Place(n, R, at(k)) = Place(n, R, i)
      BY <1>8, <2>2
    <2>4. at(k) = i
      BY <1>1, <1>6, <2>3, PlacesAre
    <2> QED
      BY <2>2, <2>4
  <1>10. ASSUME NEW k \in 1..n, NEW l \in 1..n, k < l PROVE <<at(k), at(l)>> \in R
    <2> HIDE DEF R, at
    <2>1. Place(n, R, at(k)) = k - 1 /\ Place(n, R, at(l)) = l - 1 /\ k - 1 < l - 1
      <3> HIDE DEF n
      <3> QED
        BY <1>1, <1>8, <1>10
    <2>2. Place(n, R, at(k)) < Place(n, R, at(l))
      BY <2>1
    <2>3. at(k) \in 1..n /\ at(l) \in 1..n
      BY <1>8
    <2> QED
      BY <1>1, <1>6, <2>2, <2>3, PlacesAre
  <1>11. \A k \in 1..n : g[k] = s[at(k)]
    OBVIOUS
  <1>12. ASSUME NEW k \in 1..n, NEW l \in 1..n, k < l
         PROVE  g[k].score >= g[l].score /\ g[k].category # g[l].category
    <2> DEFINE i == at(k)
               j == at(l)
    <2>1. i \in 1..n /\ j \in 1..n /\ <<i, j>> \in R /\ g[k] = s[i] /\ g[l] = s[j]
      BY <1>8, <1>10, <1>11, <1>12
    <2> HIDE DEF i, j, R, g
    <2>2. i # j
      BY <1>1, <1>6, <2>1 DEF Ordered
    <2> HIDE DEF spot
    <2>3. s[i].score \in Int /\ s[j].score \in Int
      BY <2>1
    <2>4. s[i].score > s[j].score \/ s[i].score = s[j].score
      BY <1>3, <2>1
    <2>5. s[i].score >= s[j].score
      BY <2>3, <2>4
    <2> QED
      BY <2>1, <2>2, <2>5
  <1> HIDE DEF g, at, R
  <1>13. \A k \in 1..n : \E i \in 1..n : g[k] = s[i]
    BY <1>8, <1>11
  <1>14. ASSUME NEW i \in 1..n PROVE \E k \in 1..n : g[k] = s[i]
    <2>1. PICK k \in 1..n : at(k) = i
      BY <1>9
    <2> QED
      BY <1>11, <2>1
  <1> QED
    BY <1>7, <1>12, <1>13, <1>14

\* The groups by their scores: each one that the reviews have, once.
LEMMA RankedGroupsAre ==
  ASSUME NEW rows, IsReviews(rows), NEW insights
  PROVE  LET T == RankedGroups(rows, insights)
         IN  /\ Len(T) \in Nat /\ Len(T) <= Len(GroupOrder)
             /\ \A k \in 1..Len(T) : \E i \in 1..Len(rows) :
                  T[k] = PriorityRow(rows, insights, rows[i].category)
             /\ \A i \in 1..Len(rows) : \E k \in 1..Len(T) :
                  T[k] = PriorityRow(rows, insights, rows[i].category)
             /\ \A k, l \in 1..Len(T) : k < l =>
                  T[k].score >= T[l].score /\ T[k].category # T[l].category
  <1> DEFINE G == Groups(rows)
             n == Len(G)
             s == [k \in 1..n |-> PriorityRow(rows, insights, G[k])]
             T == RankedGroups(rows, insights)
  <1>1. /\ n \in Nat /\ n <= Len(GroupOrder)
        /\ \A k \in 1..n : \E i \in 1..Len(rows) : rows[i].category = G[k]
        /\ \A k \in 1..n : \E i \in 1..Len(GroupOrder) : G[k] = GroupOrder[i]
        /\ \A i \in 1..Len(rows) : \E k \in 1..n : rows[i].category = G[k]
        /\ \A k, l \in 1..n : k # l => G[k] # G[l]
    BY GroupsOf
  <1>2. T = Sorted(s, ScoreOrder)
    BY DEF RankedGroups
  <1>3. \A k \in 1..n : s[k] = PriorityRow(rows, insights, G[k])
    OBVIOUS
  <1>4. ASSUME NEW k \in 1..n
        PROVE  s[k].category = G[k] /\ s[k].score \in Int
    <2>0. s[k] = PriorityRow(rows, insights, G[k])
      BY <1>3
    <2> HIDE DEF s, G, T
    <2>1. PICK i \in 1..Len(rows) : rows[i].category = G[k]
      BY <1>1
    <2>2. IsPriorityRow(rows, G[k], PriorityRow(rows, insights, G[k]))
      BY <2>1, PriorityRowIs
    <2> DEFINE p == PriorityRow(rows, insights, G[k])
    <2>5. s[k] = p /\ p.category = G[k] /\ OnScale(p.score, 0, 10000)
      BY <2>0, <2>2 DEF IsPriorityRow
    <2> HIDE DEF p
    <2>6. p.score \in Int
      BY <2>5, ScaleIs
    <2> QED
      BY <2>5, <2>6
  <1>5. IsList(s) /\ Len(s) = n
    <2>1. s = [k \in 1..n |-> s[k]]
      OBVIOUS
    <2> HIDE DEF s, n
    <2> QED
      BY <1>1, <2>1, ListIs
  <1> HIDE DEF s, G, T, n
  <1>6. /\ IsList(T) /\ Len(T) = n
        /\ \A k \in 1..n : \E i \in 1..n : T[k] = s[i]
        /\ \A i \in 1..n : \E k \in 1..n : T[k] = s[i]
        /\ \A k, l \in 1..n : k < l =>
             T[k].score >= T[l].score /\ T[k].category # T[l].category
    <2>1. /\ \A i \in 1..Len(s) : s[i].score \in Int
          /\ \A i \in 1..Len(s) : \E k \in 1..Len(GroupOrder) :
               s[i].category = GroupOrder[k]
          /\ \A i, j \in 1..Len(s) : i # j => s[i].category # s[j].category
      <3>1. \A i \in 1..n : s[i].category = G[i] /\ s[i].score \in Int
        BY <1>4
      <3> QED
        BY ONLY <1>1, <1>5, <3>1
    <2> DEFINE U == Sorted(s, ScoreOrder)
    <2>2. /\ IsList(U) /\ Len(U) = Len(s)
          /\ \A k \in 1..Len(s) : \E i \in 1..Len(s) : U[k] = s[i]
          /\ \A i \in 1..Len(s) : \E k \in 1..Len(s) : U[k] = s[i]
          /\ \A k, l \in 1..Len(s) : k < l =>
               U[k].score >= U[l].score /\ U[k].category # U[l].category
      BY ONLY <1>5, <2>1, ScoreRanked, Zenon
    <2> HIDE DEF U
    <2>3. T = U
      BY <1>2 DEF U
    <2> QED
      BY <1>5, <2>2, <2>3
  <1>7. ASSUME NEW k \in 1..n
        PROVE  \E i \in 1..Len(rows) :
                 T[k] = PriorityRow(rows, insights, rows[i].category)
    <2>1. PICK l \in 1..n : T[k] = s[l]
      BY <1>6
    <2>2. PICK i \in 1..Len(rows) : rows[i].category = G[l]
      BY <1>1
    <2> QED
      BY <1>3, <2>1, <2>2
  <1>8. ASSUME NEW i \in 1..Len(rows)
        PROVE  \E k \in 1..n :
                 T[k] = PriorityRow(rows, insights, rows[i].category)
    <2>1. PICK l \in 1..n : rows[i].category = G[l]
      BY <1>1
    <2>2. PICK k \in 1..n : T[k] = s[l]
      BY <1>6
    <2> QED
      BY <1>3, <2>1, <2>2
  <1> QED
    BY <1>1, <1>6, <1>7, <1>8 DEF T

-----------------------------------------------------------------------------
(* Sums over the reviews *)

LEMMA SumIs == \A f : Sets!SumFunction(f) = Total(f, DOMAIN f)
  BY DEF Sets!SumFunction, Total, Sets!SumFunctionOnSet, Sets!FoldFunction

LEMMA PositionsAre ==
  ASSUME NEW rows, IsReviews(rows)
  PROVE  /\ Len(rows) \in Nat /\ DOMAIN rows = 1..Len(rows)
         /\ IsFiniteSet(DOMAIN rows) /\ Cardinality(DOMAIN rows) = Len(rows)
  <1> DEFINE n == Len(rows)
  <1>1. n \in Nat /\ DOMAIN rows = 1..n
    BY DEF IsReviews, IsList
  <1> HIDE DEF n
  <1>2. IsFiniteSet(1..n) /\ Cardinality(1..n) = n
    BY <1>1, FS_Interval
  <1> QED
    BY <1>1, <1>2 DEF n

\* Every review is in one row of a table that is not cut.
LEMMA TableAddsUp ==
  ASSUME NEW rows, IsReviews(rows), NEW insights
  PROVE  LET table == PriorityTable(rows, insights, Len(GroupOrder))
         IN  Sets!SumFunction([k \in DOMAIN table |-> table[k].reviews]) = Len(rows)
  <1> DEFINE T == RankedGroups(rows, insights)
             D == DOMAIN rows
             S == 1..Len(T)
             table == PriorityTable(rows, insights, Len(GroupOrder))
             f == [k \in DOMAIN table |-> table[k].reviews]
             class == [i \in D |-> CHOOSE k \in S : T[k].category = rows[i].category]
  <1>1. /\ Len(T) \in Nat /\ Len(T) <= Len(GroupOrder) /\ Len(GroupOrder) \in Nat
        /\ IsList(T)
        /\ \A k \in S : \E i \in 1..Len(rows) :
             T[k] = PriorityRow(rows, insights, rows[i].category)
        /\ \A i \in 1..Len(rows) : \E k \in S :
             T[k] = PriorityRow(rows, insights, rows[i].category)
        /\ \A k, l \in S : k < l => T[k].category # T[l].category
    BY RankedGroupsAre, RankedAre, GroupOrderIs
  <1>2. /\ Len(rows) \in Nat /\ D = 1..Len(rows)
        /\ IsFiniteSet(D) /\ Cardinality(D) = Len(rows)
    BY PositionsAre
  <1>3. \A i \in 1..Len(rows) :
          LET p == PriorityRow(rows, insights, rows[i].category)
          IN  /\ p.category = rows[i].category
              /\ p.reviews = Cardinality(CategoryAt(rows, rows[i].category))
    <2> SUFFICES ASSUME NEW i \in 1..Len(rows)
                 PROVE  LET p == PriorityRow(rows, insights, rows[i].category)
                        IN  /\ p.category = rows[i].category
                            /\ p.reviews = Cardinality(CategoryAt(rows, rows[i].category))
      OBVIOUS
    <2>1. IsPriorityRow(rows, rows[i].category,
                        PriorityRow(rows, insights, rows[i].category))
      BY PriorityRowIs
    <2> QED
      BY <2>1 DEF IsPriorityRow
  <1>4. DOMAIN table = S /\ \A k \in S : table[k] = T[k]
    <2>1. table = Prefix(T, Len(GroupOrder))
      BY DEF PriorityTable
    <2> HIDE DEF T, table
    <2>2. /\ IsList(table) /\ Len(table) = Least(Len(GroupOrder), Len(T))
          /\ \A k \in 1..Least(Len(GroupOrder), Len(T)) : table[k] = T[k]
      BY <1>1, <2>1, PrefixIs
    <2>3. Least(Len(GroupOrder), Len(T)) = Len(T)
      BY <1>1 DEF Least
    <2> QED
      BY <2>2, <2>3 DEF IsList
  <1>5. DOMAIN f = S /\ \A k \in S : f[k] = T[k].reviews
    <2> HIDE DEF table, T, S
    <2> QED
      BY <1>4
  <1>6. ASSUME NEW i \in D, NEW k \in S
        PROVE  class[i] = k <=> T[k].category = rows[i].category
    <2>1. PICK l \in S : T[l] = PriorityRow(rows, insights, rows[i].category)
      BY <1>1, <1>2
    <2>4. T[l].category = rows[i].category
      BY <1>2, <1>3, <2>1
    <2>2. class[i] \in S /\ T[class[i]].category = rows[i].category
      <3> HIDE DEF T, S
      <3> QED
        BY <2>4
    <2>3. \A h, m \in S : h < m \/ m < h \/ h = m
      BY <1>1
    <2> HIDE DEF T, S, class, D
    <2> QED
      BY <1>1, <2>2, <2>3
  <1>7. ASSUME NEW i \in D PROVE class[i] \in S
    <2>1. PICK l \in S : T[l] = PriorityRow(rows, insights, rows[i].category)
      BY <1>1, <1>2
    <2>4. T[l].category = rows[i].category
      BY <1>2, <1>3, <2>1
    <2> HIDE DEF T, S
    <2> QED
      BY <2>4
  <1>8. ASSUME NEW k \in S PROVE f[k] = Cardinality(ClassOf(D, class, k))
    <2>1. PICK j \in 1..Len(rows) : T[k] = PriorityRow(rows, insights, rows[j].category)
      BY <1>1
    <2>2. /\ T[k].category = rows[j].category
          /\ T[k].reviews = Cardinality(CategoryAt(rows, rows[j].category))
      BY <1>3, <2>1
    <2>3. CategoryAt(rows, rows[j].category) = ClassOf(D, class, k)
      <3> HIDE DEF T, S, class, f
      <3> QED
        BY <1>2, <1>6, <2>2 DEF CategoryAt, ClassOf
    <2> HIDE DEF T, class, f
    <2> QED
      BY <1>5, <2>2, <2>3
  <1>9. IsFiniteSet(S)
    <2> DEFINE n == Len(T)
    <2>1. n \in Nat
      BY <1>1
    <2> HIDE DEF n
    <2>2. IsFiniteSet(1..n)
      BY <2>1, FS_Interval
    <2> QED
      BY <2>2 DEF n
  <1>10. InClasses(D, class, S) = D
    <2> HIDE DEF class, S
    <2> QED
      BY <1>7 DEF InClasses
  <1>11. Sets!SumFunction(f) = Total(f, DOMAIN f)
    BY SumIs
  <1> HIDE DEF S, D, class, f
  <1>12. Total(f, S) = Cardinality(InClasses(D, class, S))
    BY <1>2, <1>8, <1>9, TotalOfClasses
  <1>13. Sets!SumFunction(f) = Len(rows)
    BY <1>2, <1>5, <1>10, <1>11, <1>12
  <1> QED
    BY <1>13 DEF f

LEMMA BinsAddUp ==
  ASSUME NEW rows, IsReviews(rows)
  PROVE  Sets!SumFunction(SentimentDistribution(rows)) = Len(rows)
  <1> DEFINE D == DOMAIN rows
             S == 1..5
             f == SentimentDistribution(rows)
             class == [i \in D |-> BinOf(rows[i])]
  <1>1. /\ Len(rows) \in Nat /\ D = 1..Len(rows)
        /\ IsFiniteSet(D) /\ Cardinality(D) = Len(rows)
    BY PositionsAre
  <1>2. DOMAIN f = S /\ \A b \in S : f[b] = Cardinality({i \in D : BinOf(rows[i]) = b})
    BY DEF SentimentDistribution
  <1>3. ASSUME NEW i \in D PROVE BinOf(rows[i]) \in 1..5
    <2>1. rows[i].sentiment \in 0..100
      BY <1>1 DEF IsReviews, IsReview
    <2> QED
      BY <2>1 DEF BinOf
  <1>4. \A b \in S : f[b] = Cardinality(ClassOf(D, class, b))
    <2>1. \A b \in S : ClassOf(D, class, b) = {i \in D : BinOf(rows[i]) = b}
      BY DEF ClassOf
    <2> HIDE DEF f, class, S, D
    <2> QED
      BY <1>2, <2>1
  <1>5. InClasses(D, class, S) = D
    BY <1>3 DEF InClasses
  <1>6. IsFiniteSet(S)
    <2> DEFINE n == 5
    <2>1. n \in Nat
      OBVIOUS
    <2> HIDE DEF n
    <2>2. IsFiniteSet(1..n)
      BY <2>1, FS_Interval
    <2> QED
      BY <2>2 DEF n
  <1>7. Sets!SumFunction(f) = Total(f, DOMAIN f)
    BY SumIs
  <1> HIDE DEF f, class, S, D
  <1>8. Total(f, S) = Cardinality(InClasses(D, class, S))
    BY <1>1, <1>4, <1>6, TotalOfClasses
  <1> QED
    BY <1>1, <1>2, <1>5, <1>7, <1>8 DEF f

LEMMA StarsAddUp ==
  ASSUME NEW rows, IsReviews(rows)
  PROVE  LET stars == RatingDistribution(rows)
             low == Sets!SumFunctionOnSet(stars, DOMAIN stars \cap 1..3)
         IN  /\ Sets!SumFunction(stars) = Len(rows)
             /\ (\A i \in DOMAIN rows : rows[i].rating % 10 = 0) => low = BadCount(rows)
  <1> DEFINE D == DOMAIN rows
             S == {Star(rows[i]) : i \in D}
             stars == RatingDistribution(rows)
             class == [i \in D |-> Star(rows[i])]
             few == S \cap 1..3
  <1>1. /\ Len(rows) \in Nat /\ D = 1..Len(rows)
        /\ IsFiniteSet(D) /\ Cardinality(D) = Len(rows)
    BY PositionsAre
  <1>2. DOMAIN stars = S
        /\ \A s \in S : stars[s] = Cardinality({i \in D : Star(rows[i]) = s})
    BY DEF RatingDistribution
  <1>3. \A s \in S : stars[s] = Cardinality(ClassOf(D, class, s))
    <2>1. \A s \in S : ClassOf(D, class, s) = {i \in D : Star(rows[i]) = s}
      BY DEF ClassOf
    <2> HIDE DEF stars, class, S, D
    <2> QED
      BY <1>2, <2>1
  <1>4. \A i \in D : class[i] = Star(rows[i]) /\ class[i] \in S
    OBVIOUS
  <1>5. IsFiniteSet(S)
    <2>1. class \in [D -> S] /\ \A s \in S : \E i \in D : class[i] = s
      OBVIOUS
    <2> HIDE DEF class, S
    <2>2. class \in Surjection(D, S)
      BY <2>1 DEF Surjection
    <2> HIDE DEF D
    <2> QED
      BY <1>1, <2>2, FS_Surjection
  <1>6. InClasses(D, class, S) = D
    BY <1>4 DEF InClasses
  <1>7. Sets!SumFunction(stars) = Total(stars, DOMAIN stars)
    BY SumIs
  <1>8. IsFiniteSet(few) /\ few \in SUBSET S
    BY <1>5, FS_Subset
  <1>9. Sets!SumFunction(stars) = Len(rows)
    <2> HIDE DEF stars, class, S, D
    <2>1. Total(stars, S) = Cardinality(InClasses(D, class, S))
      BY <1>1, <1>3, <1>5, TotalOfClasses
    <2> QED
      BY <1>1, <1>2, <1>6, <1>7, <2>1
  <1>10. ASSUME \A i \in D : rows[i].rating % 10 = 0
         PROVE  Total(stars, few) = BadCount(rows)
    <2>1. ASSUME NEW i \in D PROVE Star(rows[i]) \in 1..3 <=> IsNegative(rows[i])
      <3> DEFINE x == rows[i].rating
      <3>1. x \in 10..50 /\ x % 10 = 0
        BY <1>1, <1>10 DEF IsReviews, IsReview, Kept
      <3> HIDE DEF x
      <3>2. Rounded(x, 10) = x \div 10
        BY <3>1 DEF Rounded
      <3>3. x \div 10 \in 1..3 <=> x <= 30
        BY <3>1
      <3> QED
        BY <3>2, <3>3 DEF Star, IsNegative, x
    <2>2. InClasses(D, class, few) = {i \in D : IsNegative(rows[i])}
      <3> HIDE DEF class, S, D
      <3> QED
        BY <1>4, <2>1 DEF InClasses
    <2>3. BadCount(rows) = Cardinality({i \in D : IsNegative(rows[i])})
      BY DEF BadCount, CountOf
    <2>4. \A s \in few : stars[s] = Cardinality(ClassOf(D, class, s))
      BY <1>3, <1>8
    <2> HIDE DEF stars, class, few, D
    <2>5. Total(stars, few) = Cardinality(InClasses(D, class, few))
      BY <1>1, <1>8, <2>4, TotalOfClasses
    <2> QED
      BY <2>2, <2>3, <2>5
  <1>11. Sets!SumFunctionOnSet(stars, DOMAIN stars \cap 1..3) = Total(stars, few)
    BY <1>2 DEF Total
  <1> HIDE DEF stars, few
  <1> QED
    BY <1>9, <1>10, <1>11 DEF stars

-----------------------------------------------------------------------------
(* Which figures an answer has *)

LEMMA TopOfTable ==
  ASSUME NEW rows, NEW insights, NEW top \in Nat, NEW others, Unranked(others)
  PROVE  Top(others \cup Priorities(PriorityTable(rows, insights, top), insights, top), rows)
  <1> DEFINE all == RankedGroups(rows, insights)
             table == Prefix(all, top)
             listed == Priorities(PriorityTable(rows, insights, top), insights, top)
             figures == others \cup listed
  <1>1. /\ IsList(table) /\ Len(table) = Least(top, Len(all)) /\ Len(all) \in Nat
    BY RankedAre, PrefixIs DEF IsList
  <1>2. DOMAIN table = 1..Len(table) /\ Len(table) \in Nat /\ Len(table) <= Len(all)
    BY <1>1 DEF IsList, Least
  <1>3. listed = {<<<<"priority", insights, k>>, table[k]>> : k \in DOMAIN table}
                   \cup {<<<<"priorities", top>>, Len(table)>>}
    BY DEF Priorities, PriorityTable
  <1> DEFINE n == Len(table)
             x(k) == <<"priority", insights, k>>
             m == Len(all)
  <1> HIDE DEF all, table, listed, n, m
  <1>4. \A p \in listed : p[1][1] = "priority" => \E k \in 1..n : p[1] = x(k)
    BY <1>2, <1>3 DEF n
  <1>5. \A k \in 1..n : \E p \in listed : p[1] = x(k)
    <2> SUFFICES ASSUME NEW k \in 1..n PROVE \E p \in listed : p[1] = x(k)
      OBVIOUS
    <2>1. <<x(k), table[k]>> \in listed
      BY <1>2, <1>3 DEF n
    <2> QED
      BY <2>1
  <1>6. \A p \in figures : p[1][1] = "priority" => \E k \in 1..n : p[1] = x(k)
    BY <1>4 DEF Unranked
  <1>7. n \in Nat /\ n <= m /\ m \in Nat
    BY <1>1, <1>2 DEF n, m
  <1>8. \A p \in figures : p[1][1] = "priority" =>
          \E k \in 1..n : p[1][2] = insights /\ p[1][3] = k
    BY <1>6
  <1>9. ASSUME NEW p \in figures, p[1][1] = "priority"
        PROVE  /\ p[1][3] \in 1..Len(RankedGroups(rows, p[1][2]))
               /\ \A q \in figures : q[1][1] = "priority" => q[1][2] = p[1][2]
               /\ \A k \in 1..p[1][3] :
                    \E q \in figures : q[1] = <<"priority", p[1][2], k>>
    <2>1. PICK k \in 1..n : p[1][2] = insights /\ p[1][3] = k
      BY <1>8, <1>9
    <2>2. k \in 1..m /\ \A l \in 1..k : l \in 1..n
      BY <1>7
    <2> HIDE DEF figures
    <2>3. \A q \in figures : q[1][1] = "priority" => q[1][2] = insights
      BY <1>8
    <2>4. \A l \in 1..k : \E q \in figures : q[1] = x(l)
      BY <1>5, <2>2 DEF figures
    <2> QED
      BY <2>1, <2>2, <2>3, <2>4 DEF m, all
  <1> QED
    BY <1>9 DEF Top, figures, listed

LEMMA NothingRanked ==
  ASSUME NEW figures, Unranked(figures), NEW rows PROVE Top(figures, rows)
  BY DEF Unranked, Top

LEMMA UnrankedPairs ==
  ASSUME NEW x, x[1] # "priority", NEW v
  PROVE  Unranked({<<x, v>>})
  BY DEF Unranked

LEMMA UnrankedTogether ==
  \A A, B : Unranked(A) /\ Unranked(B) => Unranked(A \cup B)
  BY DEF Unranked

LEMMA UnrankedNames ==
  \A v : /\ Unranked({<<<<"stars">>, v>>}) /\ Unranked({<<<<"bins">>, v>>})
         /\ Unranked({<<<<"trend">>, v>>}) /\ Unranked({<<<<"risk list">>, v>>})
         /\ Unranked({<<<<"mismatch list">>, v>>}) /\ Unranked({<<<<"mismatch">>, v>>})
         /\ Unranked({<<<<"bad">>, v>>}) /\ Unranked({<<<<"good">>, v>>})
         /\ Unranked({<<<<"bad ratio">>, v>>}) /\ Unranked({<<<<"rating">>, v>>})
         /\ Unranked({<<<<"risk">>, v>>})
  BY UnrankedPairs

LEMMA UnrankedFigures ==
  /\ \A m : Unranked(Metric(m))
  /\ \A keywords, top : /\ Unranked(Words("bad", keywords, top))
                        /\ Unranked(Words("good", keywords, top))
  /\ \A rows : Unranked(PacketFigures(rows))
  BY DEF Unranked, Metric, Words, PacketFigures

\* What a summary states if it does not raise.
LEMMA SummaryStates ==
  ASSUME NEW fr, NEW insights
  PROVE  LET figures == SummaryFigures(fr, insights)
         IN  /\ Top(figures, fr.rows)
             /\ \A x \in {"total", "bad ratio", "stars", "bins"} :
                  \E p \in figures : p[1] = <<x>>
  <1> DEFINE figures == SummaryFigures(fr, insights)
             rows == fr.rows
             m == HealthMetrics(rows)
             lists == {<<<<"stars">>, RatingDistribution(rows)>>,
                       <<<<"bins">>, SentimentDistribution(rows)>>,
                       <<<<"trend">>, Trend(rows)>>,
                       <<<<"risk list">>, Prefix(ViewOf(fr, "high_risk"), PreviewRows)>>,
                       <<<<"mismatch list">>,
                         Prefix(ViewOf(fr, "rating_sentiment_mismatch"), PreviewRows)>>,
                       <<<<"mismatch">>, CountOf(rows, IsMismatch)>>}
             bad == Words("bad", KeywordScores(Bad(rows), KeywordRows), KeywordRows)
             good == Words("good", KeywordScores(Good(rows), KeywordRows), KeywordRows)
             others == Metric(m) \cup bad \cup good \cup lists
             table == Priorities(PriorityTable(rows, insights, PriorityRows), insights,
                                 PriorityRows)
  <1>1. figures = others \cup table
    <2>1. figures = Metric(m) \cup table \cup bad \cup good \cup lists
      BY DEF SummaryFigures, Bad, Good
    <2> HIDE DEF figures, m, table, bad, good, lists
    <2> QED
      BY <2>1
  <1>2. Unranked(others)
    <2>1. Unranked(Metric(m)) /\ Unranked(bad) /\ Unranked(good)
      BY UnrankedFigures
    <2>2. Unranked(lists)
      <3> DEFINE a == {<<<<"stars">>, RatingDistribution(rows)>>}
                 b == {<<<<"bins">>, SentimentDistribution(rows)>>}
                 c == {<<<<"trend">>, Trend(rows)>>}
                 d == {<<<<"risk list">>, Prefix(ViewOf(fr, "high_risk"), PreviewRows)>>}
                 e == {<<<<"mismatch list">>,
                         Prefix(ViewOf(fr, "rating_sentiment_mismatch"), PreviewRows)>>}
                 f == {<<<<"mismatch">>, CountOf(rows, IsMismatch)>>}
      <3>1. lists = ((((a \cup b) \cup c) \cup d) \cup e) \cup f
        OBVIOUS
      <3>2. /\ Unranked(a) /\ Unranked(b) /\ Unranked(c)
            /\ Unranked(d) /\ Unranked(e) /\ Unranked(f)
        BY UnrankedNames
      <3> HIDE DEF lists, a, b, c, d, e, f
      <3> QED
        BY <3>1, <3>2, UnrankedTogether
    <2> HIDE DEF m, bad, good, lists
    <2> QED
      BY <2>1, <2>2 DEF Unranked
  <1>3. PriorityRows \in Nat
    BY ReviewAnalysisAssumption
  <1>4. Top(others \cup table, rows)
    <2> HIDE DEF others
    <2> QED
      BY <1>2, <1>3, TopOfTable
  <1>5. /\ <<<<"total">>, m.total>> \in Metric(m)
        /\ <<<<"bad ratio">>, m.negative>> \in Metric(m)
        /\ <<<<"stars">>, RatingDistribution(rows)>> \in lists
        /\ <<<<"bins">>, SentimentDistribution(rows)>> \in lists
    BY DEF Metric
  <1> HIDE DEF m, lists, bad, good, table, figures
  <1>6. \A x \in {"total", "bad ratio", "stars", "bins"} :
          \E p \in figures : p[1] = <<x>>
    <2>1. Metric(m) \subseteq figures /\ lists \subseteq figures
      BY <1>1
    <2>2. \E p \in figures : p[1] = <<"total">>
      BY <1>5, <2>1
    <2>3. \E p \in figures : p[1] = <<"bad ratio">>
      BY <1>5, <2>1
    <2>4. \E p \in figures : p[1] = <<"stars">>
      BY <1>5, <2>1
    <2>5. \E p \in figures : p[1] = <<"bins">>
      BY <1>5, <2>1
    <2> QED
      BY <2>2, <2>3, <2>4, <2>5
  <1> QED
    BY <1>1, <1>4, <1>6 DEF figures

\* And what a call does.
LEMMA ToldAre ==
  ASSUME NEW call, NEW fr, NEW insights
  PROVE  LET o == Called(call, fr, insights)
         IN  ToolFigures(call, fr, insights) =
               IF o.failed THEN {}
               ELSE {<<SampleOf(call), o.sample>>}
                      \cup IF o.output = None THEN {} ELSE Stated(call, o.output, insights)
  <1> DEFINE of(o) ==
               IF o.failed THEN {}
               ELSE {<<SampleOf(call), o.sample>>}
                      \cup IF o.output = None THEN {} ELSE Stated(call, o.output, insights)
             called == Called(call, fr, insights)
  <1>1. ToolFigures(call, fr, insights) = CHOOSE y \in {of(v) : v \in {called}} : TRUE
    BY DEF ToolFigures, Once
  <1>2. ToolFigures(call, fr, insights) = of(called)
    <2> HIDE DEF of, called
    <2> QED
      BY <1>1
  <1> QED
    BY <1>2

LEMMA TableRanks ==
  ASSUME NEW rows, NEW insights, NEW top \in Nat, NEW sample, NEW before, NEW figures,
         Unranked(sample), Unranked(before),
         \/ figures = {} \/ figures = sample
         \/ figures = sample \cup
              (before \cup Priorities(PriorityTable(rows, insights, top), insights, top))
  PROVE  Top(figures, rows)
  <1> DEFINE table == Priorities(PriorityTable(rows, insights, top), insights, top)
             others == sample \cup before
  <1>1. CASE figures = {} \/ figures = sample
    <2>1. Unranked(figures)
      BY <1>1 DEF Unranked
    <2> QED
      BY <2>1, NothingRanked
  <1>2. CASE figures = sample \cup (before \cup table)
    <2>1. Unranked(others)
      BY UnrankedTogether
    <2> HIDE DEF others
    <2>2. Top(others \cup table, rows)
      BY <2>1, TopOfTable
    <2> HIDE DEF table
    <2>3. figures = others \cup table
      BY <1>2 DEF others
    <2> QED
      BY <2>2, <2>3
  <1> QED
    BY <1>1, <1>2 DEF table

LEMMA ToolStates ==
  ASSUME NEW fr, IsReviews(fr.rows), NEW insights, NEW call \in ToolCall
  PROVE  Top(ToolFigures(call, fr, insights), fr.rows)
  <1> DEFINE o == Called(call, fr, insights)
             figures == ToolFigures(call, fr, insights)
             sample == {<<SampleOf(call), o.sample>>}
             rows == fr.rows
  <1>1. /\ call.tool \in ToolName /\ call.top \in Nat
        /\ call.type \in {"negative", "positive", "high_risk", "all"}
    BY ReviewQueriesAssumption
  <1>2. figures = IF o.failed THEN {}
                  ELSE sample \cup IF o.output = None THEN {}
                                   ELSE Stated(call, o.output, insights)
    BY ToldAre
  <1>3. Unranked(sample)
    <2>1. SampleOf(call)[1] # "priority"
      BY <1>1 DEF SampleOf
    <2> QED
      BY <2>1 DEF Unranked
  <1>4. AgentData(fr) = rows
    BY PreparedOnce DEF AgentData
  <1>5. \/ figures = {} \/ figures = sample
        \/ figures = sample \cup Stated(call, o.output, insights) /\ o.output # None
    BY <1>2
  <1> SUFFICES Top(figures, rows)
    OBVIOUS
  <1> HIDE DEF figures, sample
  <1>6. Unranked(Stated(call, o.output, insights)) => Top(figures, rows)
    <2> DEFINE states == Stated(call, o.output, insights)
               found == o.output # None
    <2> HIDE DEF o, states, found
    <2>1. figures = {} \/ figures = sample \/ figures = sample \cup states
      BY <1>5 DEF states
    <2>2. ASSUME Unranked(states) PROVE Unranked(figures)
      BY <1>3, <2>1, <2>2 DEF Unranked
    <2> QED
      BY <2>2, NothingRanked DEF states
  <1>8. CASE call.tool = "calculate_issue_priority"
    <2> DEFINE a == ProductSuggestion(fr, insights)
    <2>1. o = PriorityTool(fr, insights, call.top)
      BY <1>8 DEF Called
    <2>2. \A out : Stated(call, out, insights) =
            {<<<<"bad ratio">>, out.ratio>>} \cup Priorities(out.priority, insights, call.top)
      BY <1>8 DEF Stated
    <2>3. a # None => "priority" \in DOMAIN a
      BY DEF ProductSuggestion
    <2>4. o.output = IF a = None THEN None
                     ELSE [a EXCEPT !.priority = PriorityTable(rows, insights, call.top)]
      BY <1>4, <2>1 DEF PriorityTool, Output
    <2> HIDE DEF a, o
    <2>5. o.output # None => o.output.priority = PriorityTable(rows, insights, call.top)
      BY <2>3, <2>4
    <2> DEFINE before == {<<<<"bad ratio">>, o.output.ratio>>}
    <2>6. Unranked(before)
      BY UnrankedNames
    <2>7. o.output # None => Stated(call, o.output, insights) =
            before \cup Priorities(PriorityTable(rows, insights, call.top), insights,
                                   call.top)
      BY <2>2, <2>5
    <2> DEFINE states == Stated(call, o.output, insights)
               table == Priorities(PriorityTable(rows, insights, call.top), insights, call.top)
               found == o.output # None
    <2> HIDE DEF before, states, table, found
    <2>8. \/ figures = {} \/ figures = sample
          \/ figures = sample \cup (before \cup table)
      BY <1>5, <2>7 DEF states, table, found
    <2> QED
      BY <1>1, <1>3, <2>6, <2>8, TableRanks DEF table
  <1>9. CASE call.tool = "report_generation"
    <2>1. o = Output(Report(fr, insights), Len(rows))
      BY <1>9 DEF Called
    <2>2. \A out : Stated(call, out, insights) =
            Metric(out.metrics) \cup {<<<<"risk">>, out.riskCount>>}
              \cup Priorities(out.priority, insights, PriorityRows)
      BY <1>9 DEF Stated
    <2>3. o.output # None => o.output.priority = PriorityTable(rows, insights, PriorityRows)
      BY <1>4, <2>1 DEF Output, Report
    <2> HIDE DEF o
    <2> DEFINE before == Metric(o.output.metrics) \cup {<<<<"risk">>, o.output.riskCount>>}
    <2>4. Unranked(before)
      <3>1. Unranked({<<<<"risk">>, o.output.riskCount>>})
        BY UnrankedNames
      <3> QED
        BY UnrankedTogether, <3>1, UnrankedFigures
    <2>5. o.output # None => Stated(call, o.output, insights) =
            before \cup Priorities(PriorityTable(rows, insights, PriorityRows), insights,
                                   PriorityRows)
      BY <2>2, <2>3
    <2>6. PriorityRows \in Nat
      BY ReviewAnalysisAssumption
    <2> DEFINE states == Stated(call, o.output, insights)
               table == Priorities(PriorityTable(rows, insights, PriorityRows), insights,
                                   PriorityRows)
               found == o.output # None
    <2> HIDE DEF before, states, table, found
    <2>7. \/ figures = {} \/ figures = sample
          \/ figures = sample \cup (before \cup table)
      BY <1>5, <2>5 DEF states, table, found
    <2> QED
      BY <1>3, <2>4, <2>6, <2>7, TableRanks DEF table
  <1>10. CASE call.tool \notin {"calculate_issue_priority", "report_generation"}
    <2>1. ASSUME NEW output PROVE Unranked(Stated(call, output, insights))
      <3>1. CASE call.tool = "get_review_metrics"
        BY <3>1, UnrankedFigures DEF Stated
      <3>2. CASE call.tool = "analyze_negative_reviews"
        <4>1. Unranked({<<<<"bad">>, output.count>>, <<<<"bad ratio">>, output.ratio>>,
                        <<<<"rating">>, output.rating>>})
          <5> DEFINE a == {<<<<"bad">>, output.count>>}
                     b == {<<<<"bad ratio">>, output.ratio>>}
                     c == {<<<<"rating">>, output.rating>>}
          <5>1. {<<<<"bad">>, output.count>>, <<<<"bad ratio">>, output.ratio>>,
                 <<<<"rating">>, output.rating>>} = (a \cup b) \cup c
            OBVIOUS
          <5>2. Unranked(a) /\ Unranked(b) /\ Unranked(c)
            BY UnrankedNames
          <5> HIDE DEF a, b, c
          <5>3. Unranked((a \cup b) \cup c)
            BY <5>2, UnrankedTogether
          <5> QED
            BY <5>1, <5>3
        <4>2. Stated(call, output, insights) =
                {<<<<"bad">>, output.count>>, <<<<"bad ratio">>, output.ratio>>,
                 <<<<"rating">>, output.rating>>} \cup Words("bad", output.keywords, call.top)
          BY <3>2 DEF Stated
        <4> QED
          BY UnrankedTogether, <4>1, <4>2, UnrankedFigures
      <3>3. CASE call.tool = "analyze_positive_reviews"
        <4>1. Unranked({<<<<"good">>, output.count>>})
          BY UnrankedNames
        <4>2. Stated(call, output, insights) =
                {<<<<"good">>, output.count>>} \cup Words("good", output.keywords, call.top)
          BY <3>3 DEF Stated
        <4> QED
          BY UnrankedTogether, <4>1, <4>2, UnrankedFigures
      <3>4. CASE call.tool = "find_high_risk_reviews"
        <4> DEFINE a == {<<<<"risk">>, output.count>>}
                   b == {<<<<"risk list">>, Prefix(output.reviews, PreviewRows)>>}
        <4>1. Stated(call, output, insights) = a \cup b
          BY <3>4 DEF Stated
        <4>2. Unranked(a) /\ Unranked(b)
          BY UnrankedNames
        <4> HIDE DEF a, b
        <4> QED
          BY <4>1, <4>2, UnrankedTogether
      <3>5. CASE call.tool = "compare_versions"
        <4>1. Stated(call, output, insights) =
                {<<<<"version", row.version>>, row>> : row \in output.table}
          BY <3>5 DEF Stated
        <4> QED
          BY <4>1 DEF Unranked
      <3>6. CASE call.tool = "analyze_sentiment_trend"
        <4>1. Stated(call, output, insights) = {<<<<"trend">>, output.trend>>}
          BY <3>6 DEF Stated
        <4> QED
          BY <4>1, UnrankedNames
      <3>7. CASE call.tool = "retrieve_representative_reviews"
        BY <3>7 DEF Stated, Unranked
      <3> QED
        BY <1>1, <1>10, <3>1, <3>2, <3>3, <3>4, <3>5, <3>6, <3>7 DEF ToolName
    <2> QED
      BY <1>6, <2>1
  <1> QED
    BY <1>8, <1>9, <1>10

-----------------------------------------------------------------------------
(* The invariant *)

\* Every answer there is was just given, or was there before.
LEMMA AnswersKept ==
  ASSUME NEW by, NEW f, NEW full, NEW signature, NEW scope, NEW figures, NEW packet,
         Give(by, f, full, signature, scope, figures, packet), NEW a \in answers'
  PROVE  \/ a \in answers
         \/ a = [by |-> by, filters |-> f, full |-> full, signature |-> signature,
                 scope |-> scope.rows, figures |-> figures, packet |-> packet]
  BY DEF Give

\* What is true of an answer does not change with the frame in place.
LEMMA HonestStays ==
  ASSUME NEW a, Honest(a), frame' = frame
  PROVE  Honest(a)'
  BY DEF Honest, Scope

THEOREM QueriesInvariant == Spec => []QueriesInv
  <1>1. Init => QueriesInv
    BY DEF Init, QueriesInv
  <1>2. QueriesInv /\ [Next]_vars => QueriesInv'
    <2> SUFFICES ASSUME QueriesInv, [Next]_vars PROVE QueriesInv'
      OBVIOUS
    <2>1. CASE UNCHANGED vars
      BY <2>1, HonestStays DEF QueriesInv, vars
    <2>2. ASSUME NEW new \in File, Upload(new) PROVE QueriesInv'
      <3>1. frame = None /\ frame' = Stored(new) /\ answers' = answers /\ answers = {}
        BY <2>2 DEF Upload, QueriesInv
      <3> QED
        BY <3>1, StoredReviews DEF QueriesInv
    <2>3. ASSUME NEW f \in Filter, BuildSummary(f) PROVE QueriesInv'
      <3> DEFINE signature == Signature("dataframe_scope_signature", f)
                 scope == Scope(f)
                 insights == Resolved(signature, scope.rows)
                 figures == IF Summary(scope) = None THEN {}
                            ELSE SummaryFigures(scope, insights)
      <3>1. /\ frame # None /\ frame' = frame
            /\ Give("summary", f, FALSE, signature, scope, figures, <<>>)
        BY <2>3 DEF BuildSummary
      <3>2. IsReviews(scope.rows)
        BY <3>1, FilteredReviews DEF QueriesInv, Scope
      <3>3. \A p \in figures : Says(scope.rows, p)
        BY <3>2, SummarySays
      <3>6. Top(figures, scope.rows)
        <4>1. Top({}, scope.rows)
          BY DEF Top
        <4>2. Top(SummaryFigures(scope, insights), scope.rows)
          BY SummaryStates
        <4> QED
          BY <4>1, <4>2
      <3>7. figures # {} =>
              \A x \in {"total", "bad ratio", "stars", "bins"} :
                \E p \in figures : p[1] = <<x>>
        BY SummaryStates
      <3>5. scope.rows = Scope(f).rows
        OBVIOUS
      <3> HIDE DEF figures, insights, scope
      <3>4. ASSUME NEW a \in answers' PROVE Honest(a)'
        <4>1. CASE a \in answers
          BY <3>1, <4>1, HonestStays DEF QueriesInv
        <4>2. CASE a \notin answers
          <5>1. a = [by |-> "summary", filters |-> f, full |-> FALSE,
                     signature |-> signature, scope |-> scope.rows,
                     figures |-> figures, packet |-> <<>>]
            BY <3>1, <4>2 DEF Give
          <5>2. Honest(a)
            BY <3>2, <3>3, <3>5, <3>6, <3>7, <5>1 DEF Honest
          <5> QED
            BY <3>1, <5>2, HonestStays
        <4> QED
          BY <4>1, <4>2
      <3> QED
        BY <3>1, <3>4 DEF QueriesInv
    <2>4. ASSUME NEW f \in Filter, NEW full \in BOOLEAN, NEW call \in ToolCall,
                 QueryAgent(f, full, call)
          PROVE  QueriesInv'
      <3> DEFINE scope == IF full THEN frame ELSE Scope(f)
                 signature == Signature("dataframe_scope_signature", f)
                 insights == Resolved(signature, scope.rows)
                 figures == ToolFigures(call, scope, insights)
      <3>1. /\ frame # None /\ frame' = frame
            /\ Give(call.tool, f, full, signature, scope, figures, <<>>)
        BY <2>4 DEF QueryAgent
      <3>2. IsReviews(scope.rows)
        BY <3>1, FilteredReviews DEF QueriesInv, Scope
      <3> HIDE DEF insights
      <3>3. \A p \in figures : Says(scope.rows, p)
        <4> HIDE DEF scope
        <4> QED
          BY <3>2, ToolSays
      <3>7. Top(figures, scope.rows)
        <4> HIDE DEF scope
        <4> QED
          BY <3>2, ToolStates
      <3>4. call.tool \notin {"insight", "summary"}
        BY ReviewQueriesAssumption DEF ToolName
      <3>5. ~full => scope.rows = Scope(f).rows
        OBVIOUS
      <3> HIDE DEF figures, scope
      <3>6. ASSUME NEW a \in answers' PROVE Honest(a)'
        <4>1. CASE a \in answers
          BY <3>1, <4>1, HonestStays DEF QueriesInv
        <4>2. CASE a \notin answers
          <5>1. a = [by |-> call.tool, filters |-> f, full |-> full,
                     signature |-> signature, scope |-> scope.rows,
                     figures |-> figures, packet |-> <<>>]
            BY <3>1, <4>2, AnswersKept
          <5>2. Honest(a)
            BY <3>2, <3>3, <3>4, <3>5, <3>7, <5>1 DEF Honest
          <5> QED
            BY <3>1, <5>2, HonestStays
        <4> QED
          BY <4>1, <4>2
      <3> QED
        BY <3>1, <3>6 DEF QueriesInv
    <2>5. ASSUME NEW f \in Filter, NEW reply \in Reply, GenerateInsight(f, reply)
          PROVE  QueriesInv'
      <3> DEFINE scope == Scope(f)
                 rows == scope.rows
                 figures == PacketFigures(rows)
                 signature == Signature("compute_content_hash", f)
      <3>1. /\ frame # None /\ rows # <<>> /\ frame' = frame
            /\ Give("insight", f, FALSE, signature, scope, figures,
                    Packet(rows))
        BY <2>5 DEF GenerateInsight
      <3>2. IsReviews(rows)
        BY <3>1, FilteredReviews DEF QueriesInv, Scope
      <3>3. \A p \in figures : Says(rows, p)
        BY <3>1, PacketSays
      <3>6. Top(figures, rows)
        BY UnrankedFigures, NothingRanked
      <3>5. rows = Scope(f).rows
        OBVIOUS
      <3> HIDE DEF figures, scope
      <3>4. ASSUME NEW a \in answers' PROVE Honest(a)'
        <4>1. CASE a \in answers
          BY <3>1, <4>1, HonestStays DEF QueriesInv
        <4>2. CASE a \notin answers
          <5>1. a = [by |-> "insight", filters |-> f, full |-> FALSE,
                     signature |-> signature, scope |-> rows,
                     figures |-> figures, packet |-> Packet(rows)]
            BY <3>1, <4>2 DEF Give
          <5>2. Honest(a)
            BY <3>1, <3>2, <3>3, <3>5, <3>6, <5>1 DEF Honest
          <5> QED
            BY <3>1, <5>2, HonestStays
        <4> QED
          BY <4>1, <4>2
      <3> QED
        BY <3>1, <3>4 DEF QueriesInv
    <2> QED
      BY <2>1, <2>2, <2>3, <2>4, <2>5 DEF Next
  <1> QED
    BY <1>1, <1>2, PTL DEF Spec

(***************************************************************************)
(* Answers about the same reviews, of the summary, the tools, the report   *)
(* and the packet, agree in every figure, whatever the files, filters and  *)
(* calls are, unless a version has blanks around it.                       *)
(***************************************************************************)
THEOREM AnswersAlwaysAgree == Spec => []AnswersAgree
  <1>1. QueriesInv => AnswersAgree
    <2> SUFFICES ASSUME QueriesInv, NEW a \in answers, NEW b \in answers,
                        a.scope = b.scope, ~Padded(a.scope),
                        NEW p \in a.figures, NEW q \in b.figures, p[1] = q[1]
                 PROVE  p[2] = q[2]
      BY DEF AnswersAgree
    <2>1. Says(a.scope, p) /\ Says(b.scope, q)
      BY DEF QueriesInv, Honest
    <2> QED
      BY <2>1 DEF Says
  <1> QED
    BY <1>1, QueriesInvariant, PTL

(***************************************************************************)
(* Answers of the same signature are about the same reviews, but for two   *)
(* cases in which the code does not have it so: an answer about the whole  *)
(* dataset has the signature of the filters it leaves aside                *)
(* (AgentService.query), and the keyword "__EMPTY__" that of no keyword    *)
(* (canonical_filters).                                                    *)
(***************************************************************************)
THEOREM SignatureStandsForScope == Spec => []SignatureIsScope
  <1>1. QueriesInv => SignatureIsScope
    <2> SUFFICES ASSUME QueriesInv, NEW a \in answers, NEW b \in answers,
                        a.signature = b.signature, ~a.full, ~b.full,
                        Stripped(a.filters.keyword) # "__EMPTY__",
                        Stripped(b.filters.keyword) # "__EMPTY__"
                 PROVE  a.scope = b.scope
      BY DEF SignatureIsScope
    <2>1. /\ frame # None /\ IsFrame(frame)
          /\ a.scope = Scope(a.filters).rows /\ b.scope = Scope(b.filters).rows
      BY DEF QueriesInv, Honest
    <2>2. \A x \in answers : \E service : x.signature = Signature(service, x.filters)
      BY DEF QueriesInv, Honest
    <2>3. \A service, f : Signature(service, f)[2] = Canonical(f)
      BY DEF Signature
    <2>4. Canonical(a.filters) = Canonical(b.filters)
      BY <2>2, <2>3
    <2> QED
      BY <2>1, <2>4, SameScope DEF Scope
  <1> QED
    BY <1>1, QueriesInvariant, PTL

\* PacketCovers of one answer, without operators that take operators.
Covers(a) ==
  /\ Len(a.packet) \in 1..Most(1, PacketSize)
  /\ \A i, j \in DOMAIN a.packet : i # j => Values(a.packet[i]) # Values(a.packet[j])
  /\ \E k \in DOMAIN a.packet : \A i \in DOMAIN a.scope :
       (-1) * a.scope[i].rating <= (-1) * a.packet[k].rating
  /\ PacketSize > 1 => \E k \in DOMAIN a.packet : \A i \in DOMAIN a.scope :
       1 * a.scope[i].rating <= 1 * a.packet[k].rating
  /\ PacketSize > 2 /\ CountOf(a.scope, IsMismatch) > 0 =>
       \E k \in DOMAIN a.packet :
         /\ IsMismatch(a.packet[k])
         /\ \A i \in DOMAIN a.scope :
              IsMismatch(a.scope[i]) => a.packet[k].sentiment <= a.scope[i].sentiment

(***************************************************************************)
(* A packet of any size has no review twice and shows the worst rating,    *)
(* the best one and the lowest sentiment among good ratings.               *)
(***************************************************************************)
THEOREM PacketAlwaysCovers == Spec => []PacketCovers
  <1>1. ASSUME QueriesInv, NEW a \in answers, a.by = "insight"
        PROVE  Covers(a)
    <2> DEFINE rows == a.scope
               packet == a.packet
               limit == Most(1, PacketSize)
               N == CountOf(rows, IsMismatch)
    <2>1. IsReviews(rows) /\ rows # <<>> /\ packet = Packet(rows)
      BY <1>1 DEF QueriesInv, Honest
    <2> HIDE DEF rows, packet
    <2>2. /\ IsList(packet) /\ Len(packet) \in 1..limit
          /\ \A k, l \in 1..Len(packet) : k # l => Values(packet[k]) # Values(packet[l])
          /\ \E k \in 1..Len(packet) :
               /\ packet[k].rating \in 10..50
               /\ \A j \in 1..Len(rows) : packet[k].rating <= rows[j].rating
          /\ limit > 1 => \E k \in 1..Len(packet) :
               /\ packet[k].rating \in 10..50
               /\ \A j \in 1..Len(rows) : rows[j].rating <= packet[k].rating
          /\ limit > 2 /\ MismatchCount(rows) # 0 => \E k \in 1..Len(packet) :
               /\ IsMismatch(packet[k])
               /\ \A j \in 1..Len(rows) :
                    IsMismatch(rows[j]) => packet[k].sentiment <= rows[j].sentiment
      BY <2>1, PacketIs
    <2>3. DOMAIN packet = 1..Len(packet) /\ DOMAIN rows = 1..Len(rows)
      BY <2>1, <2>2 DEF IsReviews, IsList
    <2>4. (PacketSize > 1 => limit > 1) /\ (PacketSize > 2 => limit > 2)
      BY ReviewAnalysisAssumption DEF Most
    <2>5. N > 0 => MismatchCount(rows) # 0
      BY DEF MismatchCount
    <2>6. \A i \in 1..Len(rows) : rows[i].rating \in 10..50
      BY <2>1 DEF IsReviews, IsReview, Kept
    <2> HIDE DEF N, limit
    <2>7. \E k \in DOMAIN packet :
            \A i \in DOMAIN rows : (-1) * rows[i].rating <= (-1) * packet[k].rating
      <3>1. PICK k \in 1..Len(packet) :
              /\ packet[k].rating \in 10..50
              /\ \A j \in 1..Len(rows) : packet[k].rating <= rows[j].rating
        BY <2>2
      <3>2. \A x, y \in 10..50 : x <= y => (-1) * y <= (-1) * x
        OBVIOUS
      <3>3. \A i \in 1..Len(rows) : (-1) * rows[i].rating <= (-1) * packet[k].rating
        BY <2>6, <3>1, <3>2
      <3> QED
        BY <2>3, <3>3
    <2>8. PacketSize > 1 => \E k \in DOMAIN packet :
            \A i \in DOMAIN rows : 1 * rows[i].rating <= 1 * packet[k].rating
      <3> SUFFICES ASSUME PacketSize > 1
                   PROVE  \E k \in DOMAIN packet :
                     \A i \in DOMAIN rows : 1 * rows[i].rating <= 1 * packet[k].rating
        OBVIOUS
      <3>1. PICK k \in 1..Len(packet) :
              /\ packet[k].rating \in 10..50
              /\ \A j \in 1..Len(rows) : rows[j].rating <= packet[k].rating
        BY <2>2, <2>4
      <3>2. \A x, y \in 10..50 : x <= y => 1 * x <= 1 * y
        OBVIOUS
      <3>3. \A i \in 1..Len(rows) : 1 * rows[i].rating <= 1 * packet[k].rating
        BY <2>6, <3>1, <3>2
      <3> QED
        BY <2>3, <3>3
    <2>9. PacketSize > 2 /\ N > 0 => \E k \in DOMAIN packet :
            /\ IsMismatch(packet[k])
            /\ \A i \in DOMAIN rows :
                 IsMismatch(rows[i]) => packet[k].sentiment <= rows[i].sentiment
      BY <2>2, <2>3, <2>4, <2>5
    <2>10. /\ Len(packet) \in 1..Most(1, PacketSize)
           /\ \A i, j \in DOMAIN packet : i # j => Values(packet[i]) # Values(packet[j])
      BY <2>2, <2>3 DEF limit
    <2> QED
      BY <2>7, <2>8, <2>9, <2>10, Zenon DEF N, rows, packet, Covers
  <1>2. QueriesInv => PacketCovers
    <2>1. QueriesInv => \A a \in {a \in answers : a.by = "insight"} : Covers(a)
      BY <1>1
    <2> QED
      BY <2>1 DEF PacketCovers, Covers
  <1> QED
    BY <1>2, QueriesInvariant, PTL

\* SummaryAddsUp of one answer.
AddsUp(a) == AddUp(a.scope, ValueOf(a, "total"), ValueOf(a, "bad ratio"),
                   ValueOf(a, "stars"), ValueOf(a, "bins"))

LEMMA NameIs == \A x, y : y = <<x>> => y[1] = x
  OBVIOUS

LEMMA ValuesAre ==
  ASSUME NEW a, Honest(a), a.by = "summary", a.figures # {}
  PROVE  /\ ValueOf(a, "total") = Len(a.scope)
         /\ ValueOf(a, "bad ratio") = HealthMetrics(a.scope).negative
         /\ ValueOf(a, "stars") = RatingDistribution(a.scope)
         /\ ValueOf(a, "bins") = SentimentDistribution(a.scope)
  <1>1. ASSUME NEW x \in {"total", "bad ratio", "stars", "bins"}
        PROVE  ValueOf(a, x) = Figure(a.scope, <<x>>)
    <2> DEFINE p == CHOOSE p \in a.figures : p[1] = <<x>>
    <2>1. \E q \in a.figures : q[1] = <<x>>
      BY DEF Honest
    <2>2. p \in a.figures /\ p[1] = <<x>>
      BY <2>1
    <2> HIDE DEF p
    <2>3. Says(a.scope, p)
      BY <2>2 DEF Honest
    <2>4. p[1][1] # "version"
      <3>1. p[1][1] = x
        BY <2>2, NameIs
      <3> QED
        BY <3>1
    <2>5. p[2] = Figure(a.scope, <<x>>)
      BY <2>2, <2>3, <2>4 DEF Says
    <2> QED
      BY <2>5 DEF ValueOf, p
  <1> QED
    BY <1>1 DEF Figure

\* The share of the bad, of none or of some reviews.
LEMMA BadRatioIs ==
  ASSUME NEW rows, IsReviews(rows)
  PROVE  HealthMetrics(rows).negative
           = Rounded(10000 * BadCount(rows), Most(1, Len(rows)))
  <1>1. /\ Len(rows) \in Nat /\ (rows # <<>> => Len(rows) # 0)
        /\ BadCount(rows) \in 0..Len(rows)
    BY CountsWithin
  <1>2. CASE rows = <<>>
    <2>1. HealthMetrics(rows).negative = 0
      BY <1>2 DEF HealthMetrics, NoMetrics
    <2>2. Len(rows) = 0 /\ BadCount(rows) = 0
      BY <1>1, <1>2
    <2>3. Most(1, Len(rows)) = 1 /\ 10000 * BadCount(rows) = 0
      BY <2>2 DEF Most
    <2>4. Rounded(0, 1) = 0
      BY DEF Rounded
    <2> QED
      BY <2>1, <2>3, <2>4
  <1>3. CASE rows # <<>>
    <2>1. HealthMetrics(rows).negative = Rounded(10000 * BadCount(rows), Len(rows))
      BY <1>3 DEF HealthMetrics, Ratio, BadCount
    <2>2. \A n \in Nat : n # 0 => Most(1, n) = n
      BY DEF Most
    <2>3. Most(1, Len(rows)) = Len(rows)
      BY <1>1, <1>3, <2>2
    <2> QED
      BY <2>1, <2>3
  <1> QED
    BY <1>2, <1>3

(***************************************************************************)
(* The distributions of a summary and its table of priorities count every  *)
(* review once, of whatever reviews it is.                                 *)
(***************************************************************************)
THEOREM SummaryAlwaysAddsUp == Spec => []SummaryAddsUp
  <1>1. ASSUME NEW a, Honest(a), a.by = "summary", a.figures # {}
        PROVE  AddsUp(a)
    <2> DEFINE rows == a.scope
               table == PriorityTable(rows, None, Len(GroupOrder))
               stars == RatingDistribution(rows)
               low == Sets!SumFunctionOnSet(stars, DOMAIN stars \cap 1..3)
    <2>1. IsReviews(rows)
      BY <1>1 DEF Honest
    <2>2. /\ ValueOf(a, "total") = Len(rows)
          /\ ValueOf(a, "bad ratio") = HealthMetrics(rows).negative
          /\ ValueOf(a, "stars") = stars
          /\ ValueOf(a, "bins") = SentimentDistribution(rows)
      BY <1>1, ValuesAre
    <2> HIDE DEF rows
    <2>3. Sets!SumFunction(stars) = Len(rows)
      BY <2>1, StarsAddUp
    <2>4. Sets!SumFunction(SentimentDistribution(rows)) = Len(rows)
      BY <2>1, BinsAddUp
    <2>5. Sets!SumFunction([k \in DOMAIN table |-> table[k].reviews]) = Len(rows)
      BY <2>1, TableAddsUp
    <2>6. (\A i \in DOMAIN rows : rows[i].rating % 10 = 0) =>
            HealthMetrics(rows).negative = Rounded(10000 * low, Most(1, Len(rows)))
      BY <2>1, StarsAddUp, BadRatioIs
    <2> QED
      <3>1. AddUp(rows, Len(rows), HealthMetrics(rows).negative, stars,
                  SentimentDistribution(rows))
        <4> HIDE DEF stars
        <4> QED
          BY <2>3, <2>4, <2>5, <2>6 DEF AddUp
      <3> QED
        BY <2>2, <3>1 DEF AddsUp, rows
  <1>2. QueriesInv => SummaryAddsUp
    <2>1. QueriesInv =>
            \A a \in {a \in answers : a.by = "summary" /\ a.figures # {}} : AddsUp(a)
      BY <1>1 DEF QueriesInv
    <2> QED
      BY <2>1 DEF SummaryAddsUp, AddsUp
  <1> QED
    BY <1>2, QueriesInvariant, PTL

\* The row that a figure of a table is.
LEMMA RankedFigure ==
  ASSUME NEW a, Honest(a), NEW p \in a.figures, p[1][1] = "priority"
  PROVE  /\ p[1][3] \in 1..Len(RankedGroups(a.scope, p[1][2]))
         /\ p[2] = RankedGroups(a.scope, p[1][2])[p[1][3]]
  <1>1. Says(a.scope, p) /\ Top(a.figures, a.scope)
    BY DEF Honest
  <1>2. p[2] = Figure(a.scope, p[1])
    BY <1>1 DEF Says
  <1> QED
    BY <1>1, <1>2 DEF Top, Figure

LEMMA StarScale == \A x : OnScale(x, 100, 500) => x \in Stars
  BY DEF OnScale, Stars

LEMMA ShareScale == \A x : OnScale(x, 0, 10000) => x \in Percents
  BY DEF OnScale, Percents

LEMMA BandIs ==
  ASSUME NEW score, NEW severity \in {"high", "medium", "low"}, InBand(score, severity)
  PROVE  score \in Band(severity)
  <1>1. CASE severity = "high"
    BY <1>1 DEF InBand, OnScale, Band
  <1>2. CASE severity = "medium"
    BY <1>2 DEF InBand, OnScale, Band
  <1>3. CASE severity = "low"
    BY <1>3 DEF InBand, OnScale, Band
  <1> QED
    BY <1>1, <1>2, <1>3

(***************************************************************************)
(* Means, shares and scores stay on their scales, and severities fit the   *)
(* scores, for whatever reviews and insights.                              *)
(***************************************************************************)
THEOREM FiguresAlwaysInRange == Spec => []FiguresInRange
  <1>1. ASSUME NEW a, Honest(a), a.scope # <<>>, NEW p \in a.figures
        PROVE  /\ p[1] = <<"rating">> => p[2] \in Stars
               /\ p[1] \in {<<"sentiment">>, <<"bad ratio">>} => p[2] \in Percents
    <2> DEFINE rows == a.scope
    <2>1. IsReviews(rows) /\ rows # <<>>
      BY <1>1 DEF Honest
    <2>2. p[1][1] # "version" => p[2] = Figure(rows, p[1])
      BY <1>1 DEF Honest, Says
    <2>3. /\ OnScale(AverageRating(rows), 100, 500)
          /\ OnScale(AverageSentiment(rows), 0, 10000)
          /\ OnScale(Ratio(BadCount(rows), rows), 0, 10000)
      BY <2>1, MeansWithin
    <2>4. /\ HealthMetrics(rows).rating = AverageRating(rows)
          /\ HealthMetrics(rows).sentiment = AverageSentiment(rows)
          /\ HealthMetrics(rows).negative = Ratio(BadCount(rows), rows)
      BY <2>1 DEF HealthMetrics, BadCount
    <2>5. /\ Figure(rows, <<"rating">>) = HealthMetrics(rows).rating
          /\ Figure(rows, <<"sentiment">>) = HealthMetrics(rows).sentiment
          /\ Figure(rows, <<"bad ratio">>) = HealthMetrics(rows).negative
      BY DEF Figure
    <2> HIDE DEF rows
    <2>6. CASE p[1] = <<"rating">>
      <3>1. p[2] = AverageRating(rows)
        BY <2>2, <2>4, <2>5, <2>6, NameIs
      <3> QED
        BY <2>3, <2>6, <3>1, StarScale
    <2>7. CASE p[1] = <<"sentiment">>
      <3>1. p[2] = AverageSentiment(rows)
        BY <2>2, <2>4, <2>5, <2>7, NameIs
      <3> QED
        BY <2>3, <2>7, <3>1, ShareScale
    <2>8. CASE p[1] = <<"bad ratio">>
      <3>1. p[1][1] = "bad ratio"
        BY <2>8, NameIs
      <3>2. p[2] = Figure(rows, <<"bad ratio">>)
        BY <2>2, <2>8, <3>1
      <3>3. p[2] = Ratio(BadCount(rows), rows)
        BY <2>4, <2>5, <3>2
      <3>4. p[2] \in Percents
        BY <2>3, <3>3, ShareScale
      <3> QED
        BY <2>8, <3>1, <3>4, NameIs
    <2> QED
      BY <2>6, <2>7, <2>8
  <1>2. ASSUME NEW a, Honest(a), NEW p \in a.figures, p[1][1] = "priority"
        PROVE  /\ p[2].reviews \in 1..Len(a.scope)
               /\ p[2].rating \in Stars /\ p[2].sentiment \in Percents
               /\ p[2].score \in Band(p[2].severity)
    <2> DEFINE rows == a.scope
               insights == p[1][2]
               r == p[2]
    <2>1. /\ p[1][3] \in 1..Len(RankedGroups(rows, insights))
          /\ r = RankedGroups(rows, insights)[p[1][3]]
      BY <1>2, RankedFigure
    <2>2. IsReviews(rows)
      BY <1>2 DEF Honest
    <2> HIDE DEF rows, insights, r
    <2>3. PICK i \in 1..Len(rows) : r = PriorityRow(rows, insights, rows[i].category)
      BY <2>1, <2>2, RankedGroupsAre
    <2>4. IsPriorityRow(rows, rows[i].category, r)
      BY <2>2, <2>3, PriorityRowIs
    <2>5. /\ r.reviews \in 1..Len(rows)
          /\ OnScale(r.rating, 100, 500) /\ OnScale(r.sentiment, 0, 10000)
          /\ r.severity \in {"high", "medium", "low"} /\ InBand(r.score, r.severity)
      BY <2>4 DEF IsPriorityRow
    <2> QED
      BY <2>5, StarScale, ShareScale, BandIs DEF rows, r
  <1>3. QueriesInv => FiguresInRange
    BY <1>1, <1>2 DEF QueriesInv, FiguresInRange
  <1> QED
    BY <1>3, QueriesInvariant, PTL

(***************************************************************************)
(* Tables are in the order of the scores, without a category twice, and    *)
(* cut below every row that they have.                                     *)
(***************************************************************************)
THEOREM PrioritiesAlwaysRanked == Spec => []PrioritiesRanked
  <1>1. ASSUME NEW a, Honest(a),
               NEW p \in a.figures, p[1][1] = "priority",
               NEW q \in a.figures, q[1][1] = "priority", p[1][3] < q[1][3]
        PROVE  p[2].score >= q[2].score /\ p[2].category # q[2].category
    <2> DEFINE T == RankedGroups(a.scope, p[1][2])
    <2>1. q[1][2] = p[1][2]
      BY <1>1 DEF Honest, Top
    <2>2. /\ p[1][3] \in 1..Len(T) /\ p[2] = T[p[1][3]]
          /\ q[1][3] \in 1..Len(T) /\ q[2] = T[q[1][3]]
      BY <1>1, <2>1, RankedFigure
    <2>3. \A k, l \in 1..Len(T) : k < l =>
            T[k].score >= T[l].score /\ T[k].category # T[l].category
      BY <1>1, RankedGroupsAre DEF Honest
    <2> QED
      BY <1>1, <2>2, <2>3
  <1>2. ASSUME NEW a, Honest(a), NEW p \in a.figures, p[1][1] = "priority",
               NEW i \in DOMAIN a.scope
        PROVE  \/ \E q \in a.figures : /\ q[1][1] = "priority"
                                       /\ q[2].category = a.scope[i].category
               \/ p[2].score >= PriorityRow(a.scope, p[1][2], a.scope[i].category).score
    <2> DEFINE rows == a.scope
               insights == p[1][2]
               c == rows[i].category
               T == RankedGroups(rows, insights)
               k == p[1][3]
               r == PriorityRow(rows, insights, c)
    <2>1. IsReviews(rows) /\ i \in 1..Len(rows)
      BY <1>2, PositionsAre DEF Honest
    <2>2. k \in 1..Len(T) /\ p[2] = T[k]
      BY <1>2, RankedFigure
    <2>3. /\ Len(T) \in Nat
          /\ \E l \in 1..Len(T) : T[l] = r
          /\ \A j, l \in 1..Len(T) : j < l => T[j].score >= T[l].score
      <3>1. r = PriorityRow(rows, insights, rows[i].category)
        OBVIOUS
      <3> HIDE DEF rows, insights, r
      <3>2. /\ Len(T) \in Nat
            /\ \A j, l \in 1..Len(T) : j < l => T[j].score >= T[l].score
        BY <2>1, RankedGroupsAre
      <3>3. \E l \in 1..Len(T) : T[l] = PriorityRow(rows, insights, rows[i].category)
        BY <2>1, RankedGroupsAre
      <3> QED
        BY <3>1, <3>2, <3>3
    <2>4. PICK l \in 1..Len(T) : T[l] = r
      BY <2>3
    <2>5. CASE l <= k
      <3>1. l \in 1..k
        BY <2>2, <2>3, <2>5
      <3>2. PICK q \in a.figures : q[1] = <<"priority", insights, l>>
        BY <1>2, <3>1 DEF Honest, Top
      <3>3. q[1][1] = "priority" /\ q[1][2] = insights /\ q[1][3] = l
        BY <3>2
      <3>4. q[2] = T[l]
        BY <1>2, <3>3, RankedFigure
      <3>5. r.category = c
        <4>1. IsPriorityRow(rows, c, r)
          <5> HIDE DEF rows, insights
          <5> QED
            BY <2>1, PriorityRowIs
        <4> HIDE DEF rows, insights, c, r
        <4> QED
          BY <4>1 DEF IsPriorityRow
      <3> HIDE DEF r
      <3>6. q[2].category = c
        BY <2>4, <3>4, <3>5
      <3> QED
        BY <3>3, <3>6
    <2>6. CASE k < l
      <3>1. T[k].score >= T[l].score
        BY <2>2, <2>3, <2>4, <2>6
      <3> QED
        BY <2>2, <2>4, <3>1
    <2> QED
      BY <2>2, <2>3, <2>4, <2>5, <2>6
  <1>3. QueriesInv => PrioritiesRanked
    BY <1>1, <1>2 DEF QueriesInv, PrioritiesRanked
  <1> QED
    BY <1>3, QueriesInvariant, PTL
=============================================================================
