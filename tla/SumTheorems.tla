----------------------------- MODULE SumTheorems -----------------------------
(***************************************************************************)
(* What SumFunctionOnSet, by which the totals of trades, stocks and         *)
(* portfolios are defined, computes for every finite set: the sum does not  *)
(* depend on the order in which the elements are chosen, so one element can *)
(* be added, taken away or given another value.                             *)
(*                                                                          *)
(* The induction over finite sets is by minimal counterexample: a set of    *)
(* subsets of a finite set has one that contains no other of them.          *)
(***************************************************************************)
EXTENDS Integers, FiniteSets, Functions, FiniteSetTheorems, TLAPS

Chosen(T) == CHOOSE x \in T : TRUE

\* g computes the sums of f over the subsets of S.
IsFold(g, f, S) ==
  g = [T \in SUBSET S |->
         IF T = {} THEN 0 ELSE f[Chosen(T)] + g[T \ {Chosen(T)}]]

\* The element chosen of a set is in it.
LEMMA ChosenIn == \A T : T # {} => Chosen(T) \in T
BY DEF Chosen

\* The recursive function in the definition of the sum is a fold, if there is one.
LEMMA SumIsFold ==
  \A f, S : SumFunctionOnSet(f, S) = (CHOOSE g : IsFold(g, f, S))[S]
BY DEF SumFunctionOnSet, FoldFunctionOnSet, MapThenFoldSet, IsFold, Chosen

\* Induction: of some subsets of a finite set, one contains no other.
LEMMA Minimal ==
  ASSUME NEW S, IsFiniteSet(S), NEW C \in SUBSET (SUBSET S), C # {}
  PROVE  \E T \in C : \A U \in C : U \subseteq T => U = T
<1>1. IsWellFoundedOn(StrictSubsetOrdering(S), SUBSET S)
  BY FS_StrictSubsetOrderingWellFounded, FS_FiniteSubsetsOfFinite
<1>2. \E T \in C : \A U \in C : ~(<<U, T>> \in StrictSubsetOrdering(S))
  BY <1>1, WFMin
<1> QED
  BY <1>2 DEF StrictSubsetOrdering

\* A fold at one of its sets.
LEMMA FoldAt ==
  ASSUME NEW g, NEW f, NEW S, IsFold(g, f, S), NEW T \in SUBSET S
  PROVE  g[T] = IF T = {} THEN 0 ELSE f[Chosen(T)] + g[T \ {Chosen(T)}]
<1> DEFINE body(U) == IF U = {} THEN 0 ELSE f[Chosen(U)] + g[U \ {Chosen(U)}]
<1>1. g = [U \in SUBSET S |-> body(U)]
  BY DEF IsFold
<1> HIDE DEF body
<1>2. g[T] = body(T)
  BY <1>1
<1> QED
  BY <1>2 DEF body

\* Two folds agree where they are both defined.
LEMMA FoldsAgree ==
  ASSUME NEW f, NEW S, IsFiniteSet(S), NEW R \in SUBSET S,
         NEW g, IsFold(g, f, S), NEW h, IsFold(h, f, R)
  PROVE  g[R] = h[R]
<1> DEFINE C == {T \in SUBSET R : g[T] # h[T]}
<1>1. SUFFICES ASSUME C # {} PROVE FALSE
  OBVIOUS
<1>2. IsFiniteSet(R)
  BY FS_Subset
<1>3. PICK T \in C : \A U \in C : U \subseteq T => U = T
  <2>1. C \in SUBSET (SUBSET R)
    OBVIOUS
  <2> HIDE DEF C
  <2> QED
    BY <1>1, <1>2, <2>1, Minimal
<1>4. T \in SUBSET R /\ g[T] # h[T]
  BY <1>3
<1> HIDE DEF C
<1>5. g[T] = IF T = {} THEN 0 ELSE f[Chosen(T)] + g[T \ {Chosen(T)}]
  BY <1>4, FoldAt
<1>6. h[T] = IF T = {} THEN 0 ELSE f[Chosen(T)] + h[T \ {Chosen(T)}]
  BY <1>4, FoldAt
<1>7. T # {}
  BY <1>4, <1>5, <1>6
<1>8. g[T \ {Chosen(T)}] = h[T \ {Chosen(T)}]
  <2> DEFINE U == T \ {Chosen(T)}
  <2>1. U \in SUBSET R /\ U \subseteq T /\ U # T
    BY <1>4, <1>7, ChosenIn
  <2> QED
    BY <1>3, <2>1 DEF C
<1> QED
  BY <1>4, <1>5, <1>6, <1>7, <1>8

\* Whatever f is, its sums over the subsets of a finite set have a fold.
LEMMA FoldExists ==
  ASSUME NEW f, NEW S, IsFiniteSet(S)
  PROVE  \E g : IsFold(g, f, S)
<1> DEFINE C == {T \in SUBSET S : ~\E g : IsFold(g, f, T)}
           sum(T) == SumFunctionOnSet(f, T)
<1>1. SUFFICES ASSUME C # {} PROVE FALSE
  OBVIOUS
<1>2. PICK T \in C : \A U \in C : U \subseteq T => U = T
  <2>1. C \in SUBSET (SUBSET S)
    OBVIOUS
  <2> HIDE DEF C
  <2> QED
    BY <1>1, <2>1, Minimal
<1>3. \A U \in SUBSET T : U # T => IsFold(CHOOSE g : IsFold(g, f, U), f, U)
  BY <1>2
<1>4. ASSUME NEW U \in SUBSET T, U # T
      PROVE  sum(U) = IF U = {} THEN 0 ELSE f[Chosen(U)] + sum(U \ {Chosen(U)})
  <2> DEFINE g == CHOOSE x : IsFold(x, f, U)
             V == U \ {Chosen(U)}
             h == CHOOSE x : IsFold(x, f, V)
  <2>1. IsFold(g, f, U) /\ sum(U) = g[U]
    BY <1>3, <1>4, SumIsFold
  <2>2. g[U] = IF U = {} THEN 0 ELSE f[Chosen(U)] + g[V]
    BY <2>1, FoldAt
  <2>3. IsFold(h, f, V) /\ sum(V) = h[V]
    BY <1>3, <1>4, SumIsFold
  <2>4. IsFiniteSet(U)
    BY FS_Subset
  <2>5. g[V] = h[V]
    <3> HIDE DEF g, h
    <3> QED
      BY <2>1, <2>3, <2>4, FoldsAgree
  <2> QED
    BY <2>1, <2>2, <2>3, <2>5
<1> DEFINE h == [U \in SUBSET T |->
                   IF U = {} THEN 0 ELSE f[Chosen(U)] + sum(U \ {Chosen(U)})]
<1>5. ASSUME NEW U \in SUBSET T, U # {}
      PROVE  sum(U \ {Chosen(U)}) = h[U \ {Chosen(U)}]
  <2>1. U \ {Chosen(U)} \in SUBSET T /\ U \ {Chosen(U)} # T
    BY <1>5, ChosenIn
  <2> QED
    BY <1>4, <2>1
<1>6. IsFold(h, f, T)
  <2> DEFINE k == [U \in SUBSET T |->
                     IF U = {} THEN 0 ELSE f[Chosen(U)] + h[U \ {Chosen(U)}]]
  <2>1. \A U \in SUBSET T : h[U] = k[U]
    <3> SUFFICES ASSUME NEW U \in SUBSET T PROVE h[U] = k[U]
      OBVIOUS
    <3>1. k[U] = IF U = {} THEN 0 ELSE f[Chosen(U)] + h[U \ {Chosen(U)}]
      OBVIOUS
    <3>2. h[U] = IF U = {} THEN 0 ELSE f[Chosen(U)] + sum(U \ {Chosen(U)})
      OBVIOUS
    <3> HIDE DEF h, k, sum
    <3> QED
      BY <1>5, <3>1, <3>2
  <2>2. h = k
    BY <2>1
  <2> QED
    BY <2>2 DEF IsFold
<1> QED
  BY <1>2, <1>6

\* The sum of no elements is 0; that of others is the value of the one chosen
\* and the sum of the rest.
THEOREM SumStep ==
  ASSUME NEW f, NEW S, IsFiniteSet(S)
  PROVE  SumFunctionOnSet(f, S) =
           IF S = {} THEN 0
           ELSE f[Chosen(S)] + SumFunctionOnSet(f, S \ {Chosen(S)})
<1> DEFINE U == S \ {Chosen(S)}
           g == CHOOSE x : IsFold(x, f, S)
           h == CHOOSE x : IsFold(x, f, U)
<1>1. IsFiniteSet(U)
  BY FS_Subset
<1>2. IsFold(g, f, S) /\ SumFunctionOnSet(f, S) = g[S]
  BY FoldExists, SumIsFold
<1>3. IsFold(h, f, U) /\ SumFunctionOnSet(f, U) = h[U]
  BY <1>1, FoldExists, SumIsFold
<1> HIDE DEF g, h
<1>4. g[S] = IF S = {} THEN 0 ELSE f[Chosen(S)] + g[U]
  BY <1>2, FoldAt
<1>5. g[U] = h[U]
  BY <1>2, <1>3, FoldsAgree
<1> QED
  BY <1>2, <1>3, <1>4, <1>5

\* The sum of nothing is 0.
COROLLARY SumEmpty == \A f : SumFunctionOnSet(f, {}) = 0
BY SumStep, FS_EmptySet

\* The sum of integers is one.
THEOREM SumType ==
  ASSUME NEW f, NEW S, IsFiniteSet(S), \A x \in S : f[x] \in Int
  PROVE  SumFunctionOnSet(f, S) \in Int
<1> DEFINE C == {T \in SUBSET S : SumFunctionOnSet(f, T) \notin Int}
<1>1. SUFFICES ASSUME C # {} PROVE FALSE
  OBVIOUS
<1>2. PICK T \in C : \A U \in C : U \subseteq T => U = T
  <2>1. C \in SUBSET (SUBSET S)
    OBVIOUS
  <2> HIDE DEF C
  <2> QED
    BY <1>1, <2>1, Minimal
<1>3. IsFiniteSet(T)
  BY FS_Subset
<1>4. T # {} /\ Chosen(T) \in S
  <2>1. SumFunctionOnSet(f, T) \notin Int
    BY <1>2
  <2>2. T # {}
    BY <2>1, SumEmpty
  <2> QED
    BY <2>2, ChosenIn
<1>5. SumFunctionOnSet(f, T \ {Chosen(T)}) \in Int
  <2>1. T \ {Chosen(T)} \in SUBSET S /\ T \ {Chosen(T)} # T
    BY <1>4, ChosenIn
  <2> QED
    BY <1>2, <2>1
<1> QED
  BY <1>2, <1>3, <1>4, <1>5, SumStep

\* Any element may be taken out first.
THEOREM SumRemove ==
  ASSUME NEW f, NEW S, IsFiniteSet(S), \A x \in S : f[x] \in Int, NEW y \in S
  PROVE  SumFunctionOnSet(f, S) = f[y] + SumFunctionOnSet(f, S \ {y})
<1> DEFINE sum(T) == SumFunctionOnSet(f, T)
           C == {T \in SUBSET S : \E z \in T : sum(T) # f[z] + sum(T \ {z})}
<1>1. SUFFICES ASSUME C # {} PROVE FALSE
  OBVIOUS
<1>2. PICK T \in C : \A U \in C : U \subseteq T => U = T
  <2>1. C \in SUBSET (SUBSET S)
    OBVIOUS
  <2> HIDE DEF C
  <2> QED
    BY <1>1, <2>1, Minimal
<1>3. PICK z \in T : sum(T) # f[z] + sum(T \ {z})
  BY <1>2
<1> DEFINE c == Chosen(T)
<1>4. c \in T /\ sum(T) = f[c] + sum(T \ {c})
  BY <1>3, FS_Subset, SumStep, ChosenIn
<1>5. c # z
  BY <1>3, <1>4
<1>6. \A U \in SUBSET T : U # T => \A x \in U : sum(U) = f[x] + sum(U \ {x})
  BY <1>2
<1>7. sum(T \ {c}) = f[z] + sum(T \ {c, z})
  <2>1. (T \ {c}) \ {z} = T \ {c, z}
    OBVIOUS
  <2> QED
    BY <1>4, <1>5, <1>6, <2>1
<1>8. sum(T \ {z}) = f[c] + sum(T \ {c, z})
  <2>1. (T \ {z}) \ {c} = T \ {c, z}
    OBVIOUS
  <2> QED
    BY <1>4, <1>5, <1>6, <2>1
<1>9. f[c] \in Int /\ f[z] \in Int /\ sum(T \ {c, z}) \in Int
  <2>1. IsFiniteSet(T \ {c, z})
    BY FS_Subset
  <2> QED
    BY <1>4, <2>1, SumType
<1> HIDE DEF sum, c
<1> QED
  BY <1>3, <1>4, <1>7, <1>8, <1>9

\* An element that is added adds its value.
THEOREM SumAdd ==
  ASSUME NEW f, NEW S, IsFiniteSet(S), NEW y, y \notin S,
         \A x \in S \cup {y} : f[x] \in Int
  PROVE  SumFunctionOnSet(f, S \cup {y}) = SumFunctionOnSet(f, S) + f[y]
<1> DEFINE T == S \cup {y}
<1>1. IsFiniteSet(T) /\ y \in T
  BY FS_AddElement
<1>2. T \ {y} = S
  OBVIOUS
<1>3. \A x \in T : f[x] \in Int
  OBVIOUS
<1>4. SumFunctionOnSet(f, S) \in Int /\ f[y] \in Int
  BY SumType
<1> HIDE DEF T
<1>5. SumFunctionOnSet(f, T) = f[y] + SumFunctionOnSet(f, S)
  BY <1>1, <1>2, <1>3, SumRemove
<1> QED
  BY <1>4, <1>5 DEF T

\* The sum depends on the values of the elements only.
THEOREM SumAgrees ==
  ASSUME NEW f, NEW g, NEW S, IsFiniteSet(S), \A x \in S : f[x] = g[x]
  PROVE  SumFunctionOnSet(f, S) = SumFunctionOnSet(g, S)
<1> DEFINE C == {T \in SUBSET S : SumFunctionOnSet(f, T) # SumFunctionOnSet(g, T)}
<1>1. SUFFICES ASSUME C # {} PROVE FALSE
  OBVIOUS
<1>2. PICK T \in C : \A U \in C : U \subseteq T => U = T
  <2>1. C \in SUBSET (SUBSET S)
    OBVIOUS
  <2> HIDE DEF C
  <2> QED
    BY <1>1, <2>1, Minimal
<1>3. IsFiniteSet(T)
  BY FS_Subset
<1>4. T # {} /\ Chosen(T) \in T
  <2>1. SumFunctionOnSet(f, T) # SumFunctionOnSet(g, T)
    BY <1>2
  <2>2. T # {}
    BY <2>1, SumEmpty
  <2> QED
    BY <2>2, ChosenIn
<1>5. SumFunctionOnSet(f, T \ {Chosen(T)}) = SumFunctionOnSet(g, T \ {Chosen(T)})
  BY <1>2, <1>4
<1> QED
  BY <1>2, <1>3, <1>4, <1>5, SumStep

\* Nothing added up is nothing.
THEOREM SumZero ==
  ASSUME NEW f, NEW S, IsFiniteSet(S), \A x \in S : f[x] = 0
  PROVE  SumFunctionOnSet(f, S) = 0
<1> DEFINE C == {T \in SUBSET S : SumFunctionOnSet(f, T) # 0}
<1>1. SUFFICES ASSUME C # {} PROVE FALSE
  OBVIOUS
<1>2. PICK T \in C : \A U \in C : U \subseteq T => U = T
  <2>1. C \in SUBSET (SUBSET S)
    OBVIOUS
  <2> HIDE DEF C
  <2> QED
    BY <1>1, <2>1, Minimal
<1>3. IsFiniteSet(T)
  BY FS_Subset
<1>4. T # {} /\ Chosen(T) \in T
  <2>1. SumFunctionOnSet(f, T) # 0
    BY <1>2
  <2>2. T # {}
    BY <2>1, SumEmpty
  <2> QED
    BY <2>2, ChosenIn
<1>5. SumFunctionOnSet(f, T \ {Chosen(T)}) = 0
  <2>1. T \ {Chosen(T)} \in SUBSET S /\ T \ {Chosen(T)} \subseteq T /\ T \ {Chosen(T)} # T
    BY <1>4
  <2> QED
    BY <1>2, <2>1
<1> QED
  BY <1>2, <1>3, <1>4, <1>5, SumStep

\* One value changes, and the sum by the difference.
THEOREM SumChange ==
  ASSUME NEW f, NEW g, NEW S, IsFiniteSet(S), NEW y \in S,
         \A x \in S : f[x] \in Int /\ g[x] \in Int,
         \A x \in S \ {y} : g[x] = f[x]
  PROVE  SumFunctionOnSet(g, S) = SumFunctionOnSet(f, S) + (g[y] - f[y])
<1>1. SumFunctionOnSet(f, S) = f[y] + SumFunctionOnSet(f, S \ {y})
  BY SumRemove
<1>2. SumFunctionOnSet(g, S) = g[y] + SumFunctionOnSet(g, S \ {y})
  BY SumRemove
<1>3. SumFunctionOnSet(g, S \ {y}) = SumFunctionOnSet(f, S \ {y})
  BY FS_Subset, SumAgrees
<1>4. SumFunctionOnSet(f, S \ {y}) \in Int
  BY FS_Subset, SumType
<1>5. f[y] \in Int /\ g[y] \in Int
  OBVIOUS
<1> QED
  BY <1>1, <1>2, <1>3, <1>4, <1>5

\* What is 0 can be left out of a sum.
THEOREM SumRest ==
  ASSUME NEW f, NEW S, IsFiniteSet(S), \A x \in S : f[x] \in Int, NEW T \in SUBSET S,
         \A x \in S \ T : f[x] = 0
  PROVE  SumFunctionOnSet(f, S) = SumFunctionOnSet(f, T)
<1> DEFINE sum(R) == SumFunctionOnSet(f, R)
           C == {R \in SUBSET (S \ T) : sum(T \cup R) # sum(T)}
<1>1. SUFFICES C = {}
  <2>1. S \ T \notin C
    OBVIOUS
  <2>2. T \cup (S \ T) = S
    OBVIOUS
  <2>3. sum(T \cup (S \ T)) = sum(T)
    BY <2>1
  <2> QED
    BY <2>2, <2>3
<1>2. SUFFICES ASSUME C # {} PROVE FALSE
  OBVIOUS
<1>3. PICK R \in C : \A U \in C : U \subseteq R => U = R
  <2>1. C \in SUBSET (SUBSET (S \ T)) /\ IsFiniteSet(S \ T)
    BY FS_Subset
  <2> HIDE DEF C
  <2> QED
    BY <1>2, <2>1, Minimal
<1>4. R \subseteq S \ T /\ sum(T \cup R) # sum(T)
  BY <1>3
<1>5. PICK y : y \in R
  <2>1. R = {} => T \cup R = T
    OBVIOUS
  <2> QED
    BY <1>4, <2>1
<1>6. sum(T \cup (R \ {y})) = sum(T)
  <2>1. R \ {y} \in SUBSET (S \ T) /\ R \ {y} \subseteq R /\ R \ {y} # R
    BY <1>4, <1>5
  <2>2. R \ {y} \notin C
    BY <1>3, <2>1
  <2> QED
    BY <2>1, <2>2
<1>7. /\ IsFiniteSet(T \cup R) /\ y \in T \cup R /\ T \cup R \subseteq S /\ f[y] = 0
      /\ (T \cup R) \ {y} = T \cup (R \ {y})
  BY <1>4, <1>5, FS_Subset
<1> HIDE DEF C
<1>8. SumFunctionOnSet(f, T \cup R) = f[y] + SumFunctionOnSet(f, (T \cup R) \ {y})
  BY <1>7, SumRemove
<1>9. sum(T \cup R) = sum(T \cup (R \ {y}))
  <2>1. sum((T \cup R) \ {y}) \in Int
    <3>1. IsFiniteSet((T \cup R) \ {y}) /\ \A x \in (T \cup R) \ {y} : f[x] \in Int
      BY <1>7, FS_Subset
    <3> QED
      BY <3>1, SumType
  <2>2. sum(T \cup R) = f[y] + sum((T \cup R) \ {y})
    BY <1>8
  <2>3. sum((T \cup R) \ {y}) = sum(T \cup (R \ {y}))
    BY <1>7
  <2> HIDE DEF sum
  <2> QED
    BY <1>7, <2>1, <2>2, <2>3
<1> QED
  BY <1>4, <1>6, <1>9
=============================================================================
