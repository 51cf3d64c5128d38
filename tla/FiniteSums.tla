------------------------------ MODULE FiniteSums ------------------------------
(***************************************************************************)
(* Sums over finite sets, as SumFunctionOnSet of the community modules     *)
(* computes them: the facts that the balance of a wallet, the balance of   *)
(* credits and a host's revenue need.                                      *)
(*                                                                         *)
(* The fold takes the elements of a set in an order that CHOOSE fixes.     *)
(* That the order does not matter is SumRemove.  Facts about all finite    *)
(* sets are proved by a least counterexample (MinimalSubset), because the  *)
(* induction theorems of the library take an operator as their parameter.  *)
(***************************************************************************)
EXTENDS Integers, Functions, FiniteSetTheorems, WellFoundedInduction, TLAPS

\* The element a fold takes from a set, and the functions that satisfy its recursion.
Taken(s) == CHOOSE x \in s : TRUE
IsSum(g, f, T) ==
    g = [s \in SUBSET T |-> IF s = {} THEN 0 ELSE f[Taken(s)] + g[s \ {Taken(s)}]]

\* Of the subsets of a finite set that have a property, one is minimal.
LEMMA MinimalSubset ==
    ASSUME NEW T, IsFiniteSet(T), NEW B \in SUBSET (SUBSET T), B # {}
    PROVE  \E s \in B : \A r \in B : r \subseteq s => r = s
<1>1. IsWellFoundedOn(StrictSubsetOrdering(T), FiniteSubsetsOf(T))
  BY FS_StrictSubsetOrderingWellFounded
<1>2. B \subseteq FiniteSubsetsOf(T)
  BY FS_Subset DEF FiniteSubsetsOf
<1>3. PICK s \in B : \A r \in B : ~ (<<r, s>> \in StrictSubsetOrdering(T))
  BY <1>1, <1>2, WFMin
<1>4. QED
  BY <1>3 DEF StrictSubsetOrdering

\* The sum is a value of a function that satisfies the recursion of the fold.
LEMMA SumUnfold ==
    ASSUME NEW f, NEW S
    PROVE  SumFunctionOnSet(f, S) = (CHOOSE g : IsSum(g, f, S))[S]
  BY DEF SumFunctionOnSet, FoldFunctionOnSet, MapThenFoldSet, IsSum, Taken

\* Functions that satisfy the recursion on a set agree on it.
LEMMA IsSumUnique ==
    ASSUME NEW f, NEW T, IsFiniteSet(T), NEW U, T \subseteq U,
           NEW g, IsSum(g, f, T), NEW h, IsSum(h, f, U)
    PROVE  \A s \in SUBSET T : g[s] = h[s]
<1> DEFINE B == {s \in SUBSET T : g[s] # h[s]}
<1>1. SUFFICES ASSUME B # {} PROVE FALSE
  OBVIOUS
<1>2. B \in SUBSET (SUBSET T)
  OBVIOUS
<1> HIDE DEF B
<1>0. PICK s \in B : \A r \in B : r \subseteq s => r = s
  BY <1>1, <1>2, MinimalSubset
<1> USE DEF B
<1>3. s # {}
  BY DEF IsSum
<1>4. Taken(s) \in s
  BY <1>3 DEF Taken
<1>5. g[s \ {Taken(s)}] = h[s \ {Taken(s)}]
  BY <1>0, <1>4
<1>6. /\ g[s] = f[Taken(s)] + g[s \ {Taken(s)}]
      /\ h[s] = f[Taken(s)] + h[s \ {Taken(s)}]
  BY <1>3 DEF IsSum
<1>7. QED
  BY <1>5, <1>6

\* A function that satisfies the recursion on a set does so on each subset.
LEMMA IsSumBelow ==
    ASSUME NEW f, NEW S, NEW g, IsSum(g, f, S), NEW T \in SUBSET S
    PROVE  IsSum([s \in SUBSET T |-> g[s]], f, T)
<1>1. \A s \in SUBSET T : s # {} => Taken(s) \in s
  BY DEF Taken
<1>2. \A s \in SUBSET T : g[s] = IF s = {} THEN 0 ELSE f[Taken(s)] + g[s \ {Taken(s)}]
  BY DEF IsSum
<1>3. QED
  BY <1>1, <1>2 DEF IsSum

\* If a function satisfies the recursion on a set, it is the sum on each subset.
LEMMA SumIfExists ==
    ASSUME NEW f, NEW S, IsFiniteSet(S), NEW g, IsSum(g, f, S), NEW T \in SUBSET S
    PROVE  SumFunctionOnSet(f, T) = g[T]
<1>1. IsSum([s \in SUBSET T |-> g[s]], f, T)
  BY IsSumBelow
<1> DEFINE h == CHOOSE k : IsSum(k, f, T)
<1>2. IsSum(h, f, T)
  BY <1>1
<1>3. IsFiniteSet(T)
  BY FS_Subset
<1> HIDE DEF h
<1>4. h[T] = g[T]
  BY <1>2, <1>3, IsSumUnique
<1>5. QED
  BY <1>4, SumUnfold DEF h

\* On every finite set a function satisfies the recursion.
LEMMA SumExists ==
    ASSUME NEW f, NEW S, IsFiniteSet(S)
    PROVE  \E g : IsSum(g, f, S)
<1> DEFINE B == {s \in SUBSET S : ~ \E g : IsSum(g, f, s)}
<1>1. SUFFICES ASSUME B # {} PROVE FALSE
  OBVIOUS
<1>2. B \in SUBSET (SUBSET S)
  OBVIOUS
<1> HIDE DEF B
<1>3. PICK s \in B : \A r \in B : r \subseteq s => r = s
  BY <1>1, <1>2, MinimalSubset
<1> USE DEF B
<1> DEFINE sum(r) == SumFunctionOnSet(f, r)
           h == [r \in SUBSET s |-> IF r = {} THEN 0 ELSE f[Taken(r)] + sum(r \ {Taken(r)})]
<1>4. ASSUME NEW q \in SUBSET s, q # s
      PROVE  sum(q) = h[q]
  <2>1. PICK g : IsSum(g, f, q)
    BY <1>3, <1>4
  <2>2. IsFiniteSet(q)
    BY FS_Subset
  <2>3. sum(q) = g[q]
    BY <2>1, <2>2, SumIfExists
  <2>4. q # {} => Taken(q) \in q
    BY DEF Taken
  <2>5. sum(q \ {Taken(q)}) = g[q \ {Taken(q)}]
    BY <2>1, <2>2, SumIfExists
  <2>6. g[q] = IF q = {} THEN 0 ELSE f[Taken(q)] + g[q \ {Taken(q)}]
    BY <2>1 DEF IsSum
  <2> HIDE DEF sum
  <2>7. QED
    BY <2>3, <2>5, <2>6
<1>5. \A r \in SUBSET s : r # {} => r \ {Taken(r)} \in SUBSET s /\ r \ {Taken(r)} # s
  BY DEF Taken
<1> HIDE DEF sum
<1>6. IsSum(h, f, s)
  <2>1. \A r \in SUBSET s : r # {} => sum(r \ {Taken(r)}) = h[r \ {Taken(r)}]
    BY <1>4, <1>5
  <2>2. QED
    BY <2>1 DEF IsSum
<1>7. QED
  BY <1>3, <1>6

-----------------------------------------------------------------------------

\* Nothing sums up to nothing.
LEMMA SumEmpty ==
    ASSUME NEW f
    PROVE  SumFunctionOnSet(f, {}) = 0
<1>1. IsFiniteSet({})
  BY FS_EmptySet
<1>2. PICK g : IsSum(g, f, {})
  BY <1>1, SumExists
<1>3. SumFunctionOnSet(f, {}) = g[{}]
  BY <1>1, <1>2, SumIfExists
<1>4. g[{}] = 0
  BY <1>2 DEF IsSum
<1>5. QED
  BY <1>3, <1>4

\* The sum of a set is the element that the fold takes and the sum of the others.
LEMMA SumTaken ==
    ASSUME NEW f, NEW S, IsFiniteSet(S), S # {}
    PROVE  /\ Taken(S) \in S
           /\ SumFunctionOnSet(f, S) = f[Taken(S)] + SumFunctionOnSet(f, S \ {Taken(S)})
<1>1. PICK g : IsSum(g, f, S)
  BY SumExists
<1>2. SumFunctionOnSet(f, S) = g[S] /\ SumFunctionOnSet(f, S \ {Taken(S)}) = g[S \ {Taken(S)}]
  BY <1>1, SumIfExists
<1>3. g[S] = f[Taken(S)] + g[S \ {Taken(S)}]
  BY <1>1 DEF IsSum
<1>4. QED
  BY <1>2, <1>3 DEF Taken

\* Whole numbers sum up to a whole number.
LEMMA SumInt ==
    ASSUME NEW S, IsFiniteSet(S), NEW f, \A x \in S : f[x] \in Int
    PROVE  SumFunctionOnSet(f, S) \in Int
<1> DEFINE sum(s) == SumFunctionOnSet(f, s)
           B == {s \in SUBSET S : sum(s) \notin Int}
<1>1. SUFFICES ASSUME B # {} PROVE FALSE
  OBVIOUS
<1>2. B \in SUBSET (SUBSET S)
  OBVIOUS
<1> HIDE DEF B
<1>3. PICK s \in B : \A r \in B : r \subseteq s => r = s
  BY <1>1, <1>2, MinimalSubset
<1>4. s \in SUBSET S /\ sum(s) \notin Int
  BY DEF B
<1>5. s # {}
  BY <1>4, SumEmpty
<1>6. Taken(s) \in s /\ sum(s) = f[Taken(s)] + sum(s \ {Taken(s)})
  BY <1>4, <1>5, FS_Subset, SumTaken
<1>7. sum(s \ {Taken(s)}) \in Int
  <2>1. s \ {Taken(s)} \notin B
    BY <1>3, <1>6
  <2>2. QED
    BY <2>1, <1>4 DEF B
<1> HIDE DEF sum
<1>8. QED
  BY <1>4, <1>6, <1>7

\* Any element can be taken first: the order of the fold does not matter.
LEMMA SumRemove ==
    ASSUME NEW S, IsFiniteSet(S), NEW f, \A x \in S : f[x] \in Int, NEW x \in S
    PROVE  SumFunctionOnSet(f, S) = f[x] + SumFunctionOnSet(f, S \ {x})
<1> DEFINE sum(s) == SumFunctionOnSet(f, s)
           B == {s \in SUBSET S : \E y \in s : sum(s) # f[y] + sum(s \ {y})}
<1>1. SUFFICES ASSUME B # {} PROVE FALSE
  OBVIOUS
<1>2. B \in SUBSET (SUBSET S)
  OBVIOUS
<1> HIDE DEF B
<1>3. PICK s \in B : \A r \in B : r \subseteq s => r = s
  BY <1>1, <1>2, MinimalSubset
<1>4. PICK y \in s : sum(s) # f[y] + sum(s \ {y})
  BY DEF B
<1>5. s \in SUBSET S /\ IsFiniteSet(s)
  BY FS_Subset DEF B
<1> DEFINE z == Taken(s)
<1>6. z \in s /\ sum(s) = f[z] + sum(s \ {z})
  BY <1>4, <1>5, SumTaken
<1>7. y # z
  BY <1>4, <1>6
<1> DEFINE rest == (s \ {y}) \ {z}
<1>8. rest = (s \ {z}) \ {y}
  OBVIOUS
<1>9. sum(s \ {z}) = f[y] + sum(rest)
  <2>1. s \ {z} \notin B /\ s \ {z} \in SUBSET S /\ y \in s \ {z}
    BY <1>3, <1>5, <1>6, <1>7
  <2> HIDE DEF sum
  <2>2. QED
    BY <2>1, <1>8 DEF B
<1>10. sum(s \ {y}) = f[z] + sum(rest)
  <2>1. s \ {y} \notin B /\ s \ {y} \in SUBSET S /\ z \in s \ {y}
    BY <1>3, <1>5, <1>6, <1>7
  <2> HIDE DEF sum
  <2>2. QED
    BY <2>1 DEF B
<1>11. sum(rest) \in Int
  BY <1>5, FS_Subset, SumInt
<1> HIDE DEF sum, rest, z
<1>12. f[y] \in Int /\ f[z] \in Int
  BY <1>5, <1>6
<1>13. QED
  BY <1>4, <1>6, <1>9, <1>10, <1>11, <1>12

\* A new element adds its value to the sum.
LEMMA SumAdd ==
    ASSUME NEW S, IsFiniteSet(S), NEW x, x \notin S,
           NEW f, \A y \in S \cup {x} : f[y] \in Int
    PROVE  SumFunctionOnSet(f, S \cup {x}) = SumFunctionOnSet(f, S) + f[x]
<1>1. IsFiniteSet(S \cup {x})
  BY FS_AddElement
<1>2. (S \cup {x}) \ {x} = S
  OBVIOUS
<1>3. SumFunctionOnSet(f, S \cup {x}) = f[x] + SumFunctionOnSet(f, (S \cup {x}) \ {x})
  BY <1>1, SumRemove
<1>4. SumFunctionOnSet(f, S \cup {x}) = f[x] + SumFunctionOnSet(f, S)
  BY <1>2, <1>3
<1>5. SumFunctionOnSet(f, S) \in Int /\ f[x] \in Int
  BY SumInt
<1>6. QED
  BY <1>4, <1>5

\* Larger values have a larger sum.
LEMMA SumAtMost ==
    ASSUME NEW S, IsFiniteSet(S), NEW f, NEW g,
           \A x \in S : f[x] \in Int /\ g[x] \in Int /\ f[x] <= g[x]
    PROVE  SumFunctionOnSet(f, S) <= SumFunctionOnSet(g, S)
<1> DEFINE sum(h, s) == SumFunctionOnSet(h, s)
           B == {s \in SUBSET S : ~ (sum(f, s) <= sum(g, s))}
<1>1. SUFFICES ASSUME B # {} PROVE FALSE
  OBVIOUS
<1>2. B \in SUBSET (SUBSET S)
  OBVIOUS
<1> HIDE DEF B
<1>3. PICK s \in B : \A r \in B : r \subseteq s => r = s
  BY <1>1, <1>2, MinimalSubset
<1>4. s \in SUBSET S /\ IsFiniteSet(s) /\ ~ (sum(f, s) <= sum(g, s))
  BY FS_Subset DEF B
<1>5. s # {}
  <2>1. sum(f, {}) = 0 /\ sum(g, {}) = 0
    BY SumEmpty
  <2> HIDE DEF sum
  <2>2. QED
    BY <2>1, <1>4
<1> DEFINE z == Taken(s)
<1>6. z \in s /\ sum(f, s) = f[z] + sum(f, s \ {z}) /\ sum(g, s) = g[z] + sum(g, s \ {z})
  BY <1>4, <1>5, SumTaken
<1>7. sum(f, s \ {z}) \in Int /\ sum(g, s \ {z}) \in Int
  BY <1>4, FS_Subset, SumInt
<1> HIDE DEF sum
<1>8. sum(f, s \ {z}) <= sum(g, s \ {z})
  <2>1. s \ {z} \notin B
    BY <1>3, <1>6
  <2>2. QED
    BY <2>1, <1>4 DEF B
<1>9. QED
  BY <1>4, <1>6, <1>7, <1>8

\* Equal values have the same sum.
LEMMA SumEqual ==
    ASSUME NEW S, IsFiniteSet(S), NEW f, NEW g,
           \A x \in S : f[x] \in Int /\ g[x] = f[x]
    PROVE  SumFunctionOnSet(f, S) = SumFunctionOnSet(g, S)
<1>1. /\ SumFunctionOnSet(f, S) \in Int
      /\ SumFunctionOnSet(g, S) \in Int
  BY SumInt
<1>2. /\ SumFunctionOnSet(f, S) <= SumFunctionOnSet(g, S)
      /\ SumFunctionOnSet(g, S) <= SumFunctionOnSet(f, S)
  BY SumAtMost
<1>3. QED
  BY <1>1, <1>2

\* The sum of two disjoint sets is the sum of their sums.
LEMMA SumUnion ==
    ASSUME NEW S, IsFiniteSet(S), NEW T, IsFiniteSet(T), S \cap T = {},
           NEW f, \A x \in S \cup T : f[x] \in Int
    PROVE  SumFunctionOnSet(f, S \cup T) = SumFunctionOnSet(f, S) + SumFunctionOnSet(f, T)
<1> DEFINE sum(s) == SumFunctionOnSet(f, s)
           B == {t \in SUBSET T : sum(S \cup t) # sum(S) + sum(t)}
<1>1. SUFFICES ASSUME B # {} PROVE FALSE
  OBVIOUS
<1>2. B \in SUBSET (SUBSET T)
  OBVIOUS
<1> HIDE DEF B
<1>3. PICK t \in B : \A r \in B : r \subseteq t => r = t
  BY <1>1, <1>2, MinimalSubset
<1>4. t \in SUBSET T /\ IsFiniteSet(t) /\ sum(S \cup t) # sum(S) + sum(t)
  BY FS_Subset DEF B
<1>0. IsFiniteSet(S \cup t)
  BY <1>4, FS_Union
<1>5. sum(S) \in Int
  BY SumInt
<1>6. t # {}
  <2>1. sum({}) = 0
    BY SumEmpty
  <2>2. SUFFICES ASSUME t = {} PROVE FALSE
    OBVIOUS
  <2>3. S \cup t = S
    BY <2>2
  <2> HIDE DEF sum
  <2>4. QED
    BY <2>1, <2>2, <2>3, <1>4, <1>5
<1>7. PICK z : z \in t
  BY <1>6
<1>8. sum(t) = f[z] + sum(t \ {z})
  BY <1>4, <1>7, SumRemove
<1>9. sum(S \cup t) = f[z] + sum((S \cup t) \ {z})
  BY <1>0, <1>4, <1>7, SumRemove
<1>10. sum((S \cup t) \ {z}) = sum(S \cup (t \ {z}))
  <2>1. (S \cup t) \ {z} = S \cup (t \ {z})
    BY <1>4, <1>7
  <2>2. QED
    BY <2>1
<1>11. sum(t \ {z}) \in Int
  BY <1>4, FS_Subset, SumInt
<1> HIDE DEF sum
<1>12. sum(S \cup (t \ {z})) = sum(S) + sum(t \ {z})
  <2>1. t \ {z} \notin B
    BY <1>3, <1>7
  <2>2. QED
    BY <2>1, <1>4 DEF B
<1>13. f[z] \in Int
  BY <1>4, <1>7
<1>14. QED
  BY <1>4, <1>5, <1>8, <1>9, <1>10, <1>11, <1>12, <1>13

\* Values that are not negative have a sum that is not negative.
LEMMA SumNat ==
    ASSUME NEW S, IsFiniteSet(S), NEW f, \A x \in S : f[x] \in Nat
    PROVE  SumFunctionOnSet(f, S) \in Nat
<1> DEFINE zero == [x \in S |-> 0]
           B == {s \in SUBSET S : SumFunctionOnSet(zero, s) # 0}
<1>1. SumFunctionOnSet(zero, S) = 0
  <2>1. SUFFICES ASSUME B # {} PROVE FALSE
    OBVIOUS
  <2>2. B \in SUBSET (SUBSET S)
    OBVIOUS
  <2> HIDE DEF B
  <2>3. PICK s \in B : \A r \in B : r \subseteq s => r = s
    BY <2>1, <2>2, MinimalSubset
  <2>4. s \in SUBSET S /\ IsFiniteSet(s) /\ SumFunctionOnSet(zero, s) # 0
    BY FS_Subset DEF B
  <2>5. s # {}
    BY <2>4, SumEmpty
  <2>6. /\ Taken(s) \in s
        /\ SumFunctionOnSet(zero, s) = zero[Taken(s)] + SumFunctionOnSet(zero, s \ {Taken(s)})
    BY <2>4, <2>5, SumTaken
  <2>7. s \ {Taken(s)} \notin B
    BY <2>3, <2>6
  <2>8. SumFunctionOnSet(zero, s \ {Taken(s)}) = 0
    BY <2>4, <2>7 DEF B
  <2>9. zero[Taken(s)] = 0
    BY <2>4, <2>6
  <2>10. QED
    BY <2>4, <2>6, <2>8, <2>9
<1>2. \A x \in S : zero[x] \in Int /\ f[x] \in Int /\ zero[x] <= f[x]
  OBVIOUS
<1> HIDE DEF zero
<1>3. SumFunctionOnSet(zero, S) <= SumFunctionOnSet(f, S)
  BY <1>2, SumAtMost
<1>4. SumFunctionOnSet(f, S) \in Int
  BY SumInt
<1>5. QED
  BY <1>1, <1>3, <1>4

\* A larger set has a larger sum when what it has more is not negative.
LEMMA SumSubset ==
    ASSUME NEW T, IsFiniteSet(T), NEW S, S \subseteq T,
           NEW f, \A x \in T : f[x] \in Int, \A x \in T \ S : f[x] >= 0
    PROVE  SumFunctionOnSet(f, S) <= SumFunctionOnSet(f, T)
<1>1. IsFiniteSet(S) /\ IsFiniteSet(T \ S)
  BY FS_Subset
<1>2. S \cup (T \ S) = T /\ S \cap (T \ S) = {}
  OBVIOUS
<1>3. SumFunctionOnSet(f, S \cup (T \ S)) = SumFunctionOnSet(f, S) + SumFunctionOnSet(f, T \ S)
  BY <1>1, <1>2, SumUnion
<1>4. SumFunctionOnSet(f, S) \in Int
  BY <1>1, SumInt
<1>5. \A x \in T \ S : f[x] \in Nat
  OBVIOUS
<1>6. SumFunctionOnSet(f, T \ S) \in Nat
  BY <1>1, <1>5, SumNat
<1>7. SumFunctionOnSet(f, T) = SumFunctionOnSet(f, S) + SumFunctionOnSet(f, T \ S)
  BY <1>2, <1>3
<1>8. QED
  BY <1>4, <1>6, <1>7
===============================================================================
