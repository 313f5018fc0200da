------------------------------ MODULE SumTheorems ------------------------------
(* Induction over numbers and finite sets, and sums of functions over sets.     *)
EXTENDS Functions, FiniteSets, FiniteSetTheorems, WellFoundedInduction, TLAPS

-----------------------------------------------------------------------------
(* Induction                                                                   *)

\* Every nonempty set of natural numbers has a least element.
LEMMA LeastElement ==
    ASSUME NEW S \in SUBSET Nat, S # {}
    PROVE  \E x \in S : \A y \in S : x <= y
<1>1. IsWellFoundedOn(OpToRel(<, Nat), Nat)
  BY NatLessThanWellFounded
<1>2. PICK x \in S : \A y \in S : ~ (<<y, x>> \in OpToRel(<, Nat))
  BY <1>1, WFMin
<1>3. \A y \in S : ~(y < x)
  BY <1>2 DEF OpToRel
<1> QED BY <1>3

\* Numbers that start at 0 and go on by one are all numbers.
LEMMA NumberInduction ==
    ASSUME NEW F, 0 \in F, \A n \in Nat : n \in F => n + 1 \in F
    PROVE  \A n \in Nat : n \in F
<1> SUFFICES ASSUME NEW n \in Nat, n \notin F PROVE FALSE
  OBVIOUS
<1> DEFINE Rest == Nat \ F
<1>1. PICK k \in Rest : \A j \in Rest : k <= j
  <2>1. Rest \in SUBSET Nat /\ Rest # {}
    OBVIOUS
  <2> HIDE DEF Rest
  <2> QED BY <2>1, LeastElement
<1>2. k - 1 \in Nat /\ k - 1 \notin Rest
  BY <1>1
<1>3. k - 1 + 1 \in F
  BY <1>2
<1> QED BY <1>1, <1>3

\* A nonempty family of subsets of a finite set has a least one.
LEMMA SmallestSubset ==
    ASSUME NEW S, IsFiniteSet(S), NEW F, F \subseteq SUBSET S, F # {}
    PROVE  \E T \in F : \A U \in F : U \subseteq T => U = T
<1>1. IsWellFoundedOn(StrictSubsetOrdering(S), FiniteSubsetsOf(S))
  BY FS_StrictSubsetOrderingWellFounded
<1>2. F \subseteq FiniteSubsetsOf(S)
  BY FS_FiniteSubsetsOfFinite
<1>3. PICK T \in F : \A U \in F : ~ (<<U, T>> \in StrictSubsetOrdering(S))
  BY <1>1, <1>2, WFMin
<1>4. ASSUME NEW U \in F, U \subseteq T, U # T
      PROVE  FALSE
  <2>1. <<U, T>> \in StrictSubsetOrdering(S)
    BY <1>4 DEF StrictSubsetOrdering
  <2> QED BY <2>1, <1>3
<1> QED BY <1>4

\* A family that has the empty set, and with a set every one that is larger by
\* an element of S, has S.
LEMMA SetInduction ==
    ASSUME NEW S, IsFiniteSet(S), NEW F, {} \in F,
           \A T \in SUBSET S : \A x \in S : T \in F /\ x \notin T => T \cup {x} \in F
    PROVE  S \in F
<1> DEFINE Rest == {T \in SUBSET S : S \ T \in F}
<1>1. S \in Rest
  OBVIOUS
<1>2. PICK T \in Rest : \A U \in Rest : U \subseteq T => U = T
  <2>1. Rest \subseteq SUBSET S /\ Rest # {}
    BY <1>1
  <2> HIDE DEF Rest
  <2> QED BY <2>1, SmallestSubset
<1>3. CASE T = {}
  BY <1>3
<1>4. CASE T # {}
  <2>1. PICK x \in T : TRUE
    BY <1>4
  <2>2. /\ S \ T \in SUBSET S /\ x \in S /\ S \ T \in F /\ x \notin S \ T
        /\ (S \ T) \cup {x} = S \ (T \ {x})
    BY <2>1
  <2>3. T \ {x} \in Rest
    BY <2>2
  <2> QED BY <1>2, <2>1, <2>3
<1> QED BY <1>3, <1>4

-----------------------------------------------------------------------------
(* The sum of a function over a finite set is what its recursive definition    *)
(* says.                                                                       *)

Pick(T) == CHOOSE x \in T : TRUE

\* What SumFunctionOnSet chooses for the subsets of S.
SumsUp(g, fun, S) ==
    g = [T \in SUBSET S |-> IF T = {} THEN 0
                            ELSE LET x == Pick(T) IN fun[x] + g[T \ {x}]]

LEMMA SumIsChosen ==
    ASSUME NEW fun, NEW S
    PROVE  SumFunctionOnSet(fun, S) = (CHOOSE g : SumsUp(g, fun, S))[S]
  BY DEF SumFunctionOnSet, FoldFunctionOnSet, MapThenFoldSet, SumsUp, Pick

\* The value of such a choice at a set, one element less.
LEMMA SumsUpAt ==
    ASSUME NEW g, NEW fun, NEW S, SumsUp(g, fun, S), NEW T \in SUBSET S
    PROVE  g[T] = IF T = {} THEN 0 ELSE fun[Pick(T)] + g[T \ {Pick(T)}]
  BY DEF SumsUp

\* Two of them agree wherever both are defined.
LEMMA SumsAgree ==
    ASSUME NEW S, NEW U, IsFiniteSet(U), NEW fun, NEW g, NEW h,
           SumsUp(g, fun, S), SumsUp(h, fun, U), U \subseteq S
    PROVE  g[U] = h[U]
<1> DEFINE F == {T \in SUBSET U : g[T] # h[T]}
<1>1. SUFFICES ASSUME F # {} PROVE FALSE
  OBVIOUS
<1>2. PICK T \in F : \A V \in F : V \subseteq T => V = T
  <2>1. F \subseteq SUBSET U
    OBVIOUS
  <2> HIDE DEF F
  <2> QED BY <1>1, <2>1, SmallestSubset
<1>3. T \in SUBSET U /\ T \in SUBSET S
  OBVIOUS
<1>4. T # {}
  BY <1>2, <1>3, SumsUpAt
<1>5. Pick(T) \in T
  BY <1>4 DEF Pick
<1>6. T \ {Pick(T)} \notin F
  BY <1>2, <1>5
<1>7. g[T \ {Pick(T)}] = h[T \ {Pick(T)}]
  BY <1>3, <1>6
<1>8. /\ g[T] = fun[Pick(T)] + g[T \ {Pick(T)}]
      /\ h[T] = fun[Pick(T)] + h[T \ {Pick(T)}]
  BY <1>3, <1>4, SumsUpAt
<1> QED BY <1>2, <1>7, <1>8

\* There is one on every finite set.
LEMMA SumsExist ==
    ASSUME NEW S, IsFiniteSet(S), NEW fun
    PROVE  \E g : SumsUp(g, fun, S)
<1> DEFINE F == {T \in SUBSET S : ~ \E g : SumsUp(g, fun, T)}
<1>1. SUFFICES ASSUME F # {} PROVE FALSE
  OBVIOUS
<1>2. PICK T \in F : \A U \in F : U \subseteq T => U = T
  <2>1. F \subseteq SUBSET S
    OBVIOUS
  <2> HIDE DEF F
  <2> QED BY <1>1, <2>1, SmallestSubset
<1> DEFINE sol(U) == CHOOSE g : SumsUp(g, fun, U)
           whole == [U \in SUBSET T |-> IF U = {} THEN 0
                        ELSE fun[Pick(U)] + sol(U \ {Pick(U)})[U \ {Pick(U)}]]
<1>3. ASSUME NEW U \in SUBSET T, U # T
      PROVE  SumsUp(sol(U), fun, U)
  <2>1. U \notin F
    BY <1>2, <1>3
  <2> QED BY <2>1
<1>4. \A U \in SUBSET T : U # {} => Pick(U) \in U
  BY DEF Pick
<1>5. ASSUME NEW U \in SUBSET T, U # T
      PROVE  whole[U] = sol(U)[U]
  <2>1. IsFiniteSet(U)
    BY FS_Subset
  <2>2. SumsUp(sol(U), fun, U)
    BY <1>3, <1>5
  <2>3. CASE U = {}
    <3>1. whole[U] = 0
      BY <2>3
    <3> HIDE DEF sol, whole
    <3> QED BY <2>2, <2>3, <3>1, SumsUpAt
  <2>4. CASE U # {}
    <3> DEFINE V == U \ {Pick(U)}
    <3>1. V \in SUBSET U /\ V \in SUBSET T /\ V # T /\ Pick(U) \in U
      BY <1>4, <2>4
    <3>2. SumsUp(sol(V), fun, V) /\ IsFiniteSet(V)
      BY <1>3, <2>1, <3>1, FS_Subset
    <3>3. whole[U] = fun[Pick(U)] + sol(V)[V]
      BY <2>4
    <3> HIDE DEF sol, whole
    <3>4. sol(U)[U] = fun[Pick(U)] + sol(U)[V]
      BY <2>2, <2>4, SumsUpAt
    <3>5. sol(U)[V] = sol(V)[V]
      <4>1. V \subseteq U /\ V \in SUBSET V
        BY <3>1
      <4> HIDE DEF V
      <4> QED BY <2>2, <3>2, <4>1, SumsAgree
    <3> QED BY <3>3, <3>4, <3>5
  <2> QED BY <2>3, <2>4
<1>6. ASSUME NEW U \in SUBSET T, U # {}
      PROVE  whole[U] = fun[Pick(U)] + whole[U \ {Pick(U)}]
  <2>1. U \ {Pick(U)} \in SUBSET T /\ U \ {Pick(U)} # T
    BY <1>4, <1>6
  <2>2. whole[U] = fun[Pick(U)] + sol(U \ {Pick(U)})[U \ {Pick(U)}]
    BY <1>6
  <2> HIDE DEF whole, sol
  <2> QED BY <1>5, <2>1, <2>2
<1>7. whole[{}] = 0 /\ whole = [U \in SUBSET T |-> whole[U]]
  OBVIOUS
<1> HIDE DEF whole
<1>8. SumsUp(whole, fun, T)
  BY <1>6, <1>7 DEF SumsUp
<1> QED BY <1>2, <1>8

\* A sum is the chosen element's value and the sum of the others.
LEMMA SumUnfolds ==
    ASSUME NEW S, IsFiniteSet(S), NEW fun
    PROVE  SumFunctionOnSet(fun, S) =
              IF S = {} THEN 0
              ELSE fun[Pick(S)] + SumFunctionOnSet(fun, S \ {Pick(S)})
<1> DEFINE R == S \ {Pick(S)}
           g == CHOOSE e : SumsUp(e, fun, S)
           h == CHOOSE e : SumsUp(e, fun, R)
<1>1. IsFiniteSet(R) /\ R \subseteq S
  BY FS_Subset
<1>2. SumsUp(g, fun, S)
  BY SumsExist
<1>3. SumsUp(h, fun, R)
  BY <1>1, SumsExist
<1>4. SumFunctionOnSet(fun, S) = g[S] /\ SumFunctionOnSet(fun, R) = h[R]
  BY SumIsChosen
<1> HIDE DEF g, h
<1>5. g[R] = h[R]
  <2> HIDE DEF R
  <2> QED BY <1>1, <1>2, <1>3, SumsAgree
<1>6. g[S] = IF S = {} THEN 0 ELSE fun[Pick(S)] + g[R]
  BY <1>2, SumsUpAt
<1> QED BY <1>4, <1>5, <1>6

LEMMA SumEmpty == \A fun : SumFunctionOnSet(fun, {}) = 0
  BY FS_EmptySet, SumUnfolds

-----------------------------------------------------------------------------
(* Sums of integers do not depend on the order of the elements.                *)

LEMMA SumType ==
    ASSUME NEW S, IsFiniteSet(S), NEW fun, \A x \in S : fun[x] \in Int
    PROVE  SumFunctionOnSet(fun, S) \in Int
<1> DEFINE F == {T \in SUBSET S : SumFunctionOnSet(fun, T) \notin Int}
<1>1. SUFFICES ASSUME F # {} PROVE FALSE
  OBVIOUS
<1>2. PICK T \in F : \A U \in F : U \subseteq T => U = T
  <2>1. F \subseteq SUBSET S
    OBVIOUS
  <2> HIDE DEF F
  <2> QED BY <1>1, <2>1, SmallestSubset
<1>3. IsFiniteSet(T)
  BY FS_Subset
<1>4. CASE T = {}
  BY <1>4, SumEmpty
<1>5. CASE T # {}
  <2>1. Pick(T) \in T
    BY <1>5 DEF Pick
  <2>2. SumFunctionOnSet(fun, T \ {Pick(T)}) \in Int
    BY <1>2, <2>1
  <2>3. SumFunctionOnSet(fun, T) = fun[Pick(T)] + SumFunctionOnSet(fun, T \ {Pick(T)})
    BY <1>3, <1>5, SumUnfolds
  <2>4. fun[Pick(T)] \in Int /\ T \in F
    BY <2>1
  <2> QED BY <2>2, <2>3, <2>4
<1> QED BY <1>4, <1>5

\* Any element may be taken out.
LEMMA SumRemoves ==
    ASSUME NEW S, IsFiniteSet(S), NEW fun, \A y \in S : fun[y] \in Int, NEW x \in S
    PROVE  SumFunctionOnSet(fun, S) = fun[x] + SumFunctionOnSet(fun, S \ {x})
<1> DEFINE Sum(T) == SumFunctionOnSet(fun, T)
           F == {T \in SUBSET S : \E y \in T : Sum(T) # fun[y] + Sum(T \ {y})}
<1>1. SUFFICES ASSUME F # {} PROVE FALSE
  BY DEF Sum
<1>2. PICK T \in F : \A U \in F : U \subseteq T => U = T
  <2>1. F \subseteq SUBSET S
    OBVIOUS
  <2> HIDE DEF F
  <2> QED BY <1>1, <2>1, SmallestSubset
<1>3. \A U \in SUBSET S : IsFiniteSet(U) /\ Sum(U) \in Int
  BY FS_Subset, SumType
<1>4. PICK y \in T : Sum(T) # fun[y] + Sum(T \ {y})
  BY <1>2
<1> DEFINE p == Pick(T)
<1>5. p \in T
  BY <1>4 DEF Pick
<1>6. Sum(T) = fun[p] + Sum(T \ {p})
  BY <1>3, <1>4, SumUnfolds
<1>7. ASSUME NEW z \in T, NEW u \in T, u # z
      PROVE  Sum(T \ {z}) = fun[u] + Sum((T \ {z}) \ {u})
  <2>1. T \ {z} \notin F
    BY <1>2
  <2> QED BY <1>7, <2>1
<1>0. T \in SUBSET S
  BY <1>2
<1> HIDE DEF F, Sum, p
<1>8. y # p
  BY <1>4, <1>6
<1>9. /\ Sum(T \ {p}) = fun[y] + Sum((T \ {p}) \ {y})
      /\ Sum(T \ {y}) = fun[p] + Sum((T \ {y}) \ {p})
  BY <1>5, <1>7, <1>8
<1>10. (T \ {p}) \ {y} = (T \ {y}) \ {p}
  OBVIOUS
<1>11. Sum((T \ {p}) \ {y}) \in Int /\ fun[y] \in Int /\ fun[p] \in Int
  BY <1>0, <1>3, <1>5
<1>12. PICK r \in Int : r = Sum((T \ {p}) \ {y})
  BY <1>11
<1>13. Sum(T \ {p}) = fun[y] + r /\ Sum(T \ {y}) = fun[p] + r
  BY <1>9, <1>10, <1>12
<1>14. Sum(T) = fun[p] + (fun[y] + r) /\ fun[y] + Sum(T \ {y}) = fun[y] + (fun[p] + r)
  BY <1>6, <1>13
<1>15. fun[p] + (fun[y] + r) = fun[y] + (fun[p] + r)
  BY <1>11
<1> QED BY <1>4, <1>14, <1>15

LEMMA SumAdds ==
    ASSUME NEW S, IsFiniteSet(S), NEW x, x \notin S, NEW fun,
           \A y \in S \cup {x} : fun[y] \in Int
    PROVE  SumFunctionOnSet(fun, S \cup {x}) = fun[x] + SumFunctionOnSet(fun, S)
<1>1. IsFiniteSet(S \cup {x}) /\ x \in S \cup {x} /\ (S \cup {x}) \ {x} = S
  BY FS_AddElement
<1> QED BY <1>1, SumRemoves

\* Nothing adds up to nothing.
LEMMA SumZero ==
    ASSUME NEW S, IsFiniteSet(S), NEW fun, \A x \in S : fun[x] = 0
    PROVE  SumFunctionOnSet(fun, S) = 0
<1> DEFINE F == {T \in SUBSET S : SumFunctionOnSet(fun, T) = 0}
<1>1. {} \in F
  BY SumEmpty
<1>2. ASSUME NEW T \in SUBSET S, NEW x \in S, T \in F, x \notin T
      PROVE  T \cup {x} \in F
  <2>1. IsFiniteSet(T) /\ \A y \in T \cup {x} : fun[y] \in Int
    BY FS_Subset
  <2>2. SumFunctionOnSet(fun, T \cup {x}) = fun[x] + SumFunctionOnSet(fun, T)
    BY <1>2, <2>1, SumAdds
  <2> QED BY <1>2, <2>2
<1> HIDE DEF F
<1>3. S \in F
  BY <1>1, <1>2, SetInduction
<1> QED BY <1>3 DEF F

\* Larger values have a larger sum.
LEMMA SumGrows ==
    ASSUME NEW S, IsFiniteSet(S), NEW f, NEW g,
           \A x \in S : f[x] \in Int /\ g[x] \in Int /\ f[x] <= g[x]
    PROVE  SumFunctionOnSet(f, S) <= SumFunctionOnSet(g, S)
<1> DEFINE F == {T \in SUBSET S : SumFunctionOnSet(f, T) <= SumFunctionOnSet(g, T)}
<1>1. {} \in F
  BY SumEmpty
<1>2. ASSUME NEW T \in SUBSET S, NEW x \in S, T \in F, x \notin T
      PROVE  T \cup {x} \in F
  <2>1. IsFiniteSet(T) /\ \A y \in T \cup {x} : f[y] \in Int /\ g[y] \in Int
    BY FS_Subset
  <2>2. /\ SumFunctionOnSet(f, T \cup {x}) = f[x] + SumFunctionOnSet(f, T)
        /\ SumFunctionOnSet(g, T \cup {x}) = g[x] + SumFunctionOnSet(g, T)
    BY <1>2, <2>1, SumAdds
  <2>3. SumFunctionOnSet(f, T) \in Int /\ SumFunctionOnSet(g, T) \in Int
    BY <2>1, SumType
  <2> QED BY <1>2, <2>1, <2>2, <2>3
<1> HIDE DEF F
<1>3. S \in F
  BY <1>1, <1>2, SetInduction
<1> QED BY <1>3 DEF F

\* Functions that are the same on S have the same sum.
LEMMA SumSame ==
    ASSUME NEW S, IsFiniteSet(S), NEW f, NEW g,
           \A x \in S : f[x] \in Int /\ f[x] = g[x]
    PROVE  SumFunctionOnSet(f, S) = SumFunctionOnSet(g, S)
<1> DEFINE F == {T \in SUBSET S : SumFunctionOnSet(f, T) = SumFunctionOnSet(g, T)}
<1>1. {} \in F
  BY SumEmpty
<1>2. ASSUME NEW T \in SUBSET S, NEW x \in S, T \in F, x \notin T
      PROVE  T \cup {x} \in F
  <2>1. IsFiniteSet(T)
    BY FS_Subset
  <2>2. /\ SumFunctionOnSet(f, T \cup {x}) = f[x] + SumFunctionOnSet(f, T)
        /\ SumFunctionOnSet(g, T \cup {x}) = g[x] + SumFunctionOnSet(g, T)
    BY <1>2, <2>1, SumAdds
  <2> QED BY <1>2, <2>2
<1> HIDE DEF F
<1>3. S \in F
  BY <1>1, <1>2, SetInduction
<1> QED BY <1>3 DEF F

\* One value has changed.
LEMMA SumChanges ==
    ASSUME NEW S, IsFiniteSet(S), NEW f, NEW g, NEW x \in S,
           \A y \in S : f[y] \in Int /\ g[y] \in Int,
           \A y \in S \ {x} : f[y] = g[y]
    PROVE  SumFunctionOnSet(g, S) = SumFunctionOnSet(f, S) - f[x] + g[x]
<1>1. IsFiniteSet(S \ {x})
  BY FS_RemoveElement
<1>2. SumFunctionOnSet(f, S \ {x}) = SumFunctionOnSet(g, S \ {x})
  BY <1>1, SumSame
<1>3. /\ SumFunctionOnSet(f, S) = f[x] + SumFunctionOnSet(f, S \ {x})
      /\ SumFunctionOnSet(g, S) = g[x] + SumFunctionOnSet(g, S \ {x})
  BY SumRemoves
<1>4. SumFunctionOnSet(f, S \ {x}) \in Int
  BY <1>1, SumType
<1> QED BY <1>2, <1>3, <1>4

\* Every value is less by n.
LEMMA SumShifts ==
    ASSUME NEW S, IsFiniteSet(S), NEW f, NEW g, NEW n \in Int,
           \A x \in S : f[x] \in Int /\ g[x] = f[x] - n
    PROVE  SumFunctionOnSet(g, S) = SumFunctionOnSet(f, S) - n * Cardinality(S)
<1> DEFINE F == {T \in SUBSET S : SumFunctionOnSet(g, T) =
                                     SumFunctionOnSet(f, T) - n * Cardinality(T)}
<1>1. {} \in F
  BY SumEmpty, FS_EmptySet
<1>2. ASSUME NEW T \in SUBSET S, NEW x \in S, T \in F, x \notin T
      PROVE  T \cup {x} \in F
  <2>1. IsFiniteSet(T) /\ \A y \in T \cup {x} : f[y] \in Int /\ g[y] \in Int
    BY FS_Subset
  <2>2. /\ SumFunctionOnSet(f, T \cup {x}) = f[x] + SumFunctionOnSet(f, T)
        /\ SumFunctionOnSet(g, T \cup {x}) = g[x] + SumFunctionOnSet(g, T)
    BY <1>2, <2>1, SumAdds
  <2>3. Cardinality(T) \in Nat /\ Cardinality(T \cup {x}) = Cardinality(T) + 1
    BY <1>2, <2>1, FS_AddElement, FS_CardinalityType
  <2>4. n * (Cardinality(T) + 1) = n * Cardinality(T) + n
    BY <2>3
  <2>5. SumFunctionOnSet(f, T) \in Int
    BY <2>1, SumType
  <2>6. n * Cardinality(T) \in Int
    BY <2>3
  <2>7. SumFunctionOnSet(g, T) = SumFunctionOnSet(f, T) - n * Cardinality(T)
    BY <1>2
  <2> HIDE DEF F
  <2> DEFINE c == n * Cardinality(T)
  <2>8. SumFunctionOnSet(g, T \cup {x}) =
           SumFunctionOnSet(f, T \cup {x}) - (c + n)
    <3> HIDE DEF c
    <3>1. c \in Int
      BY <2>6 DEF c
    <3>2. SumFunctionOnSet(g, T) = SumFunctionOnSet(f, T) - c
      BY <2>7 DEF c
    <3> QED BY <2>2, <2>5, <3>1, <3>2
  <2> QED BY <2>3, <2>4, <2>8 DEF F
<1> HIDE DEF F
<1>3. S \in F
  BY <1>1, <1>2, SetInduction
<1> QED BY <1>3 DEF F

\* A sum over two sets that have nothing in common.
LEMMA SumSplits ==
    ASSUME NEW S, IsFiniteSet(S), NEW T, IsFiniteSet(T), S \cap T = {}, NEW f,
           \A x \in S \cup T : f[x] \in Int
    PROVE  SumFunctionOnSet(f, S \cup T) =
              SumFunctionOnSet(f, S) + SumFunctionOnSet(f, T)
<1> DEFINE F == {U \in SUBSET T : SumFunctionOnSet(f, S \cup U) =
                                     SumFunctionOnSet(f, S) + SumFunctionOnSet(f, U)}
<1>0. SumFunctionOnSet(f, S) \in Int
  BY SumType
<1>1. {} \in F
  BY <1>0, SumEmpty
<1>2. ASSUME NEW U \in SUBSET T, NEW x \in T, U \in F, x \notin U
      PROVE  U \cup {x} \in F
  <2>1. IsFiniteSet(U) /\ IsFiniteSet(S \cup U)
    BY FS_Subset, FS_Union
  <2>2. SumFunctionOnSet(f, U \cup {x}) = f[x] + SumFunctionOnSet(f, U)
    BY <1>2, <2>1, SumAdds
  <2>3. SumFunctionOnSet(f, (S \cup U) \cup {x}) = f[x] + SumFunctionOnSet(f, S \cup U)
    BY <1>2, <2>1, SumAdds
  <2>4. S \cup (U \cup {x}) = (S \cup U) \cup {x}
    OBVIOUS
  <2>5. SumFunctionOnSet(f, U) \in Int /\ f[x] \in Int
    BY <2>1, SumType
  <2>6. SumFunctionOnSet(f, S \cup U) = SumFunctionOnSet(f, S) + SumFunctionOnSet(f, U)
    BY <1>2
  <2> HIDE DEF F
  <2>7. SumFunctionOnSet(f, S \cup (U \cup {x})) =
           SumFunctionOnSet(f, S) + SumFunctionOnSet(f, U \cup {x})
    <3> DEFINE a == SumFunctionOnSet(f, S)
               b == SumFunctionOnSet(f, U)
    <3>1. a \in Int /\ b \in Int /\ f[x] \in Int
      BY <1>0, <2>5
    <3>2. SumFunctionOnSet(f, S \cup (U \cup {x})) = f[x] + (a + b)
      BY <2>3, <2>4, <2>6
    <3>3. SumFunctionOnSet(f, U \cup {x}) = f[x] + b
      BY <2>2
    <3> HIDE DEF a, b
    <3>4. f[x] + (a + b) = a + (f[x] + b)
      BY <3>1
    <3> QED BY <3>2, <3>3, <3>4 DEF a
  <2> QED BY <2>7 DEF F
<1> HIDE DEF F
<1>3. T \in F
  BY <1>1, <1>2, SetInduction
<1> QED BY <1>3 DEF F

\* The elements may be renamed.
LEMMA SumPermutes ==
    ASSUME NEW S, IsFiniteSet(S), NEW T, NEW f, \A y \in T : f[y] \in Int,
           NEW g, NEW perm \in [S -> T],
           \A x, y \in S : perm[x] = perm[y] => x = y,
           \A x \in S : g[x] = f[perm[x]]
    PROVE  SumFunctionOnSet(g, S) = SumFunctionOnSet(f, {perm[x] : x \in S})
<1> DEFINE Image(U) == {perm[x] : x \in U}
           F == {U \in SUBSET S : /\ IsFiniteSet(Image(U))
                                  /\ SumFunctionOnSet(g, U) = SumFunctionOnSet(f, Image(U))}
<1>1. {} \in F
  <2>1. Image({}) = {}
    OBVIOUS
  <2> HIDE DEF Image
  <2> QED BY <2>1, SumEmpty, FS_EmptySet
<1>2. ASSUME NEW U \in SUBSET S, NEW x \in S, U \in F, x \notin U
      PROVE  U \cup {x} \in F
  <2>1. IsFiniteSet(U)
    BY FS_Subset
  <2>2. Image(U \cup {x}) = Image(U) \cup {perm[x]} /\ perm[x] \notin Image(U)
    BY <1>2
  <2>3. Image(U) \subseteq T /\ perm[x] \in T
    OBVIOUS
  <2>4. \A y \in U \cup {x} : g[y] \in Int
    OBVIOUS
  <2>5. IsFiniteSet(Image(U)) /\ SumFunctionOnSet(g, U) = SumFunctionOnSet(f, Image(U))
    BY <1>2
  <2> HIDE DEF Image, F
  <2>6. SumFunctionOnSet(g, U \cup {x}) = g[x] + SumFunctionOnSet(g, U)
    BY <1>2, <2>1, <2>4, SumAdds
  <2>7. SumFunctionOnSet(f, Image(U) \cup {perm[x]}) = f[perm[x]] + SumFunctionOnSet(f, Image(U))
    BY <2>2, <2>3, <2>5, SumAdds
  <2>8. IsFiniteSet(Image(U) \cup {perm[x]})
    BY <2>5, FS_AddElement
  <2> QED BY <2>2, <2>5, <2>6, <2>7, <2>8 DEF F
<1> HIDE DEF F
<1>3. S \in F
  BY <1>1, <1>2, SetInduction
<1> QED BY <1>3 DEF F
=============================================================================
