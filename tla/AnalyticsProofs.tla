---------------------------- MODULE AnalyticsProofs ----------------------------
(***************************************************************************)
(* Proofs about Analytics.  A set of orders trimmed to its limit after     *)
(* every addition is the top of everything ever added, whatever the limit, *)
(* the orders, and however often one of them is added again.  What an      *)
(* order adds to each table sums to what it adds to the counters.  While   *)
(* the master stays, tables and history only grow, so a later answer       *)
(* covers what an earlier one named.                                       *)
(***************************************************************************)
EXTENDS Analytics, FiniteSetTheorems, WellFoundedInduction, TLAPS

\* A nonempty set of naturals has a least element.
LEMMA LeastNat ==
  ASSUME NEW S, S \subseteq Nat, S # {}
  PROVE  \E m \in S : \A n \in S : m <= n
<1>. DEFINE R == {p \in Nat \X Nat : p[1] < p[2]}
<1>1. OpToRel(<, Nat) = R
  BY DEF OpToRel
<1>2. IsWellFoundedOn(R, Nat)
  BY <1>1, NatLessThanWellFounded
<1>. HIDE DEF R
<1>3. PICK m \in S : \A y \in S : ~(<<y, m>> \in R)
  BY <1>2, WFMin
<1>4. ASSUME NEW n \in S PROVE m <= n
  <2>1. n \in Nat /\ m \in Nat
    OBVIOUS
  <2>2. n < m => <<n, m>> \in R
    BY <2>1 DEF R
  <2>. QED  BY <1>3, <2>1, <2>2
<1>. QED
  BY <1>4

-------------------------------------------------------------------------------
(* Sums of a function over a finite set.                                    *)

Sum(g, S) == SumFunctionOnSet(g, S)

\* What holds of the empty set, and of a set with one element more when it holds
\* of the set, holds of every part of a finite set: C is where it holds.
LEMMA PartInduction ==
  ASSUME NEW S, IsFiniteSet(S), NEW C, {} \in C,
         \A T \in SUBSET S : \A x \in S \ T : T \in C => T \cup {x} \in C
  PROVE  \A T \in SUBSET S : T \in C
<1>. DEFINE Bad == {n \in Nat : \E T \in SUBSET S : T \notin C /\ Cardinality(T) = n}
<1>1. ASSUME NEW T \in SUBSET S, T \notin C PROVE FALSE
  <2>1. Cardinality(T) \in Bad
    BY <1>1, FS_Subset, FS_CardinalityType
  <2>2. PICK m \in Bad : \A n \in Bad : m <= n
    BY <2>1, LeastNat
  <2>3. PICK U \in SUBSET S : U \notin C /\ Cardinality(U) = m
    BY <2>2
  <2>4. PICK x : x \in U
    BY <2>3
  <2>5. IsFiniteSet(U)
    BY FS_Subset
  <2>6. /\ IsFiniteSet(U \ {x}) /\ Cardinality(U \ {x}) = m - 1
        /\ Cardinality(U \ {x}) \in Nat
    BY <2>3, <2>4, <2>5, FS_RemoveElement, FS_CardinalityType
  <2>7. U \ {x} \notin C
    <3>1. U = (U \ {x}) \cup {x} /\ x \in S \ (U \ {x}) /\ U \ {x} \in SUBSET S
      BY <2>4
    <3>. QED  BY <2>3, <3>1
  <2>8. m - 1 \in Bad
    BY <2>6, <2>7
  <2>. HIDE DEF Bad
  <2>9. m \in Nat
    BY <2>2 DEF Bad
  <2>. QED  BY <2>2, <2>8, <2>9
<1>. QED  BY <1>1

Pick(s) == CHOOSE x \in s : TRUE

\* The sum is defined by a function on the parts of S, which exists.
Adds(g, f, s) == IF s = {} THEN 0 ELSE g[Pick(s)] + f[s \ {Pick(s)}]

Equation(g, S, f) == f = [s \in SUBSET S |-> Adds(g, f, s)]

Solution(g, S) == CHOOSE f : Equation(g, S, f)

LEMMA SumIsSolution ==
  ASSUME NEW g, NEW S
  PROVE  Sum(g, S) = Solution(g, S)[S]
BY DEF Sum, SumFunctionOnSet, FoldFunctionOnSet, MapThenFoldSet, Solution, Equation, Adds, Pick

\* f solves the equation on the subsets of at most n elements.
Within(S, n) == {s \in SUBSET S : Cardinality(s) <= n}

LEMMA PickSmaller ==
  ASSUME NEW S, IsFiniteSet(S), NEW s \in SUBSET S, s # {}
  PROVE  /\ Pick(s) \in s /\ s \ {Pick(s)} \in SUBSET S
         /\ IsFiniteSet(s) /\ Cardinality(s) \in Nat /\ Cardinality(s \ {Pick(s)}) \in Nat
         /\ Cardinality(s \ {Pick(s)}) = Cardinality(s) - 1
<1>1. Pick(s) \in s
  BY DEF Pick
<1>2. IsFiniteSet(s)
  BY FS_Subset
<1>. QED  BY <1>1, <1>2, FS_RemoveElement, FS_CardinalityType

LEMMA SolutionExists ==
  ASSUME NEW g, NEW S, IsFiniteSet(S)
  PROVE  Equation(g, S, Solution(g, S))
<1>. DEFINE Solves(n, f) == f = [s \in Within(S, n) |-> Adds(g, f, s)]
            Bad == {n \in Nat : ~\E f : Solves(n, f)}
<1>1. Bad = {}
  <2>. SUFFICES ASSUME Bad # {} PROVE FALSE
    OBVIOUS
  <2>1. PICK m \in Bad : \A n \in Bad : m <= n
    BY LeastNat
  <2>2. m \in Nat /\ ~\E f : Solves(m, f)
    BY <2>1
  <2>3. CASE m = 0
    <3>. DEFINE f == [s \in Within(S, 0) |-> 0]
    <3>1. ASSUME NEW s \in Within(S, 0) PROVE s = {}
      <4>1. s \in SUBSET S /\ Cardinality(s) <= 0
        BY DEF Within
      <4>2. ASSUME s # {} PROVE FALSE
        <5>1. /\ Cardinality(s) \in Nat /\ Cardinality(s \ {Pick(s)}) \in Nat
              /\ Cardinality(s \ {Pick(s)}) = Cardinality(s) - 1
          BY <4>1, <4>2, PickSmaller
        <5>. QED  BY <4>1, <5>1
      <4>. QED  BY <4>2
    <3>2. Solves(0, f)
      BY <3>1 DEF Adds
    <3>. QED  BY <2>2, <2>3, <3>2
  <2>4. CASE m # 0
    <3>1. m - 1 \in Nat /\ m - 1 \notin Bad
      BY <2>1, <2>2, <2>4
    <3>2. PICK f : Solves(m - 1, f)
      BY <3>1
    <3>. DEFINE h == [s \in Within(S, m) |-> Adds(g, f, s)]
    <3>3. ASSUME NEW s \in Within(S, m) PROVE Adds(g, f, s) = Adds(g, h, s)
      <4>1. CASE s = {}
        BY <4>1 DEF Adds
      <4>2. CASE s # {}
        <5>. DEFINE t == s \ {Pick(s)}
        <5>1. t \in Within(S, m - 1) /\ t \in Within(S, m)
          BY <4>2, <2>2, PickSmaller DEF Within
        <5>2. f[t] = Adds(g, f, t)
          BY <3>2, <5>1
        <5>3. h[t] = Adds(g, f, t)
          BY <5>1
        <5>. HIDE DEF h
        <5>. QED  BY <4>2, <5>2, <5>3 DEF Adds
      <4>. QED  BY <4>1, <4>2
    <3>4. Solves(m, h)
      BY <3>3
    <3>. QED  BY <2>2, <3>4
  <2>. QED  BY <2>3, <2>4
<1>2. Cardinality(S) \in Nat
  BY FS_CardinalityType
<1>3. PICK f : Solves(Cardinality(S), f)
  BY <1>1, <1>2
<1>4. Within(S, Cardinality(S)) = SUBSET S
  BY FS_Subset DEF Within
<1>5. Equation(g, S, f)
  BY <1>3, <1>4 DEF Equation
<1>. QED  BY <1>5 DEF Solution

LEMMA SolutionAdds ==
  ASSUME NEW g, NEW S, IsFiniteSet(S), NEW U \in SUBSET S
  PROVE  Solution(g, S)[U] = Adds(g, Solution(g, S), U)
<1>1. PICK f : f = Solution(g, S)
  OBVIOUS
<1>2. Equation(g, S, f)
  BY <1>1, SolutionExists
<1>3. f[U] = Adds(g, f, U)
  BY <1>2 DEF Equation
<1>. QED  BY <1>1, <1>3

\* Whichever set the function was made for, it says the same of a part.
LEMMA SolutionsAgree ==
  ASSUME NEW g, NEW S, NEW T, IsFiniteSet(S), T \subseteq S
  PROVE  Solution(g, S)[T] = Sum(g, T)
<1>. DEFINE C == {U \in SUBSET T : Solution(g, S)[U] = Solution(g, T)[U]}
            Bad == {n \in Nat : \E U \in SUBSET T :
                      Solution(g, S)[U] # Solution(g, T)[U] /\ Cardinality(U) = n}
<1>0. IsFiniteSet(T)
  BY FS_Subset
<1>1. /\ \A U \in SUBSET T : Solution(g, S)[U] = Adds(g, Solution(g, S), U)
      /\ \A U \in SUBSET T : Solution(g, T)[U] = Adds(g, Solution(g, T), U)
  BY <1>0, SolutionAdds
<1>2. ASSUME NEW U \in SUBSET T, Solution(g, S)[U] # Solution(g, T)[U] PROVE FALSE
  <2>1. Cardinality(U) \in Bad
    BY <1>2, <1>0, FS_Subset, FS_CardinalityType
  <2>2. PICK m \in Bad : \A n \in Bad : m <= n
    BY <2>1, LeastNat
  <2>3. PICK V \in SUBSET T : Solution(g, S)[V] # Solution(g, T)[V] /\ Cardinality(V) = m
    BY <2>2
  <2>4. Adds(g, Solution(g, S), V) # Adds(g, Solution(g, T), V)
    BY <1>1, <2>3
  <2>5. V # {} /\ Solution(g, S)[V \ {Pick(V)}] # Solution(g, T)[V \ {Pick(V)}]
    BY <2>4 DEF Adds
  <2>6. /\ V \ {Pick(V)} \in SUBSET T /\ m \in Nat
        /\ Cardinality(V \ {Pick(V)}) \in Nat /\ Cardinality(V \ {Pick(V)}) = m - 1
    BY <1>0, <2>3, <2>5, PickSmaller
  <2>7. m - 1 \in Bad
    BY <2>5, <2>6
  <2>. HIDE DEF Bad
  <2>. QED  BY <2>2, <2>6, <2>7
<1>. QED  BY <1>2, SumIsSolution

\* The sum takes its elements one by one.
LEMMA SumPick ==
  ASSUME NEW g, NEW S, IsFiniteSet(S)
  PROVE  Sum(g, S) = IF S = {} THEN 0 ELSE g[Pick(S)] + Sum(g, S \ {Pick(S)})
<1>1. Sum(g, S) = Adds(g, Solution(g, S), S)
  BY SumIsSolution, SolutionAdds
<1>. QED  BY <1>1, SolutionsAgree DEF Adds

LEMMA SumEmpty == \A g : Sum(g, {}) = 0
BY SumPick, FS_EmptySet

NatValued(g, S) == \A x \in S : g[x] \in Nat

LEMMA SumNat ==
  ASSUME NEW g, NEW S, IsFiniteSet(S), NatValued(g, S)
  PROVE  Sum(g, S) \in Nat
<1>. DEFINE Bad == {n \in Nat : \E T \in SUBSET S : Sum(g, T) \notin Nat /\ Cardinality(T) = n}
<1>1. ASSUME Sum(g, S) \notin Nat PROVE FALSE
  <2>1. Cardinality(S) \in Bad
    BY <1>1, FS_CardinalityType
  <2>2. PICK m \in Bad : \A n \in Bad : m <= n
    BY <2>1, LeastNat
  <2>3. PICK T \in SUBSET S : Sum(g, T) \notin Nat /\ Cardinality(T) = m
    BY <2>2
  <2>4. IsFiniteSet(T) /\ T # {} /\ m \in Nat
    <3>1. Sum(g, {}) = 0
      BY SumEmpty
    <3>2. T # {}
      BY <2>3, <3>1
    <3>3. IsFiniteSet(T)
      BY FS_Subset
    <3>. QED  BY <2>2, <3>2, <3>3
  <2>5. /\ Sum(g, T) = g[Pick(T)] + Sum(g, T \ {Pick(T)})
        /\ g[Pick(T)] \in Nat /\ T \ {Pick(T)} \in SUBSET S
        /\ Cardinality(T \ {Pick(T)}) \in Nat /\ Cardinality(T \ {Pick(T)}) = m - 1
    BY <2>3, <2>4, PickSmaller, SumPick DEF NatValued
  <2>6. Sum(g, T \ {Pick(T)}) \notin Nat
    BY <2>3, <2>5
  <2>7. m - 1 \in Bad
    BY <2>5, <2>6
  <2>. HIDE DEF Bad
  <2>. QED  BY <2>2, <2>4, <2>7
<1>. QED  BY <1>1

\* ... in any order.
LEMMA SumTake ==
  ASSUME NEW g, NEW S, IsFiniteSet(S), NatValued(g, S)
  PROVE  /\ Sum(g, S) \in Nat
         /\ \A x \in S : Sum(g, S) = g[x] + Sum(g, S \ {x})
<1>. DEFINE Good(T) == /\ Sum(g, T) \in Nat
                       /\ \A x \in T : Sum(g, T) = g[x] + Sum(g, T \ {x})
            Bad == {n \in Nat : \E T \in SUBSET S : ~Good(T) /\ Cardinality(T) = n}
<1>1. ASSUME ~Good(S) PROVE FALSE
  <2>1. Cardinality(S) \in Bad
    BY <1>1, FS_CardinalityType
  <2>2. PICK m \in Bad : \A n \in Bad : m <= n
    BY <2>1, LeastNat
  <2>3. PICK T \in SUBSET S : ~Good(T) /\ Cardinality(T) = m
    BY <2>2
  <2>4. m \in Nat /\ IsFiniteSet(T)
    BY <2>2, FS_Subset
  <2>5. ASSUME NEW U \in SUBSET S, Cardinality(U) = m - 1, m - 1 \in Nat PROVE Good(U)
    <3>1. ~Good(U) => m - 1 \in Bad
      BY <2>5
    <3>. HIDE DEF Bad, Good
    <3>. QED  BY <2>2, <2>4, <3>1
  <2>6. T # {}
    <3>1. Sum(g, {}) = 0
      BY SumEmpty
    <3>. QED  BY <2>3, <3>1
  <2>7. PICK y : y = Pick(T)
    OBVIOUS
  <2>8. /\ y \in T /\ IsFiniteSet(T \ {y}) /\ T \ {y} \in SUBSET S
        /\ Cardinality(T \ {y}) = m - 1 /\ m - 1 \in Nat
        /\ Sum(g, T) = g[y] + Sum(g, T \ {y})
    <3>1. /\ y \in T /\ T \ {y} \in SUBSET T
          /\ Cardinality(T \ {y}) \in Nat /\ Cardinality(T \ {y}) = m - 1
      BY <2>3, <2>4, <2>6, <2>7, PickSmaller
    <3>2. Sum(g, T) = g[y] + Sum(g, T \ {y})
      BY <2>4, <2>6, <2>7, SumPick
    <3>3. IsFiniteSet(T \ {y})
      BY <2>4, <3>1, FS_Subset
    <3>. QED  BY <3>1, <3>2, <3>3
  <2>9. Good(T \ {y}) /\ g[y] \in Nat
    BY <2>5, <2>8 DEF NatValued
  <2>10. Sum(g, T) \in Nat
    BY <2>8, <2>9
  <2>11. ASSUME NEW x \in T, x # y PROVE Sum(g, T) = g[x] + Sum(g, T \ {x})
    <3>. DEFINE V == (T \ {y}) \ {x}
    <3>1. V = (T \ {x}) \ {y} /\ x \in T \ {y} /\ y \in T \ {x} /\ g[x] \in Nat
      BY <2>8, <2>11 DEF NatValued
    <3>2. Sum(g, T \ {y}) = g[x] + Sum(g, V)
      BY <2>9, <3>1
    <3>3. /\ IsFiniteSet(T \ {x}) /\ Cardinality(T \ {x}) = m - 1 /\ T \ {x} \in SUBSET S
      BY <2>3, <2>4, <2>11, FS_RemoveElement
    <3>4. Good(T \ {x})
      BY <2>5, <2>8, <3>3
    <3>5. Sum(g, T \ {x}) = g[y] + Sum(g, V)
      BY <3>1, <3>4
    <3>6. /\ IsFiniteSet(V) /\ Cardinality(V) = m - 2 /\ Cardinality(V) \in Nat
          /\ V \in SUBSET S
      <4>1. IsFiniteSet(V) /\ Cardinality(V) = Cardinality(T \ {y}) - 1
        BY <2>8, <3>1, FS_RemoveElement
      <4>2. Cardinality(V) \in Nat
        BY <4>1, FS_CardinalityType
      <4>. QED  BY <2>4, <2>8, <4>1, <4>2
    <3>7. Sum(g, V) \in Nat
      BY SumNat, <3>6 DEF NatValued
    <3>. QED  BY <2>8, <2>9, <3>1, <3>2, <3>5, <3>7
  <2>. QED  BY <2>3, <2>8, <2>10, <2>11
<1>. QED  BY <1>1

LEMMA SumInsert ==
  ASSUME NEW g, NEW S, IsFiniteSet(S), NEW x, x \notin S, NatValued(g, S \cup {x})
  PROVE  Sum(g, S \cup {x}) = g[x] + Sum(g, S)
<1>1. IsFiniteSet(S \cup {x})
  BY FS_AddElement
<1>2. (S \cup {x}) \ {x} = S /\ x \in S \cup {x}
  OBVIOUS
<1>3. Sum(g, S \cup {x}) = g[x] + Sum(g, (S \cup {x}) \ {x})
  BY <1>1, <1>2, SumTake
<1>. QED  BY <1>2, <1>3

\* Only the values on the set count.
LEMMA SumSame ==
  ASSUME NEW g, NEW h, NEW S, IsFiniteSet(S), NatValued(g, S), \A x \in S : g[x] = h[x]
  PROVE  Sum(g, S) = Sum(h, S)
<1>. DEFINE C == {T \in SUBSET S : Sum(g, T) = Sum(h, T)}
<1>1. {} \in C
  BY SumEmpty
<1>2. ASSUME NEW T \in SUBSET S, NEW x \in S \ T, T \in C PROVE T \cup {x} \in C
  <2>1. IsFiniteSet(T) /\ NatValued(g, T \cup {x}) /\ NatValued(h, T \cup {x}) /\ g[x] = h[x]
    BY FS_Subset DEF NatValued
  <2>2. Sum(g, T \cup {x}) = g[x] + Sum(g, T) /\ Sum(h, T \cup {x}) = h[x] + Sum(h, T)
    BY <2>1, SumInsert
  <2>3. Sum(g, T) = Sum(h, T)
    BY <1>2
  <2>. QED  BY <2>1, <2>2, <2>3
<1>. HIDE DEF C
<1>3. S \in C
  BY <1>1, <1>2, PartInduction
<1>. QED  BY <1>3 DEF C

LEMMA SumPointwise ==
  ASSUME NEW g, NEW h, NEW k, NEW S, IsFiniteSet(S), NatValued(g, S), NatValued(h, S),
         \A x \in S : k[x] = g[x] + h[x]
  PROVE  Sum(k, S) = Sum(g, S) + Sum(h, S)
<1>. DEFINE C == {T \in SUBSET S : Sum(k, T) = Sum(g, T) + Sum(h, T)}
<1>1. {} \in C
  BY SumEmpty
<1>2. ASSUME NEW T \in SUBSET S, NEW x \in S \ T, T \in C PROVE T \cup {x} \in C
  <2>1. /\ IsFiniteSet(T) /\ NatValued(g, T \cup {x}) /\ NatValued(h, T \cup {x})
        /\ NatValued(k, T \cup {x}) /\ NatValued(g, T) /\ NatValued(h, T)
        /\ k[x] = g[x] + h[x] /\ g[x] \in Nat /\ h[x] \in Nat
    BY FS_Subset DEF NatValued
  <2>2. /\ Sum(g, T \cup {x}) = g[x] + Sum(g, T) /\ Sum(h, T \cup {x}) = h[x] + Sum(h, T)
        /\ Sum(k, T \cup {x}) = k[x] + Sum(k, T)
    BY <2>1, SumInsert
  <2>3. Sum(g, T) \in Nat /\ Sum(h, T) \in Nat
    BY <2>1, SumNat
  <2>4. Sum(k, T) = Sum(g, T) + Sum(h, T)
    BY <1>2
  <2>5. Sum(k, T \cup {x}) = Sum(g, T \cup {x}) + Sum(h, T \cup {x})
    BY <2>1, <2>2, <2>3, <2>4
  <2>. QED  BY <2>5
<1>. HIDE DEF C
<1>3. S \in C
  BY <1>1, <1>2, PartInduction
<1>. QED  BY <1>3 DEF C

LEMMA SumUnion ==
  ASSUME NEW g, NEW S, NEW T, IsFiniteSet(S), IsFiniteSet(T), S \cap T = {},
         NatValued(g, S \cup T)
  PROVE  Sum(g, S \cup T) = Sum(g, S) + Sum(g, T)
<1>. DEFINE C == {U \in SUBSET T : Sum(g, S \cup U) = Sum(g, S) + Sum(g, U)}
<1>0. NatValued(g, S) /\ Sum(g, S) \in Nat
  BY SumNat DEF NatValued
<1>1. {} \in C
  <2>1. S \cup {} = S
    OBVIOUS
  <2>. QED  BY <1>0, <2>1, SumEmpty
<1>2. ASSUME NEW U \in SUBSET T, NEW x \in T \ U, U \in C PROVE U \cup {x} \in C
  <2>1. /\ IsFiniteSet(U) /\ IsFiniteSet(S \cup U) /\ x \notin S \cup U
        /\ S \cup (U \cup {x}) = (S \cup U) \cup {x}
    BY FS_Subset, FS_Union
  <2>2. /\ NatValued(g, U \cup {x}) /\ NatValued(g, (S \cup U) \cup {x}) /\ NatValued(g, U)
        /\ g[x] \in Nat
    BY DEF NatValued
  <2>3. /\ Sum(g, U \cup {x}) = g[x] + Sum(g, U)
        /\ Sum(g, S \cup (U \cup {x})) = g[x] + Sum(g, S \cup U)
    BY <2>1, <2>2, SumInsert
  <2>4. Sum(g, U) \in Nat
    BY <2>1, <2>2, SumNat
  <2>5. Sum(g, S \cup U) = Sum(g, S) + Sum(g, U)
    BY <1>2
  <2>6. Sum(g, S \cup (U \cup {x})) = Sum(g, S) + Sum(g, U \cup {x})
    BY <1>0, <2>2, <2>3, <2>4, <2>5
  <2>. QED  BY <2>6
<1>. HIDE DEF C
<1>3. T \in C
  BY <1>1, <1>2, PartInduction
<1>. QED  BY <1>3 DEF C

LEMMA SumZero ==
  ASSUME NEW g, NEW S, IsFiniteSet(S), \A x \in S : g[x] = 0
  PROVE  Sum(g, S) = 0
<1>. DEFINE C == {T \in SUBSET S : Sum(g, T) = 0}
<1>1. {} \in C
  BY SumEmpty
<1>2. ASSUME NEW T \in SUBSET S, NEW x \in S \ T, T \in C PROVE T \cup {x} \in C
  <2>1. IsFiniteSet(T) /\ NatValued(g, T \cup {x}) /\ g[x] = 0
    BY FS_Subset DEF NatValued
  <2>2. Sum(g, T \cup {x}) = g[x] + Sum(g, T)
    BY <2>1, SumInsert
  <2>3. Sum(g, T) = 0
    BY <1>2
  <2>. QED  BY <2>1, <2>2, <2>3
<1>. HIDE DEF C
<1>3. S \in C
  BY <1>1, <1>2, PartInduction
<1>. QED  BY <1>3 DEF C

\* A part sums to no more than the whole, and to as much if the rest is zero.
LEMMA SumPart ==
  ASSUME NEW g, NEW S, NEW T, IsFiniteSet(T), S \subseteq T, NatValued(g, T)
  PROVE  /\ Sum(g, S) <= Sum(g, T)
         /\ (\A x \in T \ S : g[x] = 0) => Sum(g, S) = Sum(g, T)
<1>1. /\ IsFiniteSet(S) /\ IsFiniteSet(T \ S) /\ S \cup (T \ S) = T /\ S \cap (T \ S) = {}
      /\ NatValued(g, S) /\ NatValued(g, T \ S)
  BY FS_Subset DEF NatValued
<1>2. Sum(g, T) = Sum(g, S) + Sum(g, T \ S)
  BY <1>1, SumUnion
<1>3. Sum(g, S) \in Nat /\ Sum(g, T \ S) \in Nat
  BY <1>1, SumNat
<1>4. ASSUME \A x \in T \ S : g[x] = 0 PROVE Sum(g, T \ S) = 0
  BY <1>1, <1>4, SumZero
<1>. QED  BY <1>2, <1>3, <1>4

LEMMA SumSingleton ==
  ASSUME NEW g, NEW x, g[x] \in Nat
  PROVE  Sum(g, {x}) = g[x]
<1>1. IsFiniteSet({}) /\ x \notin {} /\ {} \cup {x} = {x} /\ NatValued(g, {} \cup {x})
  BY FS_EmptySet DEF NatValued
<1>2. Sum(g, {x}) = g[x] + Sum(g, {})
  BY <1>1, SumInsert
<1>. QED  BY <1>2, SumEmpty

\* Sorted by a label and summed label by label, it is the same sum.
LEMMA SumFibers ==
  ASSUME NEW w, NEW lab, NEW D, NEW L, IsFiniteSet(D), IsFiniteSet(L), NatValued(w, D),
         \A i \in D : lab[i] \in L
  PROVE  Sum([l \in L |-> Sum(w, {i \in D : lab[i] = l})], L) = Sum(w, D)
<1>. DEFINE fiber(T, l) == {i \in T : lab[i] = l}
            by(T) == [l \in L |-> Sum(w, fiber(T, l))]
            C == {T \in SUBSET D : Sum(by(T), L) = Sum(w, T)}
<1>0. ASSUME NEW T \in SUBSET D
      PROVE  /\ IsFiniteSet(T) /\ NatValued(w, T)
             /\ \A l \in L : IsFiniteSet(fiber(T, l)) /\ Sum(w, fiber(T, l)) \in Nat
             /\ NatValued(by(T), L)
  <2>1. IsFiniteSet(T) /\ NatValued(w, T)
    BY FS_Subset DEF NatValued
  <2>2. ASSUME NEW l \in L
        PROVE  IsFiniteSet(fiber(T, l)) /\ Sum(w, fiber(T, l)) \in Nat
    <3>1. IsFiniteSet(fiber(T, l)) /\ NatValued(w, fiber(T, l))
      BY <2>1, FS_Subset DEF NatValued
    <3>. QED  BY <3>1, SumNat
  <2>. QED  BY <2>1, <2>2 DEF NatValued
<1>1. {} \in C
  <2>1. \A l \in L : fiber({}, l) = {}
    OBVIOUS
  <2>2. \A l \in L : by({})[l] = 0
    BY <2>1, SumEmpty
  <2>. HIDE DEF by
  <2>3. Sum(by({}), L) = 0
    BY <2>2, SumZero
  <2>. QED  BY <2>3, SumEmpty
<1>2. ASSUME NEW T \in SUBSET D, NEW x \in D \ T, T \in C PROVE T \cup {x} \in C
  <2>. DEFINE U == T \cup {x}
              z == lab[x]
  <2>1. z \in L /\ U \in SUBSET D /\ w[x] \in Nat
    BY DEF NatValued
  <2>2. fiber(U, z) = fiber(T, z) \cup {x} /\ x \notin fiber(T, z)
    OBVIOUS
  <2>3. Sum(w, fiber(U, z)) = w[x] + Sum(w, fiber(T, z))
    <3>1. IsFiniteSet(fiber(T, z)) /\ NatValued(w, fiber(T, z) \cup {x})
      BY <1>0, <2>1 DEF NatValued
    <3>. HIDE DEF fiber
    <3>. QED  BY <2>2, <3>1, SumInsert
  <2>4. \A l \in L \ {z} : fiber(U, l) = fiber(T, l)
    OBVIOUS
  <2>5. /\ by(U)[z] = w[x] + by(T)[z] /\ by(T)[z] \in Nat
        /\ \A l \in L \ {z} : by(U)[l] = by(T)[l]
    BY <1>0, <2>1, <2>3, <2>4
  <2>6. NatValued(by(U), L) /\ NatValued(by(T), L)
    BY <1>0, <2>1
  <2>. HIDE DEF by, U, fiber, z
  <2>7. /\ Sum(by(U), L) = by(U)[z] + Sum(by(U), L \ {z})
        /\ Sum(by(T), L) = by(T)[z] + Sum(by(T), L \ {z})
    BY <2>1, <2>6, SumTake
  <2>8. /\ Sum(by(U), L \ {z}) = Sum(by(T), L \ {z}) /\ Sum(by(T), L \ {z}) \in Nat
    <3>1. IsFiniteSet(L \ {z}) /\ NatValued(by(U), L \ {z}) /\ NatValued(by(T), L \ {z})
      BY <2>6, FS_Subset DEF NatValued
    <3>. QED  BY <2>5, <3>1, SumSame, SumNat
  <2>9. Sum(w, U) = w[x] + Sum(w, T)
    <3>1. IsFiniteSet(T) /\ NatValued(w, T \cup {x})
      BY <1>0, <2>1 DEF NatValued, U
    <3>. QED  BY <3>1, SumInsert DEF U
  <2>10. Sum(by(T), L) = Sum(w, T)
    BY <1>2
  <2>11. Sum(by(U), L) = Sum(w, U)
    BY <2>1, <2>5, <2>7, <2>8, <2>9, <2>10
  <2>. QED  BY <2>1, <2>11 DEF U
<1>. HIDE DEF C
<1>3. D \in C
  BY <1>1, <1>2, PartInduction
<1>. QED  BY <1>3 DEF C

\* What is nowhere more sums to no more.
LEMMA SumMonotone ==
  ASSUME NEW g, NEW h, NEW S, IsFiniteSet(S), NatValued(g, S),
         \A x \in S : h[x] \in Nat /\ g[x] <= h[x]
  PROVE  Sum(g, S) <= Sum(h, S)
<1>. DEFINE k == [x \in S |-> h[x] - g[x]]
<1>1. NatValued(k, S) /\ \A x \in S : h[x] = g[x] + k[x]
  BY DEF NatValued
<1>. HIDE DEF k
<1>2. Sum(h, S) = Sum(g, S) + Sum(k, S)
  BY <1>1, SumPointwise
<1>3. Sum(g, S) \in Nat /\ Sum(k, S) \in Nat
  BY <1>1, SumNat
<1>. QED  BY <1>2, <1>3

\* A sum goes over to other names for its places.
LEMMA SumReindex ==
  ASSUME NEW g, NEW w, NEW m, NEW P, NEW L,
         IsFiniteSet(P), IsFiniteSet(L), NatValued(g, L),
         \A x \in P : m[x] \in L,
         \A y \in L : \E x \in P : m[x] = y,
         \A x, z \in P : m[x] = m[z] => x = z,
         \A x \in P : w[x] = g[m[x]]
  PROVE  Sum(w, P) = Sum(g, L)
<1>. DEFINE f == [y \in L |-> Sum(w, {x \in P : m[x] = y})]
<1>1. NatValued(w, P)
  BY DEF NatValued
<1>2. ASSUME NEW y \in L PROVE f[y] = g[y]
  <2>1. PICK x \in P : m[x] = y
    OBVIOUS
  <2>2. {z \in P : m[z] = y} = {x}
    BY <2>1
  <2>3. w[x] = g[y] /\ w[x] \in Nat
    BY <2>1 DEF NatValued
  <2>4. f[y] = Sum(w, {x})
    BY <2>2
  <2>. HIDE DEF f
  <2>. QED  BY <2>3, <2>4, SumSingleton
<1>3. Sum(f, L) = Sum(w, P)
  BY <1>1, SumFibers
<1>. HIDE DEF f
<1>4. Sum(g, L) = Sum(f, L)
  BY <1>2, SumSame
<1>. QED  BY <1>3, <1>4

LEMMA SumTwo ==
  ASSUME NEW w, w[1] \in Nat, w[2] \in Nat
  PROVE  Sum(w, {1, 2}) = w[1] + w[2]
<1>1. PICK x, y : x = 1 /\ y = 2
  OBVIOUS
<1>2. w[x] \in Nat /\ w[y] \in Nat /\ x # y /\ {1, 2} = {x} \cup {y}
  BY <1>1
<1>3. IsFiniteSet({x}) /\ y \notin {x}
  BY <1>2, FS_Singleton
<1>4. NatValued(w, {x} \cup {y})
  BY <1>2 DEF NatValued
<1>5. Sum(w, {x} \cup {y}) = w[y] + Sum(w, {x}) /\ Sum(w, {x}) = w[x]
  BY <1>2, <1>3, <1>4, SumInsert, SumSingleton
<1>6. Sum(w, {x} \cup {y}) = w[x] + w[y]
  BY <1>2, <1>5
<1>7. Sum(w, {1, 2}) = Sum(w, {x} \cup {y})
  BY <1>2
<1>. QED  BY <1>1, <1>6, <1>7

-------------------------------------------------------------------------------
(* The amounts of an order, from its lines.                                *)

\* Of naturals, if they are finitely many, one is the greatest: none is above
\* their sum.
LEMMA MaxNat ==
  ASSUME NEW S, IsFiniteSet(S), S \subseteq Nat, S # {}
  PROVE  Max(S) \in S /\ \A y \in S : Max(S) >= y
<1>. DEFINE g == [x \in S |-> x]
            Bounds == {n \in Nat : \A x \in S : x <= n}
<1>1. NatValued(g, S)
  BY DEF NatValued
<1>2. \A x \in S : x <= Sum(g, S) /\ Sum(g, S) \in Nat
  <2>1. ASSUME NEW x \in S PROVE x <= Sum(g, S)
    <3>1. Sum(g, S) = g[x] + Sum(g, S \ {x}) /\ g[x] = x
      BY <1>1, SumTake
    <3>2. IsFiniteSet(S \ {x}) /\ NatValued(g, S \ {x})
      BY <1>1, FS_Subset DEF NatValued
    <3>3. Sum(g, S \ {x}) \in Nat
      BY <3>2, SumNat
    <3>. QED  BY <3>1, <3>3
  <2>. QED  BY <2>1, <1>1, SumNat
<1>. HIDE DEF g
<1>3. Sum(g, S) \in Bounds
  BY <1>2
<1>4. PICK m \in Bounds : \A n \in Bounds : m <= n
  BY <1>3, LeastNat
<1>5. m \in S
  <2>. SUFFICES ASSUME m \notin S PROVE FALSE
    OBVIOUS
  <2>1. m \in Nat /\ \A x \in S : x \in Nat /\ x < m
    BY <1>4
  <2>2. PICK x : x \in S
    OBVIOUS
  <2>3. m - 1 \in Nat /\ \A y \in S : y <= m - 1
    BY <2>1, <2>2
  <2>4. m - 1 \in Bounds
    BY <2>3
  <2>. HIDE DEF Bounds
  <2>. QED  BY <1>4, <2>1, <2>4
<1>6. \A y \in S : m >= y
  BY <1>4
<1>. QED  BY <1>5, <1>6 DEF Max

\* What a table gains by the lines of an order, and the order by its lines.
LEMMA LineSums ==
  ASSUME NEW o \in Order, NEW s \in Side
  PROVE  LET w == [i \in Line(o) |-> LineAmount(s, o.items[i])]
         IN  /\ IsFiniteSet(Line(o))
             /\ \A i \in Line(o) : w[i] \in Nat \ {0}
             /\ Sum(w, Line(o)) \in Nat
             /\ Sum(w, Line(o)) = IF s = "count" THEN Units(o) ELSE Subtotal(o)
<1>. DEFINE w == [i \in Line(o) |-> LineAmount(s, o.items[i])]
<1>1. IsFiniteSet(Line(o))
  BY OrderAssumption
<1>2. ASSUME NEW i \in Line(o) PROVE w[i] \in Nat \ {0}
  <2>1. o.items[i].price \in Nat \ {0} /\ o.items[i].quantity \in Nat \ {0}
    BY OrderAssumption
  <2>2. \A p, q \in Nat \ {0} : p * q \in Nat \ {0}
    OBVIOUS
  <2>. QED  BY <2>1, <2>2 DEF LineAmount, LineSubtotal
<1>3. Sum(w, Line(o)) \in Nat
  BY <1>1, <1>2, SumNat DEF NatValued
<1>4. Sum(w, Line(o)) = IF s = "count" THEN Units(o) ELSE Subtotal(o)
  <2>1. CASE s = "count"
    BY <2>1 DEF LineAmount, Units, SumFunction, Sum
  <2>2. CASE s # "count"
    BY <2>2 DEF LineAmount, Subtotal, SumFunction, Sum
  <2>. QED  BY <2>1, <2>2
<1>. QED  BY <1>1, <1>2, <1>3, <1>4

LEMMA OrderNumbers ==
  \A o \in Order :
    /\ Total(o) \in Nat /\ Tax(o) \in Nat /\ Units(o) \in Nat /\ Subtotal(o) \in Nat
    /\ \A b \in Board : Score(b, o) \in Nat
    /\ o.id \in Nat /\ o.created \in Nat
    /\ o.customer # Blank
    /\ \A p \in Order : p.id = o.id => p = o
<1>. SUFFICES ASSUME NEW o \in Order
              PROVE  /\ Total(o) \in Nat /\ Tax(o) \in Nat /\ Units(o) \in Nat
                     /\ Subtotal(o) \in Nat
                     /\ \A b \in Board : Score(b, o) \in Nat
                     /\ o.customer # Blank
  BY OrderAssumption
<1>1. Units(o) \in Nat
  <2>1. "count" \in Side
    BY DEF Side
  <2>. QED  BY <2>1, LineSums
<1>2. Subtotal(o) \in Nat
  <2>1. "revenue" \in Side /\ "revenue" # "count"
    BY DEF Side
  <2>. QED  BY <2>1, LineSums
<1>3. Tax(o) \in Nat
  <2>1. \A n \in Nat : (n * 8) \div 100 \in Nat
    OBVIOUS
  <2>. QED  BY <1>2, <2>1 DEF Tax
<1>4. Total(o) \in Nat
  BY <1>2, <1>3 DEF Total, Shipping
<1>5. MaxItem(o) \in Nat
  <2>. DEFINE price == [i \in Line(o) |-> o.items[i].price]
              P == {o.items[i].price : i \in Line(o)}
  <2>1. IsFiniteSet(Line(o)) /\ P \subseteq Nat
    BY OrderAssumption
  <2>2. price \in Surjection(Line(o), P)
    BY DEF Surjection
  <2>3. IsFiniteSet(P)
    BY <2>1, <2>2, FS_Surjection
  <2>4. IsFiniteSet({0} \cup P)
    BY <2>3, FS_Singleton, FS_Union
  <2>5. {0} \cup P \subseteq Nat /\ {0} \cup P # {}
    BY <2>1
  <2>. HIDE DEF P
  <2>6. Max({0} \cup P) \in Nat
    BY <2>4, <2>5, MaxNat
  <2>. QED  BY <2>6 DEF MaxItem, P
<1>6. \A b \in Board : Score(b, o) \in Nat
  BY <1>1, <1>4, <1>5 DEF Score, Board
<1>7. o.customer # Blank
  <2>1. "customer" \in OrderDim /\ Label("customer", o) = o.customer
    BY DEF OrderDim, Label
  <2>. QED  BY <2>1, OrderAssumption
<1>. QED  BY <1>1, <1>2, <1>3, <1>4, <1>6, <1>7

-------------------------------------------------------------------------------
(* Leaderboards.                                                           *)

\* A nonempty set of orders has one that stands below all others.
LEMMA LowestOrder ==
  ASSUME NEW b \in Board, NEW B, B \subseteq Order, B # {}
  PROVE  \E m \in B : \A x \in B \ {m} : Above(b, x, m)
<1>1. {Score(b, x) : x \in B} \subseteq Nat
  BY OrderNumbers
<1>2. PICK s \in {Score(b, x) : x \in B} : \A n \in {Score(b, x) : x \in B} : s <= n
  BY <1>1, LeastNat
<1>. DEFINE low == {x \in B : Score(b, x) = s}
<1>3. {x.id : x \in low} \subseteq Nat /\ {x.id : x \in low} # {}
  BY <1>2, OrderNumbers
<1>4. PICK i \in {x.id : x \in low} : \A n \in {x.id : x \in low} : i <= n
  BY <1>3, LeastNat
<1>5. PICK m \in low : m.id = i
  BY <1>4
<1>6. ASSUME NEW x \in B \ {m} PROVE Above(b, x, m)
  <2>1. Score(b, x) \in Nat /\ Score(b, m) \in Nat /\ s <= Score(b, x) /\ Score(b, m) = s
    BY <1>2, <1>5, OrderNumbers
  <2>2. CASE Score(b, x) = s
    <3>1. i <= x.id /\ x.id # m.id
      BY <1>4, <2>2, <1>5, OrderNumbers
    <3>. QED  BY <3>1, <1>5, <2>1, <2>2, OrderNumbers DEF Above
  <2>3. CASE Score(b, x) # s
    BY <2>1, <2>3 DEF Above
  <2>. QED  BY <2>2, <2>3
<1>. QED  BY <1>5, <1>6

\* The order of a leaderboard is strict and transitive.
LEMMA AboveOrder ==
  ASSUME NEW b \in Board, NEW x \in Order, NEW y \in Order, NEW z \in Order
  PROVE  /\ ~Above(b, x, x)
         /\ Above(b, x, y) => ~Above(b, y, x)
         /\ Above(b, x, y) /\ Above(b, y, z) => Above(b, x, z)
         /\ x # y => Above(b, x, y) \/ Above(b, y, x)
<1>. Score(b, x) \in Nat /\ Score(b, y) \in Nat /\ Score(b, z) \in Nat
  BY OrderNumbers
<1>. x.id \in Nat /\ y.id \in Nat /\ z.id \in Nat /\ (x.id = y.id => x = y)
  BY OrderNumbers
<1>. QED  BY DEF Above

\* Trimming a set that fits changes nothing.
LEMMA TrimFits ==
  ASSUME NEW b \in Board, NEW B, B \subseteq Order, IsFiniteSet(B),
         Cardinality(B) <= TopOrdersLimit
  PROVE  TrimBoard(b, B) = B
<1>1. ASSUME NEW x \in B
      PROVE  Cardinality({y \in B : Above(b, y, x)}) < TopOrdersLimit
  <2>1. {y \in B : Above(b, y, x)} \subseteq B \ {x}
    BY AboveOrder
  <2>2. IsFiniteSet(B \ {x}) /\ Cardinality(B \ {x}) = Cardinality(B) - 1
    BY FS_RemoveElement
  <2>3. /\ IsFiniteSet({y \in B : Above(b, y, x)})
        /\ Cardinality({y \in B : Above(b, y, x)}) <= Cardinality(B \ {x})
    BY <2>1, <2>2, FS_Subset
  <2>. QED
    BY <2>2, <2>3, FS_CardinalityType, LimitAssumption
<1>. QED  BY <1>1 DEF TrimBoard

\* Trimming a set one over the limit takes away its lowest order.
LEMMA TrimOver ==
  ASSUME NEW b \in Board, NEW B, B \subseteq Order, IsFiniteSet(B),
         Cardinality(B) = TopOrdersLimit + 1,
         NEW m \in B, \A x \in B \ {m} : Above(b, x, m)
  PROVE  /\ TrimBoard(b, B) = B \ {m}
         /\ IsFiniteSet(B \ {m}) /\ Cardinality(B \ {m}) = TopOrdersLimit
<1>0. IsFiniteSet(B \ {m}) /\ Cardinality(B \ {m}) = TopOrdersLimit
  BY FS_RemoveElement, LimitAssumption
<1>1. {y \in B : Above(b, y, m)} = B \ {m}
  BY AboveOrder
<1>2. ASSUME NEW x \in B \ {m}
      PROVE  Cardinality({y \in B : Above(b, y, x)}) < TopOrdersLimit
  <2>1. {y \in B : Above(b, y, x)} \subseteq (B \ {m}) \ {x}
    BY AboveOrder
  <2>2. /\ IsFiniteSet((B \ {m}) \ {x})
        /\ Cardinality((B \ {m}) \ {x}) = TopOrdersLimit - 1
    BY <1>0, FS_RemoveElement
  <2>3. /\ IsFiniteSet({y \in B : Above(b, y, x)})
        /\ Cardinality({y \in B : Above(b, y, x)}) <= TopOrdersLimit - 1
    BY <2>1, <2>2, FS_Subset
  <2>. QED
    BY <2>3, FS_CardinalityType, LimitAssumption
<1>. QED
  BY <1>0, <1>1, <1>2, LimitAssumption DEF TrimBoard

\* The step that matters: the top of S, one order added and trimmed, is the
\* top of S with that order.
LEMMA TrimKeepsTop ==
  ASSUME NEW b \in Board, NEW B, NEW S, S \subseteq Order, IsFiniteSet(B),
         IsTopOf(b, B, S), NEW o \in Order
  PROVE  /\ IsFiniteSet(TrimBoard(b, B \cup {o}))
         /\ IsTopOf(b, TrimBoard(b, B \cup {o}), S \cup {o})
<1>. DEFINE C == B \cup {o}
<1>0. /\ B \subseteq S /\ C \subseteq Order /\ IsFiniteSet(C)
      /\ Cardinality(B) \in Nat /\ Cardinality(C) \in Nat
      /\ Cardinality(C) = (IF o \in B THEN Cardinality(B) ELSE Cardinality(B) + 1)
  BY FS_AddElement, FS_CardinalityType DEF IsTopOf
<1>1. CASE Cardinality(C) <= TopOrdersLimit
  <2>1. TrimBoard(b, C) = C
    BY <1>0, <1>1, TrimFits
  <2>2. \A y \in (S \cup {o}) \ C : y \in S \ B
    OBVIOUS
  <2>3. ASSUME NEW y \in (S \cup {o}) \ C
        PROVE  Cardinality(C) = TopOrdersLimit /\ \A x \in C : Above(b, x, y)
    <3>1. Cardinality(B) = TopOrdersLimit /\ \A x \in B : Above(b, x, y)
      BY <2>2 DEF IsTopOf
    <3>2. o \in B
      BY <3>1, <1>0, <1>1, LimitAssumption
    <3>. QED  BY <3>1, <3>2, <1>0
  <2>. QED  BY <2>1, <2>3, <1>0, <1>1 DEF IsTopOf
<1>2. CASE Cardinality(C) > TopOrdersLimit
  <2>1. o \notin B /\ Cardinality(B) = TopOrdersLimit /\ Cardinality(C) = TopOrdersLimit + 1
    BY <1>0, <1>2, LimitAssumption DEF IsTopOf
  <2>2. PICK m \in C : \A x \in C \ {m} : Above(b, x, m)
    BY <1>0, LowestOrder
  <2>. HIDE DEF C
  <2>3. TrimBoard(b, C) = C \ {m}
    BY <1>0, <2>1, <2>2, TrimOver
  <2>4. IsFiniteSet(C \ {m}) /\ Cardinality(C \ {m}) = TopOrdersLimit
    BY <1>0, <2>1, <2>2, TrimOver
  <2>. USE DEF C
  <2>5. ASSUME NEW y \in (S \cup {o}) \ (C \ {m})
        PROVE  \A x \in C \ {m} : Above(b, x, y)
    <3>1. CASE y = m
      BY <3>1, <2>2
    <3>2. CASE y # m
      <4>1. y \in S \ B /\ y \in Order
        BY <3>2
      <4>2. \A x \in B : Above(b, x, y)
        BY <4>1 DEF IsTopOf
      <4>3. CASE m = o
        BY <4>2, <4>3
      <4>4. CASE m # o
        <5>1. m \in B /\ Above(b, o, m) /\ Above(b, m, y)
          BY <4>4, <2>2, <4>2, <2>1
        <5>2. Above(b, o, y)
          BY <5>1, <4>1, <1>0, AboveOrder
        <5>. QED  BY <5>2, <4>2
      <4>. QED  BY <4>3, <4>4
    <3>. QED  BY <3>1, <3>2
  <2>. QED  BY <2>3, <2>4, <2>5, <1>0, LimitAssumption DEF IsTopOf
<1>. QED  BY <1>1, <1>2, <1>0, LimitAssumption

-------------------------------------------------------------------------------
(* The inductive invariant, of a dataset d, the orders l applied to it and *)
(* the hour.  A board must be finite for its cardinality to mean anything; *)
(* a bucket that is gone, or was and came back, lies behind the window.    *)

Field == {"counter", "table", "described", "customers", "seen", "hours", "board",
          "pairs", "lost"}

ShapeInv(d, l) ==
  /\ DOMAIN d = Field
  /\ d.counter \in [Counter -> Nat]
  /\ IsFiniteSet(d.seen)
  /\ \A b \in Board : IsFiniteSet(d.board[b])
  /\ l \in Seq(Order)

HourInv(d, l, now) ==
  \A h \in Hour :
    /\ HourOrZero(d, h).orders \in Nat
    /\ HourOrZero(d, h).orders <= OrdersOf(h, l)
    /\ h \notin d.lost => \/ HourOrZero(d, h).orders = OrdersOf(h, l)
                          \/ now >= h + HourBucketTTL
    /\ h \in DOMAIN d.hours => /\ d.hours[h].expires \in Nat
                               /\ d.hours[h].expires >= h + HourBucketTTL

DataInv(d, l, now) ==
  ShapeInv(d, l) /\ BoardsTop(d, l) /\ SplitOf(d, l) /\ HourInv(d, l, now)

IInv == /\ clock \in Nat
        /\ DataInv(data, log, clock)
        /\ DataInv(replica, rlog, clock)

\* What appending an order does to the history.
LEMMA AppliedAppend ==
  ASSUME NEW l \in Seq(Order), NEW o \in Order
  PROVE  /\ Append(l, o) \in Seq(Order) /\ Len(Append(l, o)) = Len(l) + 1
         /\ Applied(Append(l, o)) = Applied(l) \cup {o}
         /\ Applied(l) \subseteq Order
<1>1. /\ Append(l, o) \in Seq(Order) /\ Len(Append(l, o)) = Len(l) + 1
      /\ DOMAIN Append(l, o) = DOMAIN l \cup {Len(l) + 1}
      /\ Append(l, o)[Len(l) + 1] = o
      /\ \A i \in DOMAIN l : Append(l, o)[i] = l[i] /\ l[i] \in Order
  OBVIOUS
<1>. QED  BY <1>1 DEF Applied

\* ... and to the number of orders of an hour.
LEMMA OrdersOfAppend ==
  ASSUME NEW l \in Seq(Order), NEW o \in Order, NEW h
  PROVE  /\ OrdersOf(h, l) \in Nat
         /\ OrdersOf(h, Append(l, o)) = OrdersOf(h, l) + (IF o.created = h THEN 1 ELSE 0)
<1>. DEFINE S == {i \in DOMAIN l : l[i].created = h}
            T == {i \in DOMAIN Append(l, o) : Append(l, o)[i].created = h}
<1>1. /\ DOMAIN l = 1..Len(l) /\ Len(l) \in Nat
      /\ DOMAIN Append(l, o) = DOMAIN l \cup {Len(l) + 1}
      /\ Len(l) + 1 \notin DOMAIN l
      /\ Append(l, o)[Len(l) + 1] = o
      /\ \A i \in DOMAIN l : Append(l, o)[i] = l[i]
  OBVIOUS
<1>2. IsFiniteSet(DOMAIN l)
  BY <1>1, FS_Interval
<1>3. IsFiniteSet(S) /\ Cardinality(S) \in Nat
  BY <1>2, FS_Subset, FS_CardinalityType
<1>4. T = IF o.created = h THEN S \cup {Len(l) + 1} ELSE S
  BY <1>1
<1>5. Len(l) + 1 \notin S
  BY <1>1
<1>. HIDE DEF S, T
<1>6. Cardinality(T) = Cardinality(S) + (IF o.created = h THEN 1 ELSE 0)
  <2>1. CASE o.created = h
    BY <1>3, <1>4, <1>5, <2>1, FS_AddElement
  <2>2. CASE o.created # h
    BY <1>3, <1>4, <2>2
  <2>. QED  BY <2>1, <2>2
<1>. QED  BY <1>3, <1>6 DEF OrdersOf, S, T

\* Tax and shipping are naturals where the amounts of the order are.
LEMMA AmountsNat ==
  ASSUME NEW o \in Order
  PROVE  Total(o) \in Nat /\ Tax(o) \in Nat /\ Shipping \in Nat /\ Units(o) \in Nat
BY OrderNumbers DEF Shipping

LEMMA HourNat == \A h \in Hour : h \in Nat
BY OrderNumbers DEF Hour

LEMMA OrdersOfNat ==
  ASSUME NEW l \in Seq(Order), NEW h
  PROVE  OrdersOf(h, l) \in Nat
<1>. DEFINE S == {i \in DOMAIN l : l[i].created = h}
<1>1. S \subseteq 1..Len(l) /\ Len(l) \in Nat
  OBVIOUS
<1>2. IsFiniteSet(S)
  BY <1>1, FS_Interval, FS_Subset
<1>. QED  BY <1>2, FS_CardinalityType DEF OrdersOf

LEMMA EmptyInv == DataInv(EmptyData, <<>>, 0)
<1>1. IsFiniteSet({}) /\ Cardinality({}) = 0
  BY FS_EmptySet
<1>2. Applied(<<>>) = {} /\ \A h : OrdersOf(h, <<>>) = 0
  BY <1>1 DEF Applied, OrdersOf
<1>3. ShapeInv(EmptyData, <<>>)
  BY <1>1 DEF ShapeInv, EmptyData, Field
<1>4. BoardsTop(EmptyData, <<>>)
  BY <1>1, <1>2, LimitAssumption DEF BoardsTop, IsTopOf, EmptyData
<1>5. SplitOf(EmptyData, <<>>)
  BY <1>1, <1>2 DEF SplitOf, EmptyData, Counter
<1>6. HourInv(EmptyData, <<>>, 0)
  BY <1>2 DEF HourInv, HourOrZero, EmptyData
<1>. QED  BY <1>3, <1>4, <1>5, <1>6 DEF DataInv

\* The script keeps the four parts, one lemma each.
LEMMA ApplyBoards ==
  ASSUME NEW d, NEW l, NEW now, NEW o \in Order, ShapeInv(d, l), BoardsTop(d, l)
  PROVE  /\ BoardsTop(Apply(d, o, now), Append(l, o))
         /\ \A b \in Board : IsFiniteSet(Apply(d, o, now).board[b])
<1>1. ASSUME NEW b \in Board
      PROVE  /\ IsFiniteSet(Apply(d, o, now).board[b])
             /\ IsTopOf(b, Apply(d, o, now).board[b], Applied(Append(l, o)))
  <2>1. IsFiniteSet(d.board[b]) /\ IsTopOf(b, d.board[b], Applied(l)) /\ l \in Seq(Order)
    BY DEF ShapeInv, BoardsTop
  <2>2. Applied(l) \subseteq Order /\ Applied(Append(l, o)) = Applied(l) \cup {o}
    BY <2>1, AppliedAppend
  <2>3. Apply(d, o, now).board[b] = TrimBoard(b, d.board[b] \cup {o})
    BY DEF Apply
  <2>. QED  BY <2>1, <2>2, <2>3, TrimKeepsTop
<1>. QED  BY <1>1 DEF BoardsTop

LEMMA ApplyCounters ==
  ASSUME NEW d, NEW l, NEW now, NEW o \in Order, ShapeInv(d, l), SplitOf(d, l)
  PROVE  /\ Apply(d, o, now).counter \in [Counter -> Nat]
         /\ IsFiniteSet(Apply(d, o, now).seen)
         /\ SplitOf(Apply(d, o, now), Append(l, o))
<1>. DEFINE e == Apply(d, o, now)
<1>1. Total(o) \in Nat /\ o.customer # Blank
  BY OrderNumbers
<1>2. /\ e.counter = [c \in Counter |-> d.counter[c] + Increment(d, o)[c]]
      /\ e.seen = d.seen \cup ({o.customer} \ {Blank})
      /\ e.customers = d.customers \cup ({o.customer} \ {Blank})
  BY DEF Apply
<1>. HIDE DEF e
<1>3. /\ e.seen = d.seen \cup {o.customer} /\ IsFiniteSet(e.seen)
      /\ Cardinality(e.seen) = (IF o.customer \in d.seen THEN Cardinality(d.seen)
                                ELSE Cardinality(d.seen) + 1)
      /\ Cardinality(d.seen) \in Nat
  <2>1. e.seen = d.seen \cup {o.customer} /\ IsFiniteSet(d.seen)
    BY <1>1, <1>2 DEF ShapeInv
  <2>. QED  BY <2>1, FS_AddElement, FS_CardinalityType
<1>4. /\ l \in Seq(Order) /\ d.counter \in [Counter -> Nat]
      /\ Len(l) \in Nat /\ Len(Append(l, o)) = Len(l) + 1
      /\ Applied(Append(l, o)) = Applied(l) \cup {o}
  BY AppliedAppend DEF ShapeInv
<1>5. \A c \in Counter : /\ d.counter[c] \in Nat
                         /\ e.counter[c] = d.counter[c] + Increment(d, o)[c]
  BY <1>2, <1>4
<1>6. SplitOf(e, Append(l, o))
  <2>0. /\ {"orders", "revenue", "ordersNew", "ordersReturning", "revenueNew",
             "revenueReturning"} \subseteq Counter
        /\ Increment(d, o)["orders"] = 1 /\ Increment(d, o)["revenue"] = Total(o)
    BY DEF Counter, Increment
  <2>. DEFINE Sums == /\ e.counter["ordersNew"] = Cardinality(e.seen)
                      /\ e.counter["ordersNew"] + e.counter["ordersReturning"] = e.counter["orders"]
                      /\ e.counter["revenueNew"] + e.counter["revenueReturning"]
                           = e.counter["revenue"]
  <2>5. /\ d.counter["orders"] \in Nat /\ e.counter["orders"] = d.counter["orders"] + Increment(d, o)["orders"]
        /\ d.counter["revenue"] \in Nat /\ e.counter["revenue"] = d.counter["revenue"] + Increment(d, o)["revenue"]
        /\ d.counter["ordersNew"] \in Nat /\ e.counter["ordersNew"] = d.counter["ordersNew"] + Increment(d, o)["ordersNew"]
        /\ d.counter["ordersReturning"] \in Nat /\ e.counter["ordersReturning"] = d.counter["ordersReturning"] + Increment(d, o)["ordersReturning"]
        /\ d.counter["revenueNew"] \in Nat /\ e.counter["revenueNew"] = d.counter["revenueNew"] + Increment(d, o)["revenueNew"]
        /\ d.counter["revenueReturning"] \in Nat /\ e.counter["revenueReturning"] = d.counter["revenueReturning"] + Increment(d, o)["revenueReturning"]
    BY <2>0, <1>5
  <2>6. /\ d.counter["ordersNew"] = Cardinality(d.seen)
        /\ d.counter["ordersNew"] + d.counter["ordersReturning"] = d.counter["orders"]
        /\ d.counter["revenueNew"] + d.counter["revenueReturning"] = d.counter["revenue"]
    BY DEF SplitOf
  <2>1. ASSUME o.customer \in d.seen PROVE Sums
    <3>1. /\ Increment(d, o)["ordersNew"] = 0 /\ Increment(d, o)["ordersReturning"] = 1
          /\ Increment(d, o)["revenueNew"] = 0
          /\ Increment(d, o)["revenueReturning"] = Total(o)
      BY <1>1, <2>1 DEF Increment, AddIf, IsNew, IsReturning
    <3>. QED  BY <3>1, <2>0, <2>5, <2>6, <1>1, <1>3, <2>1
  <2>2. ASSUME o.customer \notin d.seen PROVE Sums
    <3>1. /\ Increment(d, o)["ordersNew"] = 1 /\ Increment(d, o)["ordersReturning"] = 0
          /\ Increment(d, o)["revenueNew"] = Total(o)
          /\ Increment(d, o)["revenueReturning"] = 0
      BY <1>1, <2>2 DEF Increment, AddIf, IsNew, IsReturning
    <3>. QED  BY <3>1, <2>0, <2>5, <2>6, <1>1, <1>3, <2>2
  <2>3. e.counter["orders"] = Len(Append(l, o))
    BY <2>0, <1>4, <1>5 DEF SplitOf
  <2>4. e.customers = e.seen /\ e.seen = {p.customer : p \in Applied(Append(l, o))}
    BY <1>1, <1>2, <1>3, <1>4 DEF SplitOf
  <2>. QED  BY <2>1, <2>2, <2>3, <2>4 DEF SplitOf
<1>7. e.counter \in [Counter -> Nat]
  <2>. SUFFICES ASSUME NEW c \in Counter PROVE d.counter[c] + Increment(d, o)[c] \in Nat
    BY <1>2
  <2>1. d.counter[c] \in Nat
    BY <1>4
  <2>2. Increment(d, o)[c] \in Nat
    BY AmountsNat DEF Increment, Counter, AddIf
  <2>. QED  BY <2>1, <2>2
<1>. QED  BY <1>3, <1>6, <1>7 DEF e

LEMMA ApplyHours ==
  ASSUME NEW d, NEW l, NEW now \in Nat, NEW o \in Order, o.created <= now,
         ShapeInv(d, l), HourInv(d, l, now)
  PROVE  HourInv(Apply(d, o, now), Append(l, o), now)
<1>. DEFINE e == Apply(d, o, now)
            one(h) == IF o.created = h THEN 1 ELSE 0
<1>1. e.hours = AddHour(d.hours, o, now) /\ e.lost = d.lost
  BY DEF Apply
<1>2. /\ DOMAIN e.hours = DOMAIN d.hours \cup {o.created}
      /\ \A h \in DOMAIN d.hours : h # o.created => e.hours[h] = d.hours[h]
      /\ e.hours[o.created].orders = HourOrZero(d, o.created).orders + 1
      /\ e.hours[o.created].expires = now + HourBucketTTL
  BY <1>1 DEF AddHour, HourOrZero
<1>. HIDE DEF e
<1>3. ASSUME NEW h \in Hour
      PROVE  /\ HourOrZero(e, h).orders \in Nat
             /\ HourOrZero(e, h).orders <= OrdersOf(h, Append(l, o))
             /\ h \notin e.lost => \/ HourOrZero(e, h).orders = OrdersOf(h, Append(l, o))
                                   \/ now >= h + HourBucketTTL
             /\ h \in DOMAIN e.hours => /\ e.hours[h].expires \in Nat
                                        /\ e.hours[h].expires >= h + HourBucketTTL
  <2>1. HourOrZero(e, h).orders = HourOrZero(d, h).orders + one(h)
    <3>1. CASE h = o.created
      BY <1>2, <3>1 DEF HourOrZero
    <3>2. CASE h # o.created
      <4>1. (h \in DOMAIN e.hours) = (h \in DOMAIN d.hours)
        BY <1>2, <3>2
      <4>2. HourOrZero(e, h) = HourOrZero(d, h)
        BY <4>1, <1>2, <3>2 DEF HourOrZero
      <4>3. HourOrZero(d, h).orders \in Nat
        BY DEF HourInv
      <4>. QED  BY <4>2, <4>3, <3>2
    <3>. QED  BY <3>1, <3>2
  <2>2. OrdersOf(h, l) \in Nat /\ OrdersOf(h, Append(l, o)) = OrdersOf(h, l) + one(h)
    BY OrdersOfAppend DEF ShapeInv
  <2>3. /\ HourOrZero(d, h).orders \in Nat
        /\ HourOrZero(d, h).orders <= OrdersOf(h, l)
        /\ h \notin d.lost => \/ HourOrZero(d, h).orders = OrdersOf(h, l)
                              \/ now >= h + HourBucketTTL
        /\ h \in DOMAIN d.hours => /\ d.hours[h].expires \in Nat
                                   /\ d.hours[h].expires >= h + HourBucketTTL
    BY DEF HourInv
  <2>4. h \in DOMAIN e.hours => /\ e.hours[h].expires \in Nat
                               /\ e.hours[h].expires >= h + HourBucketTTL
    <3>1. CASE h = o.created
      BY <1>2, <3>1, OrderNumbers, LimitAssumption
    <3>2. CASE h # o.created
      BY <1>2, <3>2, <2>3
    <3>. QED  BY <3>1, <3>2
  <2>. HIDE DEF one
  <2>5. one(h) \in Nat
    BY DEF one
  <2>. QED  BY <1>1, <2>1, <2>2, <2>3, <2>4, <2>5
<1>. QED  BY <1>3 DEF HourInv, e

LEMMA ApplyInv ==
  ASSUME NEW d, NEW l, NEW now \in Nat, NEW o \in Order, o.created <= now,
         DataInv(d, l, now)
  PROVE  DataInv(Apply(d, o, now), Append(l, o), now)
<1>1. ShapeInv(d, l) /\ BoardsTop(d, l) /\ SplitOf(d, l) /\ HourInv(d, l, now)
  BY DEF DataInv
<1>2. /\ BoardsTop(Apply(d, o, now), Append(l, o))
      /\ \A b \in Board : IsFiniteSet(Apply(d, o, now).board[b])
  BY <1>1, ApplyBoards
<1>3. /\ Apply(d, o, now).counter \in [Counter -> Nat]
      /\ IsFiniteSet(Apply(d, o, now).seen)
      /\ SplitOf(Apply(d, o, now), Append(l, o))
  BY <1>1, ApplyCounters
<1>4. HourInv(Apply(d, o, now), Append(l, o), now)
  BY <1>1, ApplyHours
<1>5. DOMAIN Apply(d, o, now) = Field /\ Append(l, o) \in Seq(Order)
  BY <1>1, AppliedAppend DEF Apply, Field, ShapeInv
<1>. QED  BY <1>2, <1>3, <1>4, <1>5 DEF DataInv, ShapeInv

\* A bucket may go when it has expired, or when it is put down as lost.
LEMMA DropInv ==
  ASSUME NEW d, NEW e, NEW l, NEW now \in Nat, NEW h \in Hour, DataInv(d, l, now),
         DOMAIN e = Field, e.counter = d.counter, e.seen = d.seen,
         e.customers = d.customers, e.board = d.board,
         e.hours = Restrict(d.hours, DOMAIN d.hours \ {h}),
         \/ e.lost = d.lost /\ now >= h + HourBucketTTL
         \/ e.lost = d.lost \cup {h}
  PROVE  DataInv(e, l, now)
<1>1. ShapeInv(e, l) /\ BoardsTop(e, l) /\ SplitOf(e, l)
  BY DEF DataInv, ShapeInv, BoardsTop, SplitOf
<1>2. /\ DOMAIN e.hours = DOMAIN d.hours \ {h}
      /\ \A g \in DOMAIN e.hours : e.hours[g] = d.hours[g]
  BY DEF Restrict
<1>3. ASSUME NEW g \in Hour
      PROVE  /\ HourOrZero(e, g).orders \in Nat
             /\ HourOrZero(e, g).orders <= OrdersOf(g, l)
             /\ g \notin e.lost => \/ HourOrZero(e, g).orders = OrdersOf(g, l)
                                   \/ now >= g + HourBucketTTL
             /\ g \in DOMAIN e.hours => /\ e.hours[g].expires \in Nat
                                        /\ e.hours[g].expires >= g + HourBucketTTL
  <2>1. /\ HourOrZero(d, g).orders \in Nat
        /\ HourOrZero(d, g).orders <= OrdersOf(g, l)
        /\ g \notin d.lost => \/ HourOrZero(d, g).orders = OrdersOf(g, l)
                              \/ now >= g + HourBucketTTL
        /\ g \in DOMAIN d.hours => /\ d.hours[g].expires \in Nat
                                   /\ d.hours[g].expires >= g + HourBucketTTL
    BY DEF DataInv, HourInv
  <2>2. OrdersOf(g, l) \in Nat
    BY <2>1, OrdersOfNat DEF DataInv, ShapeInv
  <2>3. CASE g = h
    <3>1. HourOrZero(e, g).orders = 0
      BY <1>2, <2>3 DEF HourOrZero
    <3>. QED  BY <3>1, <1>2, <2>1, <2>2, <2>3
  <2>4. CASE g # h
    <3>1. HourOrZero(e, g) = HourOrZero(d, g)
      BY <1>2, <2>4 DEF HourOrZero
    <3>. QED  BY <3>1, <1>2, <2>1, <2>4
  <2>. QED  BY <2>3, <2>4
<1>. QED  BY <1>1, <1>3 DEF DataInv, HourInv

\* Time only adds to what may be behind the window.
LEMMA TickInv ==
  ASSUME NEW d, NEW l, NEW now \in Nat, DataInv(d, l, now)
  PROVE  DataInv(d, l, now + 1)
<1>1. ASSUME NEW h \in Hour, now >= h + HourBucketTTL
      PROVE  now + 1 >= h + HourBucketTTL
  BY <1>1, HourNat, LimitAssumption
<1>. QED  BY <1>1 DEF DataInv, HourInv

\* The invariant of both datasets: what the leaderboards, the split and the hour
\* buckets rest on (the script of store.go).
THEOREM InductiveInv == Spec => []IInv
<1>1. Init => IInv
  BY EmptyInv DEF Init, IInv
<1>2. IInv /\ [Next]_vars => IInv'
  <2>. SUFFICES ASSUME IInv, [Next]_vars PROVE IInv'
    OBVIOUS
  <2>0. /\ clock \in Nat /\ DataInv(data, log, clock) /\ DataInv(replica, rlog, clock)
    BY DEF IInv
  <2>1. ASSUME NEW o \in Order, ApplyOrder(o) PROVE IInv'
    <3>1. DataInv(data', log', clock)
      BY <2>0, <2>1, ApplyInv DEF ApplyOrder
    <3>. QED  BY <2>0, <2>1, <3>1 DEF ApplyOrder, IInv
  <2>2. CASE Replicate
    BY <2>0, <2>2 DEF Replicate, IInv
  <2>3. CASE Failover
    BY <2>0, <2>3 DEF Failover, IInv
  <2>4. CASE Tick
    <3>1. DataInv(data, log, clock + 1) /\ DataInv(replica, rlog, clock + 1)
      BY <2>0, TickInv
    <3>. QED  BY <2>0, <2>4, <3>1 DEF Tick, storeVars, IInv
  <2>5. ASSUME NEW h \in Hour, Expire(h) PROVE IInv'
    <3>1. DOMAIN data = Field
      BY <2>0 DEF DataInv, ShapeInv
    <3>2. /\ DOMAIN data' = Field /\ data'.counter = data.counter
          /\ data'.seen = data.seen /\ data'.customers = data.customers
          /\ data'.board = data.board /\ data'.lost = data.lost
          /\ data'.hours = Restrict(data.hours, DOMAIN data.hours \ {h})
      BY <2>5, <3>1 DEF Expire, DropHour, Field
    <3>3. clock >= h + HourBucketTTL
      <4>1. /\ data.hours[h].expires \in Nat
            /\ data.hours[h].expires >= h + HourBucketTTL
            /\ clock >= data.hours[h].expires
        BY <2>0, <2>5 DEF Expire, DataInv, HourInv
      <4>. QED  BY <4>1, <2>0, HourNat, LimitAssumption
    <3>4. DataInv(data', log, clock)
      BY <2>0, <3>2, <3>3, DropInv
    <3>. QED  BY <2>0, <2>5, <3>4 DEF Expire, IInv
  <2>6. ASSUME NEW h \in Hour, Evict(h) PROVE IInv'
    <3>1. DOMAIN data = Field
      BY <2>0 DEF DataInv, ShapeInv
    <3>2. /\ DOMAIN data' = Field /\ data'.counter = data.counter
          /\ data'.seen = data.seen /\ data'.customers = data.customers
          /\ data'.board = data.board /\ data'.lost = data.lost \cup {h}
          /\ data'.hours = Restrict(data.hours, DOMAIN data.hours \ {h})
      BY <2>6, <3>1 DEF Evict, LoseHour, DropHour, Field
    <3>3. DataInv(data', log, clock)
      BY <2>0, <3>2, DropInv
    <3>. QED  BY <2>0, <2>6, <3>3 DEF Evict, IInv
  <2>7. CASE UNCHANGED <<data, log, replica, rlog, clock>>
    BY <2>0, <2>7 DEF IInv
  <2>8. CASE (\E req \in Request : StartRead(req)) \/ ReadNext \/ ReadFails \/ Respond
    BY <2>7, <2>8 DEF StartRead, ReadNext, ReadFails, Respond, storeVars
  <2>9. CASE UNCHANGED vars
    BY <2>7, <2>9 DEF vars
  <2>. QED
    BY <2>1, <2>2, <2>3, <2>4, <2>5, <2>6, <2>8, <2>9 DEF Next, Step
<1>. QED
  BY <1>1, <1>2, PTL DEF Spec

\* Each leaderboard is the top of the orders applied.
THEOREM BoardsTheorem == Spec => []BoardsAreTop
<1>1. IInv => BoardsAreTop
  BY DEF IInv, DataInv, BoardsAreTop
<1>. QED  BY <1>1, InductiveInv, PTL

\* New and returning orders, and their revenue, are all there is.
THEOREM SplitTheorem == Spec => []SplitAgrees
<1>1. IInv => SplitAgrees
  BY DEF IInv, DataInv, SplitAgrees
<1>. QED  BY <1>1, InductiveInv, PTL

\* No bucket the timeseries shows has expired.
THEOREM WindowTheorem == Spec => []WindowHoldsOrders
<1>1. IInv => WindowHoldsOrders
  <2>. SUFFICES ASSUME IInv, NEW h \in Hour
                PROVE  /\ HourOrZero(data, h).orders <= OrdersOf(h, log)
                       /\ InWindow(h, clock) /\ h \notin data.lost =>
                            HourOrZero(data, h).orders = OrdersOf(h, log)
    BY DEF WindowHoldsOrders, HoursHold
  <2>1. clock \in Nat /\ HourInv(data, log, clock)
    BY DEF IInv, DataInv
  <2>2. InWindow(h, clock) => clock < h + HourBucketTTL
    BY <2>1, HourNat, WindowAssumption, LimitAssumption DEF InWindow, Window
  <2>. QED  BY <2>1, <2>2, HourNat, LimitAssumption DEF HourInv
<1>. QED  BY <1>1, InductiveInv, PTL

-------------------------------------------------------------------------------
(* Reads.  The tables only grow while the master stays, so what a command   *)
(* asks about a label that an earlier answer named is there.                *)

\* Every number in a table is positive, a label ranked by one number has the
\* other, and every label that has a description in the store is described.
TableInv(d) ==
  /\ DOMAIN d = Field
  /\ \A dim \in Dim, s \in Side :
       /\ IsFiniteSet(DOMAIN d.table[dim][s])
       /\ \A l \in DOMAIN d.table[dim][s] : d.table[dim][s][l] \in Nat \ {0}
  /\ \A dim \in Dim \ CountOnly :
       DOMAIN d.table[dim]["count"] = DOMAIN d.table[dim]["revenue"]
  /\ \A dim \in MetaDim, s \in Side : DOMAIN d.table[dim][s] \subseteq d.described[dim]
  /\ \A p \in DOMAIN d.pairs : {p[1], p[2]} \subseteq d.described["product"]

\* The dataset has what the command asks for.
Holds(d, cmd) ==
  \/ /\ cmd.op = "score" /\ cmd.dim \in Dim /\ cmd.side \in Side
     /\ cmd.label \in DOMAIN d.table[cmd.dim][cmd.side]
  \/ /\ cmd.op = "meta" /\ cmd.dim \in MetaDim
     /\ cmd.labels \subseteq d.described[cmd.dim]

AllHold(d, cmds) == \E S : cmds \in Seq(S) /\ \A cmd \in S : Holds(d, cmd)

\* An answer that lacks nothing.
Full(cmd, reply) == IF cmd.op = "meta" THEN reply = cmd.labels ELSE reply # Missing

RankingRange(req) == IF req.kind = "top" THEN ZRevRange(req.dim, req.side, req.limit)
                                         ELSE TopPairsRange(req.limit)

IsSeq(s) == \E S : s \in Seq(S)

\* A ranking under way on one master with no command lost: it waits for its
\* first answer, or has all it got so far and asks for what is there.
RowsInv ==
  /\ DOMAIN read = {"req", "todo", "asked", "got", "start", "epoch", "dropped", "count"}
  /\ read.req # NoRequest =>
       /\ read.req \in Request
       /\ read.epoch \in Nat /\ read.epoch <= failovers
       /\ read.req.kind \in {"top", "pairs"} /\ SameMaster /\ ~read.dropped =>
            IF read.got = <<>>
            THEN read.asked = <<>> /\ read.todo = <<RankingRange(read.req)>>
            ELSE /\ AllHold(data, read.todo)
                 /\ IsSeq(read.got) /\ IsSeq(read.asked)
                 /\ Len(read.asked) = Len(read.got)
                 /\ \A i \in 2..Len(read.got) : Full(read.asked[i], read.got[i])

ReadInv == /\ failovers \in Nat
           /\ TableInv(data) /\ TableInv(replica)
           /\ RowsInv

LEMMA PlusDomain ==
  ASSUME NEW f, NEW g,
         \A l \in DOMAIN f : f[l] \in Nat \ {0}, \A l \in DOMAIN g : g[l] \in Nat \ {0}
  PROVE  /\ DOMAIN Plus(f, g) = DOMAIN f \cup DOMAIN g
         /\ \A l \in DOMAIN Plus(f, g) : Plus(f, g)[l] \in Nat \ {0}
<1>1. DOMAIN Plus(f, g) = DOMAIN f \cup DOMAIN g
  BY DEF Plus
<1>2. ASSUME NEW l \in DOMAIN f \cup DOMAIN g PROVE At(f, l) + At(g, l) \in Nat \ {0}
  BY DEF At
<1>. QED  BY <1>1, <1>2 DEF Plus

\* An order adds something to whatever it has a label for.
LEMMA AmountPositive ==
  ASSUME NEW dim \in Dim, NEW s \in Side, NEW o \in Order, NEW l \in LabelsOf(dim, o)
  PROVE  Amount(dim, s, o, l) \in Nat \ {0}
<1>1. CASE dim \in LineDim
  <2>. DEFINE w == [i \in Line(o) |-> LineAmount(s, o.items[i])]
              F == {i \in Line(o) : o.items[i][dim] = l}
  <2>1. PICK i \in Line(o) : o.items[i][dim] = l
    BY <1>1 DEF LabelsOf
  <2>2. IsFiniteSet(Line(o)) /\ \A j \in Line(o) : w[j] \in Nat \ {0}
    BY LineSums
  <2>3. /\ IsFiniteSet(F) /\ IsFiniteSet(F \ {i}) /\ i \in F
        /\ NatValued(w, F) /\ NatValued(w, F \ {i})
    BY <2>1, <2>2, FS_Subset DEF NatValued
  <2>4. w[i] \in Nat \ {0}
    BY <2>2
  <2>5. Amount(dim, s, o, l) = Sum(w, F)
    BY <1>1 DEF Amount, Sum
  <2>. HIDE DEF w, F
  <2>6. Sum(w, F) = w[i] + Sum(w, F \ {i}) /\ Sum(w, F \ {i}) \in Nat
    BY <2>3, SumTake, SumNat
  <2>. QED  BY <2>4, <2>5, <2>6
<1>2. CASE dim \notin LineDim
  <2>1. Total(o) \in Nat \ {0}
    BY OrderNumbers DEF Total, Shipping
  <2>. QED  BY <1>2, <2>1 DEF Amount
<1>. QED  BY <1>1, <1>2

\* What one order adds to a table: a positive amount for finitely many labels,
\* in both numbers of a dimension that has both.
LEMMA ContributionShape ==
  ASSUME NEW dim \in Dim, NEW s \in Side, NEW o \in Order
  PROVE  /\ DOMAIN Contribution(dim, s, o) \subseteq LabelsOf(dim, o)
         /\ dim \notin CountOnly => DOMAIN Contribution(dim, s, o) = LabelsOf(dim, o)
         /\ IsFiniteSet(DOMAIN Contribution(dim, s, o))
         /\ \A l \in DOMAIN Contribution(dim, s, o) :
              Contribution(dim, s, o)[l] \in Nat \ {0}
<1>1. /\ DOMAIN Contribution(dim, s, o) \subseteq LabelsOf(dim, o)
      /\ dim \notin CountOnly => DOMAIN Contribution(dim, s, o) = LabelsOf(dim, o)
      /\ \A l \in DOMAIN Contribution(dim, s, o) :
           Contribution(dim, s, o)[l] = Amount(dim, s, o, l)
  BY DEF Contribution
<1>2. IsFiniteSet(LabelsOf(dim, o))
  <2>. DEFINE named == {o.items[i][dim] : i \in Line(o)}
  <2>1. IsFiniteSet(Line(o))
    BY OrderAssumption
  <2>2. IsFiniteSet(named)
    <3>. DEFINE name == [i \in Line(o) |-> o.items[i][dim]]
    <3>1. name \in Surjection(Line(o), named)
      BY DEF Surjection
    <3>. QED  BY <2>1, <3>1, FS_Surjection
  <2>3. IsFiniteSet({Label(dim, o)})
    BY FS_Singleton
  <2>4. LabelsOf(dim, o) \subseteq named \/ LabelsOf(dim, o) \subseteq {Label(dim, o)}
    BY DEF LabelsOf
  <2>. QED  BY <2>2, <2>3, <2>4, FS_Subset
<1>. QED  BY <1>1, <1>2, FS_Subset, AmountPositive

\* The script adds to every table and takes away from none but the pairs.
LEMMA ApplyTables ==
  ASSUME NEW d, NEW now, NEW o \in Order, TableInv(d)
  PROVE  /\ TableInv(Apply(d, o, now))
         /\ \A cmd : Holds(d, cmd) => Holds(Apply(d, o, now), cmd)
<1>. DEFINE e == Apply(d, o, now)
<1>1. /\ \A dim \in Dim, s \in Side :
           e.table[dim][s] = Plus(d.table[dim][s], Contribution(dim, s, o))
      /\ \A dim \in MetaDim : e.described[dim] = d.described[dim] \cup LabelsOf(dim, o)
      /\ e.pairs = TrimPairs(Plus(d.pairs, PairIncrements(o)))
  BY DEF Apply
<1>. HIDE DEF e
<1>2. ASSUME NEW dim \in Dim, NEW s \in Side
      PROVE  /\ DOMAIN e.table[dim][s]
                  = DOMAIN d.table[dim][s] \cup DOMAIN Contribution(dim, s, o)
             /\ IsFiniteSet(DOMAIN e.table[dim][s])
             /\ \A l \in DOMAIN e.table[dim][s] : e.table[dim][s][l] \in Nat \ {0}
  <2>1. /\ IsFiniteSet(DOMAIN d.table[dim][s])
        /\ \A l \in DOMAIN d.table[dim][s] : d.table[dim][s][l] \in Nat \ {0}
    BY DEF TableInv
  <2>2. /\ IsFiniteSet(DOMAIN Contribution(dim, s, o))
        /\ \A l \in DOMAIN Contribution(dim, s, o) :
             Contribution(dim, s, o)[l] \in Nat \ {0}
    BY ContributionShape
  <2>3. e.table[dim][s] = Plus(d.table[dim][s], Contribution(dim, s, o))
    BY <1>1
  <2>4. IsFiniteSet(DOMAIN d.table[dim][s] \cup DOMAIN Contribution(dim, s, o))
    BY <2>1, <2>2, FS_Union
  <2>. QED  BY <2>1, <2>2, <2>3, <2>4, PlusDomain
<1>3. ASSUME NEW dim \in Dim \ CountOnly
      PROVE  DOMAIN e.table[dim]["count"] = DOMAIN e.table[dim]["revenue"]
  <2>1. {"count", "revenue"} \subseteq Side
    BY DEF Side
  <2>2. DOMAIN d.table[dim]["count"] = DOMAIN d.table[dim]["revenue"]
    BY DEF TableInv
  <2>3. /\ DOMAIN Contribution(dim, "count", o) = LabelsOf(dim, o)
        /\ DOMAIN Contribution(dim, "revenue", o) = LabelsOf(dim, o)
    BY <2>1, ContributionShape
  <2>4. /\ DOMAIN e.table[dim]["count"] = DOMAIN d.table[dim]["count"] \cup LabelsOf(dim, o)
        /\ DOMAIN e.table[dim]["revenue"]
             = DOMAIN d.table[dim]["revenue"] \cup LabelsOf(dim, o)
    BY <1>2, <2>1, <2>3
  <2>. QED  BY <2>2, <2>4
<1>4. ASSUME NEW dim \in MetaDim, NEW s \in Side
      PROVE  DOMAIN e.table[dim][s] \subseteq e.described[dim]
  <2>1. dim \in Dim
    BY DEF MetaDim, Dim, OrderDim, LineDim
  <2>2. DOMAIN d.table[dim][s] \subseteq d.described[dim]
    BY DEF TableInv
  <2>. QED  BY <1>1, <1>2, <2>1, <2>2, ContributionShape
<1>5. ASSUME NEW p \in DOMAIN e.pairs PROVE {p[1], p[2]} \subseteq e.described["product"]
  <2>1. p \in DOMAIN d.pairs \cup DOMAIN PairIncrements(o)
    BY <1>1 DEF TrimPairs, Restrict, Plus
  <2>2. /\ "product" \in MetaDim
        /\ e.described["product"] = d.described["product"] \cup LabelsOf("product", o)
    BY <1>1 DEF MetaDim
  <2>3. CASE p \in DOMAIN d.pairs
    BY <2>2, <2>3 DEF TableInv
  <2>4. CASE p \in DOMAIN PairIncrements(o)
    <3>1. PICK ij \in LinePair(o) : p = PairOf(o, ij)
      BY <2>4 DEF PairIncrements
    <3>2. ij[1] \in Line(o) /\ ij[2] \in Line(o)
      BY DEF LinePair
    <3>3. {p[1], p[2]} = {o.items[ij[1]].product, o.items[ij[2]].product}
      BY <3>1 DEF PairOf
    <3>4. {p[1], p[2]} \subseteq Sku(o)
      BY <3>2, <3>3 DEF Sku
    <3>5. Sku(o) = {o.items[i]["product"] : i \in Line(o)} /\ Blank \notin Sku(o)
      BY OrderAssumption DEF Sku, LineDim
    <3>6. LabelsOf("product", o) = Sku(o) \ {Blank}
      BY <3>5 DEF LabelsOf, LineDim
    <3>. QED  BY <2>2, <3>4, <3>5, <3>6
  <2>. QED  BY <2>1, <2>3, <2>4
<1>6. TableInv(e)
  BY <1>2, <1>3, <1>4, <1>5 DEF TableInv, Apply, Field, e
<1>7. \A cmd : Holds(d, cmd) => Holds(e, cmd)
  BY <1>1, <1>2 DEF Holds
<1>. QED  BY <1>6, <1>7 DEF e

\* What the dataset has is answered in full.
LEMMA HeldIsAnswered ==
  ASSUME NEW d, TableInv(d), NEW cmd, Holds(d, cmd), NEW reply \in Replies(d, cmd)
  PROVE  Full(cmd, reply)
<1>1. CASE cmd.op = "score"
  <2>1. /\ cmd.dim \in Dim /\ cmd.side \in Side
        /\ cmd.label \in DOMAIN d.table[cmd.dim][cmd.side]
    BY <1>1 DEF Holds
  <2>2. reply = At(d.table[cmd.dim][cmd.side], cmd.label)
    BY <1>1 DEF Replies
  <2>3. d.table[cmd.dim][cmd.side][cmd.label] \in Nat \ {0}
    BY <2>1 DEF TableInv
  <2>. QED  BY <1>1, <2>1, <2>2, <2>3 DEF At, Full, Missing
<1>2. CASE cmd.op = "meta"
  <2>1. cmd.labels \subseteq d.described[cmd.dim]
    BY <1>2 DEF Holds
  <2>2. reply = d.described[cmd.dim] \cap cmd.labels
    BY <1>2 DEF Replies
  <2>. QED  BY <1>2, <2>1, <2>2 DEF Full
<1>. QED  BY <1>1, <1>2 DEF Holds

\* What a ranking asks after its first answer, the dataset has.
LEMMA FollowHeld ==
  ASSUME NEW d, TableInv(d), NEW req \in Request, req.kind \in {"top", "pairs"},
         NEW reply \in Replies(d, RankingRange(req))
  PROVE  AllHold(d, Follow(req, reply))
<1>1. CASE req.kind = "top"
  <2>1. req.dim \in Dim /\ req.dim \notin CountOnly /\ req.side \in Side
    BY <1>1, RequestAssumption
  <2>. DEFINE f == d.table[req.dim][req.side]
              L == DOMAIN reply
              scores == [i \in 1..Cardinality(L) |->
                           ZScore(req.dim, OtherSide(req.side), SetToSeq(L)[i])]
              S == {c \in {ZScore(req.dim, OtherSide(req.side), l) : l \in L}
                            \cup {HMGet(req.dim, L)} : Holds(d, c)}
  <2>2. reply \in Tops(f, req.limit)
    BY <1>1 DEF Replies, RankingRange, ZRevRange
  <2>3. L \subseteq DOMAIN f
    BY <2>2 DEF Tops, Restrict
  <2>4. IsFiniteSet(L) /\ DOMAIN f = DOMAIN d.table[req.dim][OtherSide(req.side)]
        /\ OtherSide(req.side) \in Side
    BY <2>1, <2>3, FS_Subset DEF TableInv, Side, OtherSide
  <2>5. SetToSeq(L) \in [1..Cardinality(L) -> L]
    BY <2>4, FS_CardinalityType DEF SetToSeq, IsInjective, ExistsBijection, Bijection, Injection
  <2>6. \A l \in L : Holds(d, ZScore(req.dim, OtherSide(req.side), l))
    BY <2>1, <2>3, <2>4 DEF Holds, ZScore
  <2>7. scores \in Seq(S)
    BY <2>4, <2>5, <2>6, FS_CardinalityType
  <2>8. req.dim \in MetaDim => Holds(d, HMGet(req.dim, L))
    BY <2>1, <2>3 DEF Holds, HMGet, TableInv
  <2>9. Describe(req.dim, L) \in Seq(S)
    <3>1. req.dim \in MetaDim => HMGet(req.dim, L) \in S
      BY <2>8
    <3>. HIDE DEF S, L
    <3>2. CASE req.dim \in MetaDim /\ L # {}
      BY <3>1, <3>2 DEF Describe
    <3>3. CASE ~(req.dim \in MetaDim /\ L # {})
      BY <3>3 DEF Describe
    <3>. QED  BY <3>2, <3>3
  <2>10. Follow(req, reply) = scores \o Describe(req.dim, L)
    BY <1>1 DEF Follow
  <2>. HIDE DEF scores, S
  <2>11. Follow(req, reply) \in Seq(S)
    BY <2>7, <2>9, <2>10
  <2>. QED  BY <2>11 DEF AllHold, S
<1>2. CASE req.kind = "pairs"
  <2>. DEFINE L == UNION {{p[1], p[2]} : p \in DOMAIN reply}
              S == {c \in {HMGet("product", L)} : Holds(d, c)}
  <2>1. reply \in Tops(d.pairs, req.limit)
    BY <1>2 DEF Replies, RankingRange, TopPairsRange
  <2>2. DOMAIN reply \subseteq DOMAIN d.pairs
    BY <2>1 DEF Tops, Restrict
  <2>3. L \subseteq d.described["product"]
    BY <2>2 DEF TableInv
  <2>4. Holds(d, HMGet("product", L))
    BY <2>3 DEF Holds, HMGet, MetaDim
  <2>5. Follow(req, reply) = Describe("product", L)
    BY <1>2 DEF Follow
  <2>. HIDE DEF L
  <2>6. Describe("product", L) \in Seq(S)
    <3>1. HMGet("product", L) \in S
      BY <2>4
    <3>. HIDE DEF S
    <3>2. CASE L # {}
      BY <3>1, <3>2 DEF Describe, MetaDim
    <3>3. CASE L = {}
      BY <3>3 DEF Describe
    <3>. QED  BY <3>2, <3>3
  <2>. QED  BY <2>5, <2>6 DEF AllHold
<1>. QED  BY <1>1, <1>2

\* While the dataset keeps what it has, a read that nobody touches stays sound.
LEMMA RowsKept ==
  ASSUME RowsInv, failovers \in Nat, UNCHANGED <<read, failovers>>,
         \A cmd : Holds(data, cmd) => Holds(data', cmd)
  PROVE  RowsInv'
BY DEF RowsInv, AllHold, SameMaster

LEMMA RowsStart ==
  ASSUME failovers \in Nat, NEW req \in Request, StartRead(req)
  PROVE  RowsInv'
<1>1. /\ read'.req = req /\ read'.epoch = failovers /\ read'.got = <<>>
      /\ read'.asked = <<>> /\ read'.todo = First(req, clock) /\ failovers' = failovers
  BY DEF StartRead, Idle
<1>2. ASSUME req.kind \in {"top", "pairs"} PROVE First(req, clock) = <<RankingRange(req)>>
  BY <1>2 DEF First, RankingRange
<1>3. DOMAIN read' = {"req", "todo", "asked", "got", "start", "epoch", "dropped", "count"}
  BY DEF StartRead, Idle
<1>. QED  BY <1>1, <1>2, <1>3 DEF RowsInv

\* An answer: of the first one the ranking learns what to ask, of the others
\* each is full.
LEMMA RowsAnswer ==
  ASSUME failovers \in Nat, TableInv(data), RowsInv, ReadNext
  PROVE  RowsInv'
<1>0. read.req # NoRequest /\ read.todo # <<>> /\ UNCHANGED <<data, failovers>>
  BY DEF ReadNext, Reading, storeVars
<1>1. PICK reply \in Replies(data, Head(read.todo)) : Answer(reply)
  BY DEF ReadNext
<1>. DEFINE follow == IF read.got = <<>> THEN Follow(read.req, reply) ELSE <<>>
<1>2. /\ read'.req = read.req /\ read'.epoch = read.epoch /\ read'.dropped = read.dropped
      /\ read'.got = Append(read.got, reply)
      /\ read'.asked = Append(read.asked, Head(read.todo))
      /\ read'.todo = Tail(read.todo) \o follow
      /\ DOMAIN read' = DOMAIN read
  BY <1>1 DEF Answer, RowsInv
<1>3. /\ read.req \in Request /\ read.epoch \in Nat /\ read.epoch <= failovers
  BY <1>0 DEF RowsInv
<1>. SUFFICES ASSUME read.req.kind \in {"top", "pairs"}, SameMaster, ~read.dropped
              PROVE  /\ read'.got # <<>>
                     /\ AllHold(data, read'.todo)
                     /\ IsSeq(read'.got) /\ IsSeq(read'.asked)
                     /\ Len(read'.asked) = Len(read'.got)
                     /\ \A i \in 2..Len(read'.got) : Full(read'.asked[i], read'.got[i])
  BY <1>0, <1>2, <1>3 DEF RowsInv, SameMaster
<1>4. CASE read.got = <<>>
  <2>1. read.asked = <<>> /\ read.todo = <<RankingRange(read.req)>>
    BY <1>0, <1>4 DEF RowsInv
  <2>2. /\ Head(read.todo) = RankingRange(read.req)
        /\ read'.todo = <<>> \o Follow(read.req, reply)
        /\ read'.got = <<reply>> /\ read'.asked = <<RankingRange(read.req)>>
    BY <1>2, <1>4, <2>1
  <2>3. AllHold(data, Follow(read.req, reply))
    BY <1>3, <2>2, FollowHeld
  <2>4. read'.todo = Follow(read.req, reply)
    BY <2>2, <2>3 DEF AllHold
  <2>5. PICK range : range = RankingRange(read.req)
    OBVIOUS
  <2>6. read'.got = <<reply>> /\ read'.asked = <<range>>
    BY <2>2, <2>5
  <2>7. IsSeq(read'.got) /\ IsSeq(read'.asked)
    <3>1. <<reply>> \in Seq({reply}) /\ <<range>> \in Seq({range})
      OBVIOUS
    <3>. QED  BY <2>6, <3>1 DEF IsSeq
  <2>8. /\ read'.got # <<>> /\ Len(read'.asked) = 1 /\ Len(read'.got) = 1
    BY <2>6
  <2>. QED  BY <2>3, <2>4, <2>7, <2>8
<1>5. CASE read.got # <<>>
  <2>1. /\ AllHold(data, read.todo)
        /\ IsSeq(read.got) /\ IsSeq(read.asked) /\ Len(read.asked) = Len(read.got)
        /\ \A i \in 2..Len(read.got) : Full(read.asked[i], read.got[i])
    BY <1>0, <1>5 DEF RowsInv
  <2>2. PICK S : read.todo \in Seq(S) /\ \A cmd \in S : Holds(data, cmd)
    BY <2>1 DEF AllHold
  <2>3. Head(read.todo) \in S /\ Tail(read.todo) \in Seq(S)
    BY <1>0, <2>2
  <2>4. read'.todo = Tail(read.todo)
    BY <1>2, <1>5, <2>3
  <2>5. Full(Head(read.todo), reply)
    BY <2>2, <2>3, HeldIsAnswered
  <2>6. PICK G : read.got \in Seq(G)
    BY <2>1 DEF IsSeq
  <2>7. PICK A : read.asked \in Seq(A)
    BY <2>1 DEF IsSeq
  <2>8. /\ read'.got \in Seq(G \cup {reply}) /\ Len(read'.got) = Len(read.got) + 1
        /\ \A i \in 1..Len(read.got) : read'.got[i] = read.got[i]
        /\ read'.got[Len(read.got) + 1] = reply
    BY <1>2, <2>6
  <2>9. /\ read'.asked \in Seq(A \cup {Head(read.todo)})
        /\ Len(read'.asked) = Len(read.asked) + 1
        /\ \A i \in 1..Len(read.asked) : read'.asked[i] = read.asked[i]
        /\ read'.asked[Len(read.asked) + 1] = Head(read.todo)
    BY <1>2, <2>7
  <2>10. ASSUME NEW i \in 2..Len(read'.got) PROVE Full(read'.asked[i], read'.got[i])
    <3>1. CASE i \in 2..Len(read.got)
      BY <2>1, <2>6, <2>7, <2>8, <2>9, <3>1
    <3>2. CASE i = Len(read.got) + 1
      BY <2>1, <2>5, <2>8, <2>9, <3>2
    <3>. QED  BY <2>6, <2>8, <3>1, <3>2
  <2>11. read'.got # <<>>
    BY <2>6, <2>8
  <2>12. AllHold(data, read'.todo)
    BY <2>2, <2>3, <2>4 DEF AllHold
  <2>. QED  BY <2>1, <2>8, <2>9, <2>10, <2>11, <2>12 DEF IsSeq
<1>. QED  BY <1>4, <1>5

\* A command that fails ends a ranking or is put down as dropped.
LEMMA RowsFail ==
  ASSUME failovers \in Nat, RowsInv, ReadFails \/ Respond
  PROVE  RowsInv'
<1>1. ASSUME read' = Close(read) PROVE RowsInv'
  BY <1>1 DEF Close, Idle, RowsInv
<1>2. CASE ReadFails /\ ErrorDropped
  <2>1. /\ read.req # NoRequest /\ failovers' = failovers
        /\ read'.req = read.req /\ read'.epoch = read.epoch /\ read'.dropped = TRUE
        /\ DOMAIN read' = DOMAIN read
    BY <1>2 DEF ReadFails, Reading, RowsInv
  <2>. QED  BY <2>1 DEF RowsInv
<1>. QED  BY <1>1, <1>2 DEF ReadFails, Respond

\* A ranking under way asks only for what the dataset holds (the second round
\* trips of TopProducts and its kin).
THEOREM ReadsInductive == Spec => []ReadInv
<1>1. Init => ReadInv
  <2>. SUFFICES ASSUME Init PROVE ReadInv
    OBVIOUS
  <2>1. TableInv(EmptyData)
    <3>1. \A dim \in Dim, s \in Side : EmptyData.table[dim][s] = Nothing
      BY DEF EmptyData
    <3>2. DOMAIN Nothing = {} /\ EmptyData.pairs = Nothing
      BY DEF Nothing, EmptyData
    <3>3. {"count", "revenue"} \subseteq Side /\ MetaDim \subseteq Dim
      BY DEF Side, MetaDim, Dim, OrderDim, LineDim
    <3>. QED  BY <3>1, <3>2, <3>3, FS_EmptySet DEF TableInv, EmptyData, Field
  <2>. QED  BY <2>1 DEF Init, Idle, ReadInv, RowsInv
<1>2. ReadInv /\ [Next]_vars => ReadInv'
  <2>. SUFFICES ASSUME ReadInv, [Next]_vars PROVE ReadInv'
    OBVIOUS
  <2>0. failovers \in Nat /\ TableInv(data) /\ TableInv(replica) /\ RowsInv
    BY DEF ReadInv
  <2>1. ASSUME NEW o \in Order, ApplyOrder(o) PROVE ReadInv'
    <3>1. TableInv(data') /\ \A cmd : Holds(data, cmd) => Holds(data', cmd)
      BY <2>0, <2>1, ApplyTables DEF ApplyOrder
    <3>. QED  BY <2>0, <2>1, <3>1, RowsKept DEF ApplyOrder, ReadInv
  <2>2. CASE Replicate
    BY <2>0, <2>2, RowsKept DEF Replicate, ReadInv
  <2>3. CASE Failover
    <3>1. /\ failovers' = failovers + 1 /\ read' = read
          /\ data' = replica /\ replica' = replica
      BY <2>3 DEF Failover
    <3>2. RowsInv'
      BY <2>0, <3>1 DEF RowsInv, SameMaster
    <3>. QED  BY <2>0, <3>1, <3>2 DEF ReadInv
  <2>4. CASE Tick
    BY <2>0, <2>4, RowsKept DEF Tick, storeVars, ReadInv
  <2>5. ASSUME NEW h \in Hour, Expire(h) \/ Evict(h) PROVE ReadInv'
    <3>1. /\ data'.table = data.table /\ data'.described = data.described
          /\ data'.pairs = data.pairs /\ DOMAIN data' = Field
          /\ UNCHANGED <<replica, failovers, read>>
      <4>1. DOMAIN data = Field
        BY <2>0 DEF TableInv
      <4>2. CASE Expire(h)
        BY <4>1, <4>2 DEF Expire, DropHour, Field
      <4>3. CASE Evict(h)
        BY <4>1, <4>3 DEF Evict, LoseHour, DropHour, Field
      <4>. QED  BY <2>5, <4>2, <4>3
    <3>2. TableInv(data')
      BY <2>0, <3>1 DEF TableInv
    <3>3. \A cmd : Holds(data, cmd) => Holds(data', cmd)
      BY <3>1 DEF Holds
    <3>. QED  BY <2>0, <3>1, <3>2, <3>3, RowsKept DEF ReadInv
  <2>6. CASE UNCHANGED <<data, replica, failovers>> /\ RowsInv'
    BY <2>0, <2>6 DEF ReadInv
  <2>7. ASSUME NEW req \in Request, StartRead(req) PROVE ReadInv'
    BY <2>0, <2>6, <2>7, RowsStart DEF StartRead, storeVars
  <2>8. CASE ReadNext
    BY <2>0, <2>6, <2>8, RowsAnswer DEF ReadNext, storeVars
  <2>9. CASE ReadFails \/ Respond
    BY <2>0, <2>6, <2>9, RowsFail DEF ReadFails, Respond, storeVars
  <2>10. CASE UNCHANGED vars
    BY <2>0, <2>6, <2>10, RowsKept DEF vars
  <2>. QED
    BY <2>1, <2>2, <2>3, <2>4, <2>5, <2>7, <2>8, <2>9, <2>10 DEF Next, Step
<1>. QED
  BY <1>1, <1>2, PTL DEF Spec

\* A ranked row has both its numbers and its description, unless a command was
\* lost or the master changed in between (store.go:397-473, TopProducts, and the
\* other rankings).
THEOREM RowsTheorem == Spec => []RowsComplete
<1>1. ReadInv => RowsComplete
  <2>. SUFFICES ASSUME ReadInv, Served, read.req.kind \in {"top", "pairs"}, SameMaster,
                       ~read.dropped, NEW i \in 2..Len(read.got)
                PROVE  Full(read.asked[i], read.got[i])
    BY DEF RowsComplete, Full
  <2>1. read.got # <<>>
    OBVIOUS
  <2>. QED  BY <2>1 DEF ReadInv, RowsInv, Served
<1>. QED  BY <1>1, ReadsInductive, PTL

-------------------------------------------------------------------------------
(* Totals.                                                                 *)

\* The sum of h over the orders of a history.
LogSum(l, h) == Sum([i \in DOMAIN l |-> h[l[i]]], DOMAIN l)

LEMMA LogSumAppend ==
  ASSUME NEW l \in Seq(Order), NEW o \in Order, NEW h, \A x \in Order : h[x] \in Nat
  PROVE  /\ LogSum(l, h) \in Nat
         /\ LogSum(Append(l, o), h) = LogSum(l, h) + h[o]
<1>. DEFINE m == Append(l, o)
            n == Len(l) + 1
            g == [i \in DOMAIN l |-> h[l[i]]]
            k == [i \in DOMAIN m |-> h[m[i]]]
<1>1. /\ DOMAIN l = 1..Len(l) /\ Len(l) \in Nat /\ DOMAIN m = DOMAIN l \cup {n}
      /\ n \notin DOMAIN l /\ m[n] = o /\ \A i \in DOMAIN l : m[i] = l[i] /\ l[i] \in Order
  OBVIOUS
<1>2. IsFiniteSet(DOMAIN l)
  BY <1>1, FS_Interval
<1>3. /\ NatValued(g, DOMAIN l) /\ NatValued(k, DOMAIN l \cup {n}) /\ NatValued(k, DOMAIN l)
      /\ \A i \in DOMAIN l : g[i] = k[i]
      /\ k[n] = h[o]
  BY <1>1 DEF NatValued
<1>. HIDE DEF g, k, m, n
<1>4. Sum(k, DOMAIN m) = k[n] + Sum(k, DOMAIN l)
  BY <1>1, <1>2, <1>3, SumInsert
<1>5. Sum(g, DOMAIN l) = Sum(k, DOMAIN l) /\ Sum(g, DOMAIN l) \in Nat
  BY <1>2, <1>3, SumSame, SumNat
<1>6. h[o] \in Nat
  OBVIOUS
<1>7. LogSum(l, h) = Sum(g, DOMAIN l) /\ LogSum(m, h) = Sum(k, DOMAIN m)
  BY DEF LogSum, g, k
<1>8. Sum(k, DOMAIN m) = Sum(g, DOMAIN l) + h[o]
  BY <1>3, <1>4, <1>5, <1>6
<1>. QED  BY <1>5, <1>7, <1>8 DEF m

LEMMA LogSumEmpty == \A h : LogSum(<<>>, h) = 0
BY SumEmpty DEF LogSum

TotalFn == [o \in Order |-> Total(o)]
UnitsFn == [o \in Order |-> Units(o)]

LEMMA SumLogIsLogSum ==
  ASSUME NEW l \in Seq(Order)
  PROVE  SumLog(l, Total) = LogSum(l, TotalFn) /\ SumLog(l, Units) = LogSum(l, UnitsFn)
<1>1. \A i \in DOMAIN l : l[i] \in Order
  OBVIOUS
<1>2. /\ [i \in DOMAIN l |-> Total(l[i])] = [i \in DOMAIN l |-> TotalFn[l[i]]]
      /\ [i \in DOMAIN l |-> Units(l[i])] = [i \in DOMAIN l |-> UnitsFn[l[i]]]
  BY <1>1 DEF TotalFn, UnitsFn
<1>3. /\ SumLog(l, Total) = Sum([i \in DOMAIN l |-> Total(l[i])], DOMAIN l)
      /\ SumLog(l, Units) = Sum([i \in DOMAIN l |-> Units(l[i])], DOMAIN l)
  BY DEF SumLog, SumFunction, Sum
<1>. QED  BY <1>2, <1>3 DEF LogSum

Positive(f) == IsFiniteSet(DOMAIN f) /\ \A x \in DOMAIN f : f[x] \in Nat \ {0}

\* Adding one table to another adds their sums.
LEMMA SumPlus ==
  ASSUME NEW f, NEW g, Positive(f), Positive(g)
  PROVE  /\ SumFunction(Plus(f, g)) = SumFunction(f) + SumFunction(g)
         /\ SumFunction(f) \in Nat /\ SumFunction(g) \in Nat
<1>. DEFINE D == DOMAIN f \cup DOMAIN g
            a == [x \in D |-> At(f, x)]
            b == [x \in D |-> At(g, x)]
            c == Plus(f, g)
<1>1. IsFiniteSet(D) /\ IsFiniteSet(DOMAIN f) /\ IsFiniteSet(DOMAIN g)
  BY FS_Union DEF Positive
<1>2. /\ NatValued(a, D) /\ NatValued(b, D) /\ DOMAIN c = D
      /\ \A x \in D : c[x] = a[x] + b[x]
      /\ \A x \in DOMAIN f : a[x] = f[x]
      /\ \A x \in DOMAIN g : b[x] = g[x]
      /\ \A x \in D \ DOMAIN f : a[x] = 0
      /\ \A x \in D \ DOMAIN g : b[x] = 0
  BY DEF Positive, NatValued, At, Plus
<1>3. NatValued(f, DOMAIN f) /\ NatValued(g, DOMAIN g) /\ DOMAIN f \subseteq D /\ DOMAIN g \subseteq D
  BY DEF Positive, NatValued
<1>. HIDE DEF a, b, c, D
<1>4. Sum(c, D) = Sum(a, D) + Sum(b, D)
  BY <1>1, <1>2, SumPointwise
<1>5. Sum(a, DOMAIN f) = Sum(a, D) /\ Sum(b, DOMAIN g) = Sum(b, D)
  BY <1>1, <1>2, <1>3, SumPart
<1>6. Sum(f, DOMAIN f) = Sum(a, DOMAIN f) /\ Sum(g, DOMAIN g) = Sum(b, DOMAIN g)
  BY <1>1, <1>2, <1>3, SumSame
<1>7. Sum(f, DOMAIN f) \in Nat /\ Sum(g, DOMAIN g) \in Nat
  BY <1>1, <1>3, SumNat
<1>8. /\ SumFunction(f) = Sum(f, DOMAIN f) /\ SumFunction(g) = Sum(g, DOMAIN g)
      /\ SumFunction(c) = Sum(c, D)
  BY <1>2 DEF SumFunction, Sum
<1>. QED  BY <1>4, <1>5, <1>6, <1>7, <1>8 DEF c

\* Whatever has no place in a table counts as zero.
LEMMA SumAt ==
  ASSUME NEW f, NEW L, Positive(f), IsFiniteSet(L), DOMAIN f \subseteq L
  PROVE  /\ NatValued([l \in L |-> At(f, l)], L)
         /\ Sum([l \in L |-> At(f, l)], L) = SumFunction(f)
<1>. DEFINE a == [l \in L |-> At(f, l)]
<1>1. /\ NatValued(a, L) /\ NatValued(f, DOMAIN f)
      /\ \A l \in DOMAIN f : f[l] = a[l]
      /\ \A l \in L \ DOMAIN f : a[l] = 0
  BY DEF At, NatValued, Positive
<1>. HIDE DEF a
<1>2. Sum(f, DOMAIN f) = Sum(a, DOMAIN f)
  BY <1>1, SumSame DEF Positive
<1>3. Sum(a, DOMAIN f) = Sum(a, L)
  BY <1>1, SumPart
<1>4. SumFunction(f) = Sum(f, DOMAIN f)
  BY DEF SumFunction, Sum
<1>. QED  BY <1>1, <1>2, <1>3, <1>4 DEF a

\* All an order adds to a table: itself, or its lines.
LEMMA ContributionSum ==
  ASSUME NEW dim \in Dim, NEW s \in Side, NEW o \in Order, s = "count" \/ dim \notin CountOnly
  PROVE  SumFunction(Contribution(dim, s, o)) =
           IF dim \in LineDim THEN (IF s = "count" THEN Units(o) ELSE Subtotal(o))
           ELSE (IF s = "count" THEN 1 ELSE Total(o))
<1>. DEFINE c == Contribution(dim, s, o)
<1>1. SumFunction(c) = Sum(c, DOMAIN c)
  BY DEF SumFunction, Sum
<1>2. c = [l \in LabelsOf(dim, o) |-> Amount(dim, s, o, l)]
  BY DEF Contribution
<1>3. CASE dim \in LineDim
  <2>. DEFINE w == [i \in Line(o) |-> LineAmount(s, o.items[i])]
              lab == [i \in Line(o) |-> o.items[i][dim]]
              L == LabelsOf(dim, o)
  <2>1. L = {o.items[i][dim] : i \in Line(o)}
    BY <1>3, OrderAssumption DEF LabelsOf
  <2>2. \A i \in Line(o) : lab[i] \in L
    BY <2>1
  <2>3. IsFiniteSet(Line(o)) /\ NatValued(w, Line(o)) /\
        Sum(w, Line(o)) = IF s = "count" THEN Units(o) ELSE Subtotal(o)
    BY LineSums DEF NatValued
  <2>4. IsFiniteSet(L)
    <3>1. DOMAIN c = L
      BY <1>2
    <3>. HIDE DEF L
    <3>2. IsFiniteSet(DOMAIN c)
      BY ContributionShape
    <3>. QED  BY <3>1, <3>2
  <2>5. \A l \in L : {i \in Line(o) : lab[i] = l} = {i \in Line(o) : o.items[i][dim] = l}
    OBVIOUS
  <2>6. c = [l \in L |-> Sum(w, {i \in Line(o) : lab[i] = l})] /\ DOMAIN c = L
    BY <1>2, <1>3, <2>5 DEF Amount, Sum
  <2>. HIDE DEF w, lab, L, c
  <2>7. Sum([l \in L |-> Sum(w, {i \in Line(o) : lab[i] = l})], L) = Sum(w, Line(o))
    BY <2>2, <2>3, <2>4, SumFibers
  <2>8. Sum(c, DOMAIN c) = Sum(w, Line(o))
    BY <2>6, <2>7
  <2>. QED  BY <1>1, <1>3, <2>3, <2>8 DEF c
<1>4. CASE dim \notin LineDim
  <2>1. dim \in OrderDim
    BY <1>4 DEF Dim
  <2>2. LabelsOf(dim, o) = {Label(dim, o)}
    BY <1>4, <2>1, OrderAssumption DEF LabelsOf
  <2>. DEFINE x == Label(dim, o)
  <2>3. DOMAIN c = {x} /\ c[x] = IF s = "count" THEN 1 ELSE Total(o)
    BY <1>2, <1>4, <2>2 DEF Amount
  <2>. HIDE DEF c, x
  <2>4. c[x] \in Nat
    BY <2>3, OrderNumbers
  <2>5. Sum(c, DOMAIN c) = c[x]
    BY <2>3, <2>4, SumSingleton
  <2>. QED  BY <1>1, <1>4, <2>3, <2>5 DEF c
<1>. QED  BY <1>3, <1>4

TotalsInv(d, l) == TotalsOf(d, l) /\ d.counter["lineItems"] = SumLog(l, Units)

LEMMA ApplyTotals ==
  ASSUME NEW d, NEW l, NEW now, NEW o \in Order, ShapeInv(d, l), TableInv(d), TotalsInv(d, l)
  PROVE  TotalsInv(Apply(d, o, now), Append(l, o))
<1>. DEFINE e == Apply(d, o, now)
            m == Append(l, o)
<1>1. /\ l \in Seq(Order) /\ m \in Seq(Order) /\ Len(l) \in Nat /\ Len(m) = Len(l) + 1
  BY AppliedAppend DEF ShapeInv
<1>2. /\ Total(o) \in Nat /\ Tax(o) \in Nat /\ Units(o) \in Nat /\ Subtotal(o) \in Nat
      /\ Total(o) = Subtotal(o) + Tax(o) + Shipping /\ Shipping \in Nat
  BY OrderNumbers DEF Total, Shipping
<1>3. /\ \A c \in Counter : d.counter[c] \in Nat /\ e.counter[c] = d.counter[c] + Increment(d, o)[c]
      /\ \A dim \in Dim, s \in Side :
           e.table[dim][s] = Plus(d.table[dim][s], Contribution(dim, s, o))
  BY DEF Apply, ShapeInv
<1>4. /\ "orders" \in Counter /\ "revenue" \in Counter /\ "tax" \in Counter
      /\ "shipping" \in Counter /\ "lineItems" \in Counter
      /\ "count" \in Side /\ "revenue" \in Side
      /\ OrderDim \subseteq Dim /\ LineDim \subseteq Dim /\ OrderDim \cap LineDim = {}
      /\ LineDim \cap CountOnly = {} /\ "product" \in LineDim
  BY DEF Counter, Side, OrderDim, LineDim, Dim, CountOnly
<1>5. /\ e.counter["orders"] = d.counter["orders"] + 1
      /\ e.counter["revenue"] = d.counter["revenue"] + Total(o)
      /\ e.counter["tax"] = d.counter["tax"] + Tax(o)
      /\ e.counter["shipping"] = d.counter["shipping"] + Shipping
      /\ e.counter["lineItems"] = d.counter["lineItems"] + Units(o)
  BY <1>3, <1>4 DEF Increment
<1>6. /\ d.counter["orders"] \in Nat /\ d.counter["revenue"] \in Nat /\ d.counter["tax"] \in Nat
      /\ d.counter["shipping"] \in Nat /\ d.counter["lineItems"] \in Nat
  BY <1>3, <1>4
<1>7. ASSUME NEW dim \in Dim, NEW s \in Side, s = "count" \/ dim \notin CountOnly
      PROVE  /\ TableSum(d, dim, s) \in Nat
             /\ TableSum(e, dim, s) = TableSum(d, dim, s) +
                  (IF dim \in LineDim THEN (IF s = "count" THEN Units(o) ELSE Subtotal(o))
                   ELSE (IF s = "count" THEN 1 ELSE Total(o)))
  <2>1. Positive(d.table[dim][s])
    BY DEF TableInv, Positive
  <2>2. Positive(Contribution(dim, s, o))
    BY ContributionShape DEF Positive
  <2>3. e.table[dim][s] = Plus(d.table[dim][s], Contribution(dim, s, o))
    BY <1>3
  <2>4. /\ SumFunction(e.table[dim][s]) =
             SumFunction(d.table[dim][s]) + SumFunction(Contribution(dim, s, o))
        /\ SumFunction(d.table[dim][s]) \in Nat
    BY <2>1, <2>2, <2>3, SumPlus
  <2>. QED  BY <1>7, <2>4, ContributionSum DEF TableSum
<1>8. /\ SumLog(l, Total) \in Nat /\ SumLog(m, Total) = SumLog(l, Total) + Total(o)
      /\ SumLog(l, Units) \in Nat /\ SumLog(m, Units) = SumLog(l, Units) + Units(o)
  <2>1. /\ \A x \in Order : TotalFn[x] \in Nat /\ UnitsFn[x] \in Nat
        /\ TotalFn[o] = Total(o) /\ UnitsFn[o] = Units(o)
    BY OrderNumbers DEF TotalFn, UnitsFn
  <2>2. /\ LogSum(l, TotalFn) \in Nat /\ LogSum(m, TotalFn) = LogSum(l, TotalFn) + TotalFn[o]
        /\ LogSum(l, UnitsFn) \in Nat /\ LogSum(m, UnitsFn) = LogSum(l, UnitsFn) + UnitsFn[o]
    BY <1>1, <2>1, LogSumAppend
  <2>. QED  BY <1>1, <2>1, <2>2, SumLogIsLogSum
<1>9. /\ d.counter["orders"] = Len(l) /\ d.counter["revenue"] = SumLog(l, Total)
      /\ d.counter["lineItems"] = TableSum(d, "product", "count")
      /\ d.counter["lineItems"] = SumLog(l, Units)
      /\ \A dim \in OrderDim : TableSum(d, dim, "count") = d.counter["orders"]
      /\ \A dim \in OrderDim \ CountOnly : TableSum(d, dim, "revenue") = d.counter["revenue"]
      /\ \A dim \in LineDim :
           /\ TableSum(d, dim, "count") = d.counter["lineItems"]
           /\ TableSum(d, dim, "revenue") + d.counter["tax"] + d.counter["shipping"]
                = d.counter["revenue"]
  BY DEF TotalsInv, TotalsOf
<1>. HIDE DEF e, m
<1>10. /\ e.counter["orders"] = Len(m) /\ e.counter["revenue"] = SumLog(m, Total)
       /\ e.counter["lineItems"] = SumLog(m, Units)
  BY <1>1, <1>5, <1>8, <1>9
<1>11. ASSUME NEW dim \in OrderDim PROVE TableSum(e, dim, "count") = e.counter["orders"]
  BY <1>4, <1>5, <1>7, <1>9
<1>12. ASSUME NEW dim \in OrderDim \ CountOnly
       PROVE  TableSum(e, dim, "revenue") = e.counter["revenue"]
  <2>0. dim \in Dim /\ dim \notin LineDim
    BY <1>4, <1>12
  <2>1. TableSum(e, dim, "revenue") = TableSum(d, dim, "revenue") + Total(o)
    BY <1>4, <1>7, <1>12, <2>0
  <2>2. TableSum(d, dim, "revenue") = d.counter["revenue"]
    BY <1>9
  <2>. QED  BY <1>5, <2>1, <2>2
<1>13. ASSUME NEW dim \in LineDim
       PROVE  /\ TableSum(e, dim, "count") = e.counter["lineItems"]
              /\ TableSum(e, dim, "revenue") + e.counter["tax"] + e.counter["shipping"]
                   = e.counter["revenue"]
  <2>1. /\ TableSum(e, dim, "count") = TableSum(d, dim, "count") + Units(o)
        /\ TableSum(e, dim, "revenue") = TableSum(d, dim, "revenue") + Subtotal(o)
        /\ TableSum(d, dim, "count") \in Nat /\ TableSum(d, dim, "revenue") \in Nat
    BY <1>4, <1>7
  <2>2. /\ TableSum(d, dim, "count") = d.counter["lineItems"]
        /\ TableSum(d, dim, "revenue") + d.counter["tax"] + d.counter["shipping"]
             = d.counter["revenue"]
    BY <1>9
  <2>3. TableSum(e, dim, "count") = e.counter["lineItems"]
    BY <2>1, <2>2, <1>5
  <2>4. PICK a, b \in Nat : a = TableSum(d, dim, "revenue") /\ b = Subtotal(o)
    BY <2>1, <1>2
  <2>5. TableSum(e, dim, "revenue") + e.counter["tax"] + e.counter["shipping"]
          = e.counter["revenue"]
    BY <2>1, <2>2, <2>4, <1>2, <1>5, <1>6
  <2>. QED  BY <2>3, <2>5
<1>14. e.counter["lineItems"] = TableSum(e, "product", "count")
  BY <1>4, <1>13
<1>. QED  BY <1>10, <1>11, <1>12, <1>13, <1>14 DEF TotalsInv, TotalsOf, e, m

-------------------------------------------------------------------------------
(* Pairs.                                                                  *)

PairsInv(d, l) ==
  /\ PairsExact(d, l)
  /\ \A p \in DOMAIN d.pairs : d.pairs[p] \in Nat
  /\ DOMAIN d.pairs \subseteq SeenPairs(l)
  /\ IsFiniteSet(SeenPairs(l))

LEMMA PairsFinite ==
  ASSUME NEW o \in Order
  PROVE  /\ IsFiniteSet(PairsIn(o)) /\ PairsIn(o) \subseteq Nat \X Nat
         /\ \A p : PairTimes(o, p) \in Nat
         /\ \A p : p \notin PairsIn(o) => PairTimes(o, p) = 0
<1>1. IsFiniteSet(Line(o) \X Line(o))
  BY OrderAssumption, FS_Product
<1>2. IsFiniteSet(LinePair(o))
  BY <1>1, FS_Subset DEF LinePair
<1>3. IsFiniteSet(PairsIn(o))
  <2>. DEFINE f == [ij \in LinePair(o) |-> PairOf(o, ij)]
  <2>1. f \in Surjection(LinePair(o), PairsIn(o))
    BY DEF Surjection, PairsIn
  <2>. QED  BY <1>2, <2>1, FS_Surjection
<1>4. ASSUME NEW ij \in LinePair(o) PROVE PairOf(o, ij) \in Nat \X Nat
  <2>1. ij[1] \in Line(o) /\ ij[2] \in Line(o)
    BY DEF LinePair
  <2>2. o.items[ij[1]].product \in Nat /\ o.items[ij[2]].product \in Nat
    BY <2>1, OrderAssumption
  <2>. QED  BY <2>2 DEF PairOf
<1>5. ASSUME NEW p
      PROVE  PairTimes(o, p) \in Nat /\ (p \notin PairsIn(o) => PairTimes(o, p) = 0)
  <2>. DEFINE S == {ij \in LinePair(o) : PairOf(o, ij) = p}
  <2>1. IsFiniteSet(S)
    BY <1>2, FS_Subset
  <2>2. p \notin PairsIn(o) => S = {}
    BY DEF PairsIn
  <2>. HIDE DEF S
  <2>3. Cardinality(S) \in Nat /\ (S = {} => Cardinality(S) = 0)
    BY <2>1, FS_CardinalityType, FS_EmptySet
  <2>. QED  BY <2>2, <2>3 DEF PairTimes, S
<1>. QED  BY <1>3, <1>4, <1>5 DEF PairsIn

\* What one more order does to the pairs seen and counted.
LEMMA PairsAppend ==
  ASSUME NEW l \in Seq(Order), NEW o \in Order
  PROVE  /\ SeenPairs(Append(l, o)) = SeenPairs(l) \cup PairsIn(o)
         /\ \A p : /\ PairCount(p, l) \in Nat
                   /\ PairCount(p, Append(l, o)) = PairCount(p, l) + PairTimes(o, p)
                   /\ p \notin SeenPairs(l) => PairCount(p, l) = 0
<1>. DEFINE m == Append(l, o)
<1>1. /\ m \in Seq(Order) /\ DOMAIN m = DOMAIN l \cup {Len(l) + 1} /\ m[Len(l) + 1] = o
      /\ DOMAIN l = 1..Len(l) /\ Len(l) \in Nat
      /\ \A i \in DOMAIN l : m[i] = l[i] /\ l[i] \in Order
  OBVIOUS
<1>2. SeenPairs(m) = SeenPairs(l) \cup PairsIn(o)
  <2>. HIDE DEF m
  <2>. QED  BY <1>1 DEF SeenPairs
<1>3. ASSUME NEW p
      PROVE  /\ PairCount(p, l) \in Nat
             /\ PairCount(p, m) = PairCount(p, l) + PairTimes(o, p)
             /\ p \notin SeenPairs(l) => PairCount(p, l) = 0
  <2>. DEFINE h == [x \in Order |-> PairTimes(x, p)]
  <2>1. \A x \in Order : h[x] \in Nat /\ h[x] = PairTimes(x, p)
    BY PairsFinite
  <2>2. ASSUME NEW k \in Seq(Order) PROVE PairCount(p, k) = LogSum(k, h)
    <3>1. \A i \in DOMAIN k : k[i] \in Order
      OBVIOUS
    <3>2. [i \in DOMAIN k |-> PairTimes(k[i], p)] = [i \in DOMAIN k |-> h[k[i]]]
      BY <3>1
    <3>3. PairCount(p, k) = Sum([i \in DOMAIN k |-> PairTimes(k[i], p)], DOMAIN k)
      BY DEF PairCount, SumLog, SumFunction, Sum
    <3>. QED  BY <3>2, <3>3 DEF LogSum
  <2>. HIDE DEF h
  <2>3. /\ LogSum(l, h) \in Nat /\ LogSum(m, h) = LogSum(l, h) + h[o]
    BY <2>1, LogSumAppend
  <2>4. ASSUME p \notin SeenPairs(l) PROVE LogSum(l, h) = 0
    <3>. DEFINE g == [i \in DOMAIN l |-> h[l[i]]]
    <3>1. \A i \in DOMAIN l : p \notin PairsIn(l[i])
      BY <2>4 DEF SeenPairs
    <3>2. \A i \in DOMAIN l : g[i] = 0
      BY <1>1, <2>1, <3>1, PairsFinite
    <3>3. IsFiniteSet(DOMAIN l)
      BY <1>1, FS_Interval
    <3>. HIDE DEF g
    <3>4. Sum(g, DOMAIN l) = 0
      BY <3>2, <3>3, SumZero
    <3>. QED  BY <3>4 DEF LogSum, g
  <2>. QED  BY <1>1, <2>1, <2>2, <2>3, <2>4
<1>. QED  BY <1>2, <1>3

\* Trimming pairs that fit takes none away.
LEMMA TrimPairsFits ==
  ASSUME NEW f, IsFiniteSet(DOMAIN f), Cardinality(DOMAIN f) <= TopPairsLimit,
         \A p \in DOMAIN f : f[p] \in Nat /\ p \in Nat \X Nat
  PROVE  DOMAIN TrimPairs(f) = DOMAIN f
<1>1. ASSUME NEW p \in DOMAIN f
      PROVE  Cardinality({q \in DOMAIN f : PairAbove(f, q, p)}) < TopPairsLimit
  <2>1. ~PairAbove(f, p, p)
    <3>1. f[p] \in Nat /\ p[1] \in Nat /\ p[2] \in Nat
      OBVIOUS
    <3>. QED  BY <3>1 DEF PairAbove
  <2>2. {q \in DOMAIN f : PairAbove(f, q, p)} \subseteq DOMAIN f \ {p}
    BY <2>1
  <2>3. IsFiniteSet(DOMAIN f \ {p}) /\ Cardinality(DOMAIN f \ {p}) = Cardinality(DOMAIN f) - 1
    BY FS_RemoveElement
  <2>4. /\ IsFiniteSet({q \in DOMAIN f : PairAbove(f, q, p)})
        /\ Cardinality({q \in DOMAIN f : PairAbove(f, q, p)}) <= Cardinality(DOMAIN f \ {p})
    BY <2>2, <2>3, FS_Subset
  <2>5. /\ Cardinality({q \in DOMAIN f : PairAbove(f, q, p)}) \in Nat
        /\ Cardinality(DOMAIN f) \in Nat
    BY <2>4, FS_CardinalityType
  <2>. QED  BY <2>3, <2>4, <2>5, LimitAssumption
<1>. QED  BY <1>1 DEF TrimPairs, Restrict

LEMMA ApplyPairs ==
  ASSUME NEW d, NEW l \in Seq(Order), NEW now, NEW o \in Order, PairsInv(d, l)
  PROVE  PairsInv(Apply(d, o, now), Append(l, o))
<1>. DEFINE e == Apply(d, o, now)
            m == Append(l, o)
            g == PairIncrements(o)
            f == Plus(d.pairs, g)
<1>1. e.pairs = TrimPairs(f)
  BY DEF Apply
<1>2. DOMAIN g = PairsIn(o) /\ \A p \in PairsIn(o) : g[p] = PairTimes(o, p)
  BY DEF PairIncrements, PairsIn
<1>3. /\ DOMAIN f = DOMAIN d.pairs \cup PairsIn(o)
      /\ \A p \in DOMAIN f : f[p] = At(d.pairs, p) + At(g, p)
  BY <1>2 DEF Plus
<1>4. /\ DOMAIN e.pairs \subseteq DOMAIN f
      /\ \A p \in DOMAIN e.pairs : e.pairs[p] = f[p]
  BY <1>1 DEF TrimPairs, Restrict
<1>5. /\ \A p \in DOMAIN d.pairs : d.pairs[p] \in Nat /\ d.pairs[p] <= PairCount(p, l)
      /\ DOMAIN d.pairs \subseteq SeenPairs(l) /\ IsFiniteSet(SeenPairs(l))
      /\ Cardinality(SeenPairs(l)) <= TopPairsLimit =>
           \A p \in SeenPairs(l) : p \in DOMAIN d.pairs /\ d.pairs[p] = PairCount(p, l)
  BY DEF PairsInv, PairsExact
<1>6. /\ SeenPairs(m) = SeenPairs(l) \cup PairsIn(o)
      /\ \A p : /\ PairCount(p, l) \in Nat
                /\ PairCount(p, m) = PairCount(p, l) + PairTimes(o, p)
                /\ p \notin SeenPairs(l) => PairCount(p, l) = 0
  BY PairsAppend
<1>7. /\ IsFiniteSet(PairsIn(o)) /\ PairsIn(o) \subseteq Nat \X Nat
      /\ \A p : PairTimes(o, p) \in Nat
      /\ \A p : p \notin PairsIn(o) => PairTimes(o, p) = 0
  BY PairsFinite
<1>. HIDE DEF e, m, g, f
<1>8. IsFiniteSet(SeenPairs(m)) /\ DOMAIN f \subseteq SeenPairs(m) /\ DOMAIN f \subseteq Nat \X Nat
  <2>1. IsFiniteSet(SeenPairs(l) \cup PairsIn(o))
    BY <1>5, <1>7, FS_Union
  <2>2. SeenPairs(l) \subseteq Nat \X Nat
    BY PairsFinite DEF SeenPairs
  <2>3. DOMAIN f = DOMAIN d.pairs \cup PairsIn(o)
    BY <1>3
  <2>. QED  BY <1>5, <1>6, <1>7, <2>1, <2>2, <2>3
<1>9. ASSUME NEW p \in DOMAIN f PROVE f[p] \in Nat /\ f[p] <= PairCount(p, m)
  <2>1. At(d.pairs, p) \in Nat /\ At(d.pairs, p) <= PairCount(p, l) /\ PairCount(p, l) \in Nat
    BY <1>5, <1>6 DEF At
  <2>2. At(g, p) \in Nat /\ At(g, p) <= PairTimes(o, p) /\ PairTimes(o, p) \in Nat
    BY <1>2, <1>7 DEF At
  <2>. QED  BY <2>1, <2>2, <1>3, <1>6
<1>10. ASSUME Cardinality(SeenPairs(m)) <= TopPairsLimit, NEW p \in SeenPairs(m)
       PROVE  p \in DOMAIN e.pairs /\ e.pairs[p] = PairCount(p, m)
  <2>1. Cardinality(SeenPairs(l)) <= TopPairsLimit
    <3>1. Cardinality(SeenPairs(l)) <= Cardinality(SeenPairs(m))
      BY <1>6, <1>8, FS_Subset
    <3>2. Cardinality(SeenPairs(l)) \in Nat /\ Cardinality(SeenPairs(m)) \in Nat
      BY <1>5, <1>8, FS_CardinalityType
    <3>. QED  BY <1>10, <3>1, <3>2, LimitAssumption
  <2>2. \A q \in SeenPairs(l) : q \in DOMAIN d.pairs /\ d.pairs[q] = PairCount(q, l)
    BY <1>5, <2>1
  <2>3. DOMAIN f = SeenPairs(m)
    BY <1>3, <1>5, <1>6, <2>2
  <2>4. DOMAIN e.pairs = DOMAIN f
    BY <1>1, <1>8, <1>9, <1>10, <2>3, TrimPairsFits
  <2>5. At(d.pairs, p) = PairCount(p, l)
    BY <1>5, <1>6, <2>2 DEF At
  <2>6. At(g, p) = PairTimes(o, p)
    BY <1>2, <1>7 DEF At
  <2>. QED  BY <1>3, <1>4, <1>6, <2>3, <2>4, <2>5, <2>6
<1>11. \A p \in DOMAIN e.pairs : e.pairs[p] \in Nat /\ e.pairs[p] <= PairCount(p, m)
  BY <1>4, <1>9
<1>12. DOMAIN e.pairs \subseteq SeenPairs(m)
  BY <1>4, <1>8
<1>. QED  BY <1>8, <1>10, <1>11, <1>12 DEF PairsInv, PairsExact, e, m

\* The sums and the pairs of one dataset and its history.
SumsInv(d, l) == TotalsInv(d, l) /\ PairsInv(d, l)

SumInv == SumsInv(data, log) /\ SumsInv(replica, rlog)

LEMMA EmptySums == SumsInv(EmptyData, <<>>)
<1>1. \A g : Sum(g, {}) = 0
  BY SumEmpty
<1>2. SumLog(<<>>, Total) = 0 /\ SumLog(<<>>, Units) = 0
  <2>1. <<>> \in Seq(Order)
    OBVIOUS
  <2>. QED  BY <2>1, SumLogIsLogSum, LogSumEmpty
<1>3. \A dim \in Dim, s \in Side : TableSum(EmptyData, dim, s) = 0
  <2>1. SumFunction(Nothing) = 0
    <3>1. DOMAIN Nothing = {} /\ SumFunction(Nothing) = Sum(Nothing, DOMAIN Nothing)
      BY DEF Nothing, SumFunction, Sum
    <3>. QED  BY <1>1, <3>1
  <2>2. \A dim \in Dim, s \in Side : EmptyData.table[dim][s] = Nothing
    BY DEF EmptyData
  <2>. QED  BY <2>1, <2>2 DEF TableSum
<1>4. \A c \in Counter : EmptyData.counter[c] = 0
  BY DEF EmptyData
<1>5. TotalsInv(EmptyData, <<>>)
  <2>1. /\ "orders" \in Counter /\ "revenue" \in Counter /\ "tax" \in Counter
        /\ "shipping" \in Counter /\ "lineItems" \in Counter
        /\ "count" \in Side /\ "revenue" \in Side /\ "product" \in Dim
        /\ OrderDim \subseteq Dim /\ LineDim \subseteq Dim /\ Len(<<>>) = 0
    BY DEF Counter, Side, OrderDim, LineDim, Dim
  <2>. QED  BY <1>2, <1>3, <1>4, <2>1 DEF TotalsInv, TotalsOf
<1>6. PairsInv(EmptyData, <<>>)
  <2>1. DOMAIN EmptyData.pairs = {}
    BY DEF EmptyData, Nothing
  <2>2. SeenPairs(<<>>) = {}
    BY DEF SeenPairs
  <2>. QED  BY <2>1, <2>2, FS_EmptySet DEF PairsInv, PairsExact
<1>. QED  BY <1>5, <1>6 DEF SumsInv

LEMMA SumsKept ==
  ASSUME NEW d, NEW e, NEW l, SumsInv(d, l),
         e.counter = d.counter, e.table = d.table, e.pairs = d.pairs
  PROVE  SumsInv(e, l)
<1>1. \A dim, s : TableSum(e, dim, s) = TableSum(d, dim, s)
  BY DEF TableSum
<1>2. TotalsInv(e, l)
  BY <1>1 DEF SumsInv, TotalsInv, TotalsOf
<1>3. PairsInv(e, l)
  BY DEF SumsInv, PairsInv, PairsExact
<1>. QED  BY <1>2, <1>3 DEF SumsInv

\* Every dataset agrees with its history, the one of the replica too.
THEOREM SumsInductive == Spec => []SumInv
<1>1. Init => SumInv
  BY EmptySums DEF Init, SumInv
<1>2. IInv /\ ReadInv /\ SumInv /\ [Next]_vars => SumInv'
  <2>. SUFFICES ASSUME IInv, ReadInv, SumInv, [Next]_vars PROVE SumInv'
    OBVIOUS
  <2>0. /\ SumsInv(data, log) /\ SumsInv(replica, rlog)
        /\ ShapeInv(data, log) /\ TableInv(data)
    BY DEF SumInv, IInv, DataInv, ReadInv
  <2>1. ASSUME NEW o \in Order, ApplyOrder(o) PROVE SumInv'
    <3>1. log \in Seq(Order)
      BY <2>0 DEF ShapeInv
    <3>2. /\ TotalsInv(Apply(data, o, clock), Append(log, o))
          /\ PairsInv(Apply(data, o, clock), Append(log, o))
      BY <2>0, <3>1, ApplyTotals, ApplyPairs DEF SumsInv
    <3>. QED  BY <2>0, <2>1, <3>2 DEF ApplyOrder, SumInv, SumsInv
  <2>2. CASE Replicate
    BY <2>0, <2>2 DEF Replicate, SumInv
  <2>3. CASE Failover
    BY <2>0, <2>3 DEF Failover, SumInv
  <2>4. ASSUME NEW h \in Hour, Expire(h) \/ Evict(h) PROVE SumInv'
    <3>1. /\ data'.table = data.table /\ data'.counter = data.counter
          /\ data'.pairs = data.pairs /\ UNCHANGED <<log, replica, rlog>>
      <4>1. DOMAIN data = Field
        BY <2>0 DEF TableInv
      <4>2. CASE Expire(h)
        BY <4>1, <4>2 DEF Expire, DropHour, Field
      <4>3. CASE Evict(h)
        BY <4>1, <4>3 DEF Evict, LoseHour, DropHour, Field
      <4>. QED  BY <2>4, <4>2, <4>3
    <3>. QED  BY <2>0, <3>1, SumsKept DEF SumInv
  <2>5. CASE UNCHANGED <<data, log, replica, rlog>>
    BY <2>0, <2>5 DEF SumInv
  <2>6. CASE \/ Tick \/ (\E req \in Request : StartRead(req))
             \/ ReadNext \/ ReadFails \/ Respond
    BY <2>5, <2>6 DEF Tick, StartRead, ReadNext, ReadFails, Respond, storeVars
  <2>7. CASE UNCHANGED vars
    BY <2>5, <2>7 DEF vars
  <2>. QED
    BY <2>1, <2>2, <2>3, <2>4, <2>6, <2>7 DEF Next, Step
<1>. QED
  BY <1>1, <1>2, InductiveInv, ReadsInductive, PTL DEF Spec

\* Every number of the script agrees with the orders applied and with the other
\* numbers: the tables by state, zip, customer, hour of day, value, product and
\* category all come to the totals (store.go:13-17, one script per order).
THEOREM TotalsTheorem == Spec => []TotalsAgree
<1>1. SumInv => TotalsAgree
  BY DEF SumInv, SumsInv, TotalsInv, TotalsAgree
<1>. QED  BY <1>1, SumsInductive, PTL

\* The counts of pairs are exact until more pairs than the cap were seen, and
\* never too high (types.go:111-115).
THEOREM PairsTheorem == Spec => []PairsExactUntilCap
<1>1. SumInv => PairsExactUntilCap
  BY DEF SumInv, SumsInv, PairsInv, PairsExactUntilCap
<1>. QED  BY <1>1, SumsInductive, PTL

-------------------------------------------------------------------------------
(* Reads that know all their commands when they start.                      *)

\* A read r has got the first of the answers to commands C and asks for the rest.
Plan(r, C) ==
  /\ IsSeq(r.got) /\ IsSeq(r.asked) /\ IsSeq(r.todo)
  /\ Len(r.asked) = Len(r.got) /\ Len(r.got) + Len(r.todo) = Len(C)
  /\ \A i \in 1..Len(r.got) : r.asked[i] = C[i]
  /\ \A i \in 1..Len(r.todo) : r.todo[i] = C[Len(r.got) + i]

LEMMA PlanStart ==
  ASSUME NEW r, NEW C, IsSeq(C), r.got = <<>>, r.asked = <<>>, r.todo = C
  PROVE  Plan(r, C)
<1>1. IsSeq(<<>>) /\ Len(<<>>) = 0
  <2>1. <<>> \in Seq({})
    OBVIOUS
  <2>. QED  BY <2>1 DEF IsSeq
<1>2. Len(C) \in Nat
  BY DEF IsSeq
<1>3. 0 + Len(C) = Len(C) /\ \A i \in 1..Len(C) : 0 + i = i
  BY <1>2
<1>. QED  BY <1>1, <1>3 DEF Plan

\* One answer later.
Advances(r, q, reply) ==
  /\ r.todo # <<>>
  /\ q.got = Append(r.got, reply) /\ q.asked = Append(r.asked, Head(r.todo))
  /\ q.todo = Tail(r.todo)

LEMMA PlanAnswer ==
  ASSUME NEW r, NEW q, NEW C, NEW reply, Plan(r, C), Advances(r, q, reply), Len(C) \in Nat
  PROVE  /\ Plan(q, C)
         /\ Len(r.got) \in Nat /\ Len(q.got) = Len(r.got) + 1 /\ Len(q.got) \in 1..Len(C)
         /\ Head(r.todo) = C[Len(q.got)] /\ q.got[Len(q.got)] = reply
         /\ \A i \in 1..Len(r.got) : q.got[i] = r.got[i]
<1>1. PICK G, A, T : r.got \in Seq(G) /\ r.asked \in Seq(A) /\ r.todo \in Seq(T)
  BY DEF Plan, IsSeq
<1>2. PICK k \in Nat : k = Len(r.got)
  BY <1>1
<1>3. PICK n \in Nat : n = Len(C)
  OBVIOUS
<1>4. PICK cmd : cmd = Head(r.todo)
  OBVIOUS
<1>0. /\ r.todo # <<>> /\ q.got = Append(r.got, reply)
      /\ q.asked = Append(r.asked, cmd) /\ q.todo = Tail(r.todo)
  BY <1>4 DEF Advances
<1>5. /\ Tail(r.todo) \in Seq(T) /\ Len(Tail(r.todo)) = Len(r.todo) - 1
      /\ \A i \in 1..(Len(r.todo) - 1) : Tail(r.todo)[i] = r.todo[i + 1]
      /\ cmd = r.todo[1] /\ Len(r.todo) \in Nat \ {0}
  BY <1>0, <1>1, <1>4
<1>6. PICK t \in Nat \ {0} : t = Len(r.todo)
  BY <1>5
<1>7. /\ Len(r.asked) = k /\ k + t = n
      /\ \A i \in 1..k : r.asked[i] = C[i]
      /\ \A i \in 1..t : r.todo[i] = C[k + i]
  BY <1>2, <1>3, <1>6 DEF Plan
<1>8. /\ q.got \in Seq(G \cup {reply}) /\ Len(q.got) = k + 1
      /\ \A i \in 1..k : q.got[i] = r.got[i]
      /\ q.got[k + 1] = reply
  BY <1>0, <1>1, <1>2
<1>9. /\ q.asked \in Seq(A \cup {cmd}) /\ Len(q.asked) = k + 1
      /\ \A i \in 1..k : q.asked[i] = r.asked[i]
      /\ q.asked[k + 1] = cmd
  BY <1>0, <1>1, <1>2, <1>7
<1>10. /\ q.todo \in Seq(T) /\ Len(q.todo) = t - 1
      /\ \A i \in 1..(t - 1) : q.todo[i] = r.todo[i + 1]
  BY <1>0, <1>5, <1>6
<1>11. cmd = C[k + 1] /\ k + 1 \in 1..n
  BY <1>5, <1>7
<1>12. IsSeq(q.got) /\ IsSeq(q.asked) /\ IsSeq(q.todo)
  BY <1>8, <1>9, <1>10 DEF IsSeq
<1>13. Len(q.asked) = Len(q.got) /\ Len(q.got) + Len(q.todo) = Len(C)
  <2>1. (k + 1) + (t - 1) = n
    BY <1>7
  <2>2. Len(q.got) = k + 1 /\ Len(q.asked) = k + 1 /\ Len(q.todo) = t - 1
    BY <1>8, <1>9, <1>10
  <2>. QED  BY <1>3, <2>1, <2>2
<1>14. ASSUME NEW i \in 1..Len(q.got) PROVE q.asked[i] = C[i]
  <2>1. i \in 1..k \/ i = k + 1
    BY <1>8
  <2>. QED  BY <1>7, <1>9, <1>11, <2>1
<1>15. ASSUME NEW i \in 1..Len(q.todo) PROVE q.todo[i] = C[Len(q.got) + i]
  <2>1. i \in 1..(t - 1)
    BY <1>10
  <2>2. i + 1 \in 1..t /\ k + (i + 1) = (k + 1) + i
    BY <2>1
  <2>3. k + (i + 1) = Len(q.got) + i
    BY <1>8, <2>2
  <2>. QED  BY <1>7, <1>10, <2>1, <2>2, <2>3
<1>16. Plan(q, C)
  BY <1>12, <1>13, <1>14, <1>15 DEF Plan
<1>. QED  BY <1>2, <1>3, <1>4, <1>8, <1>11, <1>16

-------------------------------------------------------------------------------
(* Summary.  The orders counted are a prefix of the history as long as the  *)
(* master stays, and whatever is read later is a sum over all of it.        *)

\* The commands of a summary, CounterReads("summary").
Asks == <<Get("orders"), Get("revenue"), Get("tax"), Get("shipping"), Get("lineItems"), Uniques>>

\* What the i-th answer owes the first n orders of history l.
Covers(l, n, i, reply) ==
  /\ n \in 0..Len(l)
  /\ i = 1 => reply = n
  /\ i = 2 => reply >= SumLog(SubSeq(l, 1, n), Total)
  /\ i = 5 => reply >= SumLog(SubSeq(l, 1, n), Units)
  /\ i = 6 => reply >= Cardinality({o.customer : o \in Applied(SubSeq(l, 1, n))})

\* A summary under way on one master: what it asked and has yet to ask, and that
\* every answer covers the orders the first one counted.
CoverInv ==
  read.req # NoRequest /\ read.req.kind = "summary" /\ SameMaster =>
    /\ Plan(read, Asks)
    /\ \A i \in 1..Len(read.got) : Covers(log, read.got[1], i, read.got[i])

LEMMA AsksSeq == IsSeq(Asks) /\ Len(Asks) = 6
<1>1. PICK a, b, c, d, e, f : Asks = <<a, b, c, d, e, f>>
  BY DEF Asks
<1>2. <<a, b, c, d, e, f>> \in Seq({a, b, c, d, e, f})
  OBVIOUS
<1>. QED  BY <1>1, <1>2 DEF IsSeq

\* A prefix of the history sums to no more and stays when the history grows.
LEMMA Prefix ==
  ASSUME NEW l \in Seq(Order), NEW n \in 0..Len(l)
  PROVE  /\ SumLog(SubSeq(l, 1, n), Total) <= SumLog(l, Total)
         /\ SumLog(SubSeq(l, 1, n), Units) <= SumLog(l, Units)
         /\ Applied(SubSeq(l, 1, n)) \subseteq Applied(l)
         /\ \A o \in Order : /\ SubSeq(Append(l, o), 1, n) = SubSeq(l, 1, n)
                             /\ n \in 0..Len(Append(l, o))
<1>. DEFINE p == SubSeq(l, 1, n)
<1>1. /\ p \in Seq(Order) /\ Len(p) = n /\ DOMAIN p = 1..n /\ \A i \in 1..n : p[i] = l[i]
      /\ DOMAIN l = 1..Len(l) /\ Len(l) \in Nat /\ \A i \in 1..Len(l) : l[i] \in Order
      /\ 1..n \subseteq 1..Len(l)
  OBVIOUS
<1>2. ASSUME NEW o \in Order
      PROVE  SubSeq(Append(l, o), 1, n) = SubSeq(l, 1, n) /\ n \in 0..Len(Append(l, o))
  OBVIOUS
<1>. HIDE DEF p
<1>3. ASSUME NEW h, \A x \in Order : h[x] \in Nat
      PROVE  LogSum(p, h) <= LogSum(l, h)
  <2>. DEFINE f == [i \in DOMAIN p |-> h[p[i]]]
              g == [i \in DOMAIN l |-> h[l[i]]]
  <2>1. IsFiniteSet(1..Len(l)) /\ IsFiniteSet(1..n)
    BY <1>1, FS_Interval
  <2>2. /\ NatValued(g, 1..Len(l)) /\ NatValued(f, 1..n) /\ NatValued(g, 1..n)
        /\ \A i \in 1..n : f[i] = g[i]
    BY <1>1, <1>3 DEF NatValued
  <2>3. LogSum(p, h) = Sum(f, 1..n) /\ LogSum(l, h) = Sum(g, 1..Len(l))
    BY <1>1 DEF LogSum
  <2>. HIDE DEF f, g
  <2>4. Sum(f, 1..n) = Sum(g, 1..n)
    BY <2>1, <2>2, SumSame
  <2>5. Sum(g, 1..n) <= Sum(g, 1..Len(l))
    BY <1>1, <2>1, <2>2, SumPart
  <2>. QED  BY <2>3, <2>4, <2>5
<1>4. \A x \in Order : TotalFn[x] \in Nat /\ UnitsFn[x] \in Nat
  BY OrderNumbers DEF TotalFn, UnitsFn
<1>5. LogSum(p, TotalFn) <= LogSum(l, TotalFn) /\ LogSum(p, UnitsFn) <= LogSum(l, UnitsFn)
  BY <1>3, <1>4
<1>6. SumLog(p, Total) <= SumLog(l, Total) /\ SumLog(p, Units) <= SumLog(l, Units)
  BY <1>1, <1>5, SumLogIsLogSum
<1>7. Applied(p) \subseteq Applied(l)
  BY <1>1 DEF Applied
<1>. QED  BY <1>2, <1>6, <1>7 DEF p

\* What was covered stays covered.
LEMMA CoverKept ==
  ASSUME CoverInv, log \in Seq(Order), UNCHANGED <<read, failovers>>,
         log' = log \/ \E o \in Order : log' = Append(log, o)
  PROVE  CoverInv'
<1>. SUFFICES ASSUME read.req # NoRequest, read.req.kind = "summary", SameMaster,
                     NEW i \in 1..Len(read.got)
              PROVE  Covers(log', read.got[1], i, read.got[i])
  BY DEF CoverInv, SameMaster
<1>1. Covers(log, read.got[1], i, read.got[i])
  BY DEF CoverInv
<1>2. PICK n : n = read.got[1]
  OBVIOUS
<1>3. n \in 0..Len(log)
  BY <1>1, <1>2 DEF Covers
<1>4. SubSeq(log', 1, n) = SubSeq(log, 1, n) /\ n \in 0..Len(log')
  BY <1>3, Prefix
<1>. QED  BY <1>1, <1>2, <1>4 DEF Covers

LEMMA CoverStart ==
  ASSUME failovers \in Nat, NEW req \in Request, StartRead(req)
  PROVE  CoverInv'
<1>1. /\ read'.req = req /\ read'.got = <<>> /\ read'.asked = <<>>
      /\ read'.todo = First(req, clock)
  BY DEF StartRead, Idle
<1>2. req.kind = "summary" => First(req, clock) = Asks
  BY DEF First, CounterReads, Asks
<1>3. req.kind = "summary" => Plan(read', Asks)
  BY <1>1, <1>2, AsksSeq, PlanStart
<1>4. 1..Len(read'.got) = {}
  BY <1>1
<1>. QED  BY <1>1, <1>3, <1>4 DEF CoverInv

\* What Redis answers covers what was counted before.
LEMMA AnswerCovers ==
  ASSUME ShapeInv(data, log), TotalsInv(data, log), SplitOf(data, log),
         NEW i \in 1..6, NEW reply \in Replies(data, Asks[i]), NEW n \in 0..Len(log),
         i = 1 => reply = n
  PROVE  Covers(log, n, i, reply)
<1>1. log \in Seq(Order)
  BY DEF ShapeInv
<1>2. CASE i = 2
  <2>1. Asks[i] = Get("revenue")
    BY <1>2 DEF Asks
  <2>2. reply = data.counter["revenue"]
    BY <2>1 DEF Replies, Get
  <2>3. reply = SumLog(log, Total)
    BY <2>2 DEF TotalsInv, TotalsOf
  <2>. QED  BY <1>1, <1>2, <2>3, Prefix DEF Covers
<1>3. CASE i = 5
  <2>1. Asks[i] = Get("lineItems")
    BY <1>3 DEF Asks
  <2>2. reply = data.counter["lineItems"]
    BY <2>1 DEF Replies, Get
  <2>3. reply = SumLog(log, Units)
    BY <2>2 DEF TotalsInv
  <2>. QED  BY <1>1, <1>3, <2>3, Prefix DEF Covers
<1>4. CASE i = 6
  <2>1. Asks[i] = Uniques
    BY <1>4 DEF Asks
  <2>2. reply = Cardinality(data.customers)
    BY <2>1 DEF Replies, Uniques
  <2>. DEFINE whole == {o.customer : o \in Applied(log)}
              part  == {o.customer : o \in Applied(SubSeq(log, 1, n))}
  <2>3. data.customers = whole /\ IsFiniteSet(whole)
    BY DEF SplitOf, ShapeInv
  <2>4. part \subseteq whole
    BY <1>1, Prefix
  <2>. HIDE DEF whole, part
  <2>5. Cardinality(part) <= Cardinality(whole) /\ Cardinality(part) \in Nat
        /\ Cardinality(whole) \in Nat
    BY <2>3, <2>4, FS_Subset, FS_CardinalityType
  <2>6. reply >= Cardinality(part)
    BY <2>2, <2>3, <2>5
  <2>. QED  BY <1>4, <2>6 DEF Covers, part
<1>. QED  BY <1>2, <1>3, <1>4 DEF Covers

LEMMA CoverAnswer ==
  ASSUME RowsInv, CoverInv, ShapeInv(data, log), TotalsInv(data, log), SplitOf(data, log),
         ReadNext
  PROVE  CoverInv'
<1>0. read.req # NoRequest /\ read.todo # <<>> /\ UNCHANGED <<data, log, failovers>>
  BY DEF ReadNext, Reading, storeVars
<1>1. PICK reply \in Replies(data, Head(read.todo)) : Answer(reply)
  BY DEF ReadNext
<1>2. /\ read'.req = read.req /\ read'.epoch = read.epoch
      /\ read'.got = Append(read.got, reply)
      /\ read'.asked = Append(read.asked, Head(read.todo))
      /\ read'.todo = Tail(read.todo) \o (IF read.got = <<>>
                                          THEN Follow(read.req, reply) ELSE <<>>)
  BY <1>1 DEF Answer, RowsInv
<1>. SUFFICES ASSUME read.req.kind = "summary", SameMaster
              PROVE  /\ Plan(read', Asks)
                     /\ \A i \in 1..Len(read'.got) : Covers(log, read'.got[1], i, read'.got[i])
  BY <1>0, <1>2 DEF CoverInv, SameMaster
<1>3. /\ Plan(read, Asks)
      /\ \A i \in 1..Len(read.got) : Covers(log, read.got[1], i, read.got[i])
  BY <1>0 DEF CoverInv
<1>4. Follow(read.req, reply) = <<>>
  BY DEF Follow
<1>5. read'.todo = Tail(read.todo)
  <2>1. PICK T : read.todo \in Seq(T)
    BY <1>3 DEF Plan, IsSeq
  <2>2. Tail(read.todo) \o <<>> = Tail(read.todo)
    BY <1>0, <2>1
  <2>. QED  BY <1>2, <1>4, <2>2
<1>6. PICK q : q = read'
  OBVIOUS
<1>7. Advances(read, q, reply)
  BY <1>0, <1>2, <1>5, <1>6 DEF Advances
<1>8. PICK k : /\ k = Len(read.got) /\ Plan(q, Asks) /\ k \in Nat
               /\ Len(q.got) = k + 1 /\ k + 1 \in 1..6
               /\ Head(read.todo) = Asks[k + 1] /\ q.got[k + 1] = reply
               /\ \A i \in 1..k : q.got[i] = read.got[i]
  <2>1. /\ Plan(q, Asks)
        /\ Len(read.got) \in Nat /\ Len(q.got) = Len(read.got) + 1
        /\ Len(q.got) \in 1..Len(Asks)
        /\ Head(read.todo) = Asks[Len(q.got)] /\ q.got[Len(q.got)] = reply
        /\ \A i \in 1..Len(read.got) : q.got[i] = read.got[i]
    <3>1. Len(Asks) \in Nat
      BY AsksSeq
    <3>. QED  BY <1>3, <1>7, <3>1, PlanAnswer
  <2>2. PICK k : k = Len(read.got)
    OBVIOUS
  <2>. QED  BY <2>1, <2>2, AsksSeq
<1>9. Covers(log, q.got[1], k + 1, reply)
  <2>1. q.got[1] \in 0..Len(log) /\ (k + 1 = 1 => reply = q.got[1])
    <3>1. CASE k = 0
      <4>1. Asks[k + 1] = Get("orders")
        BY <3>1 DEF Asks
      <4>2. Replies(data, Get("orders")) = {data.counter["orders"]}
        BY DEF Replies, Get
      <4>3. reply = data.counter["orders"]
        BY <1>1, <1>8, <4>1, <4>2
      <4>4. reply = Len(log) /\ Len(log) \in Nat
        BY <4>3 DEF SplitOf, ShapeInv
      <4>. QED  BY <1>8, <3>1, <4>4
    <3>2. CASE k # 0
      <4>1. 1 \in 1..k /\ k + 1 # 1
        BY <3>2, <1>8
      <4>2. Covers(log, read.got[1], 1, read.got[1])
        BY <1>3, <1>8, <4>1
      <4>3. read.got[1] \in 0..Len(log)
        BY <4>2 DEF Covers
      <4>. QED  BY <1>8, <4>1, <4>3
    <3>. QED  BY <3>1, <3>2
  <2>2. reply \in Replies(data, Asks[k + 1])
    BY <1>1, <1>8
  <2>. QED  BY <1>8, <2>1, <2>2, AnswerCovers
<1>10. ASSUME NEW i \in 1..Len(q.got) PROVE Covers(log, q.got[1], i, q.got[i])
  <2>1. CASE i \in 1..k
    <3>1. 1 \in 1..k
      BY <2>1, <1>8
    <3>. QED  BY <1>3, <1>8, <2>1, <3>1
  <2>2. CASE i = k + 1
    BY <1>8, <1>9, <2>2
  <2>. QED  BY <1>8, <2>1, <2>2
<1>. QED  BY <1>6, <1>8, <1>10

LEMMA CoverClose ==
  ASSUME read' = Close(read)
  PROVE  CoverInv'
<1>1. read'.req = NoRequest
  BY DEF Close, Idle
<1>. QED  BY <1>1 DEF CoverInv

\* Every answer of a summary covers the orders the first one counted.
THEOREM CoverInductive == Spec => []CoverInv
<1>1. Init => CoverInv
  <2>1. Init => read.req = NoRequest
    BY DEF Init, Idle
  <2>. QED  BY <2>1 DEF CoverInv
<1>2. IInv /\ ReadInv /\ SumInv /\ CoverInv /\ [Next]_vars => CoverInv'
  <2>. SUFFICES ASSUME IInv, ReadInv, SumInv, CoverInv, [Next]_vars PROVE CoverInv'
    OBVIOUS
  <2>0. /\ ShapeInv(data, log) /\ SplitOf(data, log) /\ TotalsInv(data, log)
        /\ RowsInv /\ failovers \in Nat /\ log \in Seq(Order)
    BY DEF SumInv, SumsInv, IInv, DataInv, ShapeInv, ReadInv
  <2>1. CASE UNCHANGED <<log, read, failovers>>
    BY <2>0, <2>1, CoverKept
  <2>2. ASSUME NEW o \in Order, ApplyOrder(o) PROVE CoverInv'
    BY <2>0, <2>2, CoverKept DEF ApplyOrder
  <2>3. CASE Failover
    <3>1. /\ failovers' = failovers + 1 /\ read' = read
      BY <2>3 DEF Failover
    <3>2. read.req # NoRequest => read.epoch \in Nat /\ read.epoch <= failovers
      BY <2>0 DEF RowsInv
    <3>3. read'.req # NoRequest => ~SameMaster'
      BY <2>0, <3>1, <3>2 DEF SameMaster
    <3>. QED  BY <3>3 DEF CoverInv
  <2>4. CASE \/ Replicate \/ Tick \/ (\E h \in Hour : Expire(h) \/ Evict(h)) \/ UNCHANGED vars
    BY <2>1, <2>4 DEF Replicate, Tick, Expire, Evict, storeVars, vars
  <2>5. ASSUME NEW req \in Request, StartRead(req) PROVE CoverInv'
    BY <2>0, <2>5, CoverStart
  <2>6. CASE ReadNext
    BY <2>0, <2>6, CoverAnswer
  <2>7. CASE ReadFails
    <3>1. CASE read' = Close(read)
      BY <3>1, CoverClose
    <3>2. CASE ErrorDropped /\ read' # Close(read)
      <4>1. read.req.kind # "summary" /\ read'.req = read.req
        BY <2>0, <2>7, <3>2 DEF ReadFails, ErrorDropped, RowsInv
      <4>. QED  BY <4>1 DEF CoverInv
    <3>. QED  BY <2>7, <3>1, <3>2 DEF ReadFails
  <2>8. CASE Respond
    BY <2>8, CoverClose DEF Respond
  <2>. QED
    BY <2>2, <2>3, <2>4, <2>5, <2>6, <2>7, <2>8 DEF Next, Step
<1>. QED
  BY <1>1, <1>2, InductiveInv, ReadsInductive, SumsInductive, PTL DEF Spec

\* Summary counts orders first and adds up revenue, items and customers later:
\* while the master stays, the rest covers every order counted, whatever was
\* applied between the commands (store.go:363-396, Summary).
THEOREM SummaryTheorem == Spec => []SummaryCoversOrders
<1>1. CoverInv => SummaryCoversOrders
  <2>. SUFFICES ASSUME CoverInv, Served, read.req.kind = "summary", SameMaster
                PROVE  LET counted == SubSeq(log, 1, AnswerTo(Get("orders"))) IN
                       /\ AnswerTo(Get("revenue")) >= SumLog(counted, Total)
                       /\ AnswerTo(Get("lineItems")) >= SumLog(counted, Units)
                       /\ AnswerTo(Uniques) >= Cardinality({o.customer : o \in Applied(counted)})
    BY DEF SummaryCoversOrders
  <2>1. /\ Plan(read, Asks) /\ read.todo = <<>>
        /\ \A i \in 1..Len(read.got) : Covers(log, read.got[1], i, read.got[i])
    BY DEF CoverInv, Served
  <2>2. Len(read.got) = 6 /\ DOMAIN read.asked = 1..6
    <3>1. Len(read.got) = 6
      <4>1. PICK k \in Nat : k = Len(read.got)
        BY <2>1 DEF Plan, IsSeq
      <4>2. k + 0 = 6
        BY <2>1, <4>1, AsksSeq DEF Plan
      <4>. QED  BY <4>1, <4>2
    <3>. QED  BY <2>1, <3>1 DEF Plan, IsSeq
  <2>3. \A i \in 1..6 : read.asked[i] = Asks[i] /\ Covers(log, read.got[1], i, read.got[i])
    BY <2>1, <2>2 DEF Plan
  <2>4. ASSUME NEW i \in 1..6, NEW cmd, cmd = Asks[i], \A j \in 1..6 : Asks[j] = Asks[i] => j = i
        PROVE  AnswerTo(cmd) = read.got[i]
    <3>1. (CHOOSE j \in DOMAIN read.asked : read.asked[j] = cmd) = i
      BY <2>2, <2>3, <2>4
    <3>. QED  BY <3>1 DEF AnswerTo
  <2>5. \A i, j \in 1..6 : Asks[j] = Asks[i] => j = i
    <3>1. /\ Asks[1].op = "get" /\ Asks[1].key = "orders"
          /\ Asks[2].op = "get" /\ Asks[2].key = "revenue"
          /\ Asks[3].op = "get" /\ Asks[3].key = "tax"
          /\ Asks[4].op = "get" /\ Asks[4].key = "shipping"
          /\ Asks[5].op = "get" /\ Asks[5].key = "lineItems"
          /\ Asks[6].op = "pfcount"
      BY DEF Asks, Get, Uniques
    <3>. QED  BY <3>1
  <2>6. /\ Asks[1] = Get("orders") /\ Asks[2] = Get("revenue")
        /\ Asks[5] = Get("lineItems") /\ Asks[6] = Uniques
    BY DEF Asks
  <2>7. /\ AnswerTo(Get("orders")) = read.got[1] /\ AnswerTo(Get("revenue")) = read.got[2]
        /\ AnswerTo(Get("lineItems")) = read.got[5] /\ AnswerTo(Uniques) = read.got[6]
    BY <2>4, <2>5, <2>6
  <2>8. PICK n : n = read.got[1]
    OBVIOUS
  <2>9. Covers(log, n, 2, read.got[2]) /\ Covers(log, n, 5, read.got[5])
        /\ Covers(log, n, 6, read.got[6])
    BY <2>3, <2>8
  <2>10. /\ read.got[2] >= SumLog(SubSeq(log, 1, n), Total)
         /\ read.got[5] >= SumLog(SubSeq(log, 1, n), Units)
         /\ read.got[6] >= Cardinality({o.customer : o \in Applied(SubSeq(log, 1, n))})
    BY <2>9 DEF Covers
  <2>. QED  BY <2>7, <2>8, <2>10
<1>. QED  BY <1>1, CoverInductive, PTL

-------------------------------------------------------------------------------
(* Tallies.  The split, the histograms and the heatmaps add up numbers read *)
(* one after the other.  Each only grows while the master stays, so it lies *)
(* between what it was when the request came and what it is now.            *)

Tallied  == {"split", "heat", "histogram"}
TallyDim == {"value", "cart", "hour", "day"}

\* All the labels a dimension can have.
Labels(dim) == CASE dim = "value" -> ValueEnds
                 [] dim = "cart"  -> CartSizeEnds
                 [] dim = "hour"  -> 0..(HoursPerDay - 1)
                 [] dim = "day"   -> 0..(DaysPerWeek - 1)

LabelInv(d) == \A dim \in TallyDim : DOMAIN d.table[dim]["count"] \subseteq Labels(dim)

LEMMA LabelsFinite ==
  ASSUME NEW dim \in TallyDim
  PROVE  IsFiniteSet(Labels(dim)) /\ Labels(dim) \subseteq Nat
<1>1. PICK n \in Nat : n >= 100000
  OBVIOUS
<1>2. \A m \in Int : IsFiniteSet(0..m) /\ 0..m \subseteq Nat
  BY FS_Interval
<1>3. CASE dim = "value"
  <2>1. Labels(dim) \subseteq 0..n
    BY <1>1, <1>3 DEF Labels, ValueEnds
  <2>. QED  BY <1>2, <2>1, FS_Subset
<1>4. CASE dim = "cart"
  <2>1. Labels(dim) \subseteq 0..n
    BY <1>1, <1>4 DEF Labels, CartSizeEnds
  <2>. QED  BY <1>2, <2>1, FS_Subset
<1>5. CASE dim = "hour"
  BY <1>2, <1>5, CalendarAssumption DEF Labels
<1>6. CASE dim = "day"
  BY <1>2, <1>6, CalendarAssumption DEF Labels
<1>. QED  BY <1>3, <1>4, <1>5, <1>6 DEF TallyDim

LEMMA LargestIn ==
  ASSUME NEW ends, NEW n \in Nat, ends \subseteq Nat, IsFiniteSet(ends)
  PROVE  /\ LargestUpTo(ends, n) \in ends \cup {0}
         /\ \A e \in ends : e <= n => LargestUpTo(ends, n) >= e
<1>. DEFINE S == {e \in ends : e <= n} \cup {0}
<1>1. IsFiniteSet({e \in ends : e <= n}) /\ IsFiniteSet({0})
  <2>1. {e \in ends : e <= n} \subseteq ends
    OBVIOUS
  <2>. QED  BY <2>1, FS_Subset, FS_Singleton
<1>2. IsFiniteSet(S)
  BY <1>1, FS_Union
<1>3. S \subseteq Nat /\ 0 \in S
  <2>1. \A e \in S : e \in ends \/ e = 0
    OBVIOUS
  <2>. HIDE DEF S
  <2>2. ASSUME NEW e \in S PROVE e \in Nat
    <3>1. CASE e \in ends
      BY <3>1
    <3>2. CASE e = 0
      BY <3>2
    <3>. QED  BY <2>1, <3>1, <3>2
  <2>3. 0 \in S
    BY DEF S
  <2>. QED  BY <2>2, <2>3
<1>. HIDE DEF S
<1>4. Max(S) \in S /\ \A e \in S : Max(S) >= e
  BY <1>2, <1>3, MaxNat
<1>. QED  BY <1>4 DEF S, LargestUpTo

\* Every order is counted under one of them.
LEMMA LabelInLabels ==
  ASSUME NEW o \in Order, NEW dim \in TallyDim
  PROVE  LabelsOf(dim, o) \subseteq Labels(dim)
<1>1. dim \notin LineDim
  BY DEF TallyDim, LineDim
<1>2. LabelsOf(dim, o) \subseteq {Label(dim, o)}
  BY <1>1 DEF LabelsOf
<1>3. Total(o) \in Nat /\ Units(o) \in Nat /\ o.created \in Nat
  BY OrderNumbers
<1>4. CASE dim = "value"
  <2>1. IsFiniteSet(Labels("value")) /\ Labels("value") \subseteq Nat /\ Labels("value") = ValueEnds
    BY <1>4, LabelsFinite DEF Labels
  <2>2. ValueBucketLabel(Total(o)) \in ValueEnds \cup {0}
    BY <1>3, <2>1, LargestIn DEF ValueBucketLabel
  <2>3. 0 \in ValueEnds
    BY DEF ValueEnds
  <2>. QED  BY <1>2, <1>4, <2>1, <2>2, <2>3 DEF Label
<1>5. CASE dim = "cart"
  <2>1. IsFiniteSet(Labels("cart")) /\ Labels("cart") \subseteq Nat /\ Labels("cart") = CartSizeEnds
    BY <1>5, LabelsFinite DEF Labels
  <2>2. Max({Units(o), 1}) \in Nat /\ Max({Units(o), 1}) >= 1
    <3>1. IsFiniteSet({Units(o)}) /\ IsFiniteSet({1})
      BY FS_Singleton
    <3>2. {Units(o), 1} = {Units(o)} \cup {1}
      OBVIOUS
    <3>3. IsFiniteSet({Units(o), 1})
      BY <3>1, <3>2, FS_Union
    <3>. QED  BY <1>3, <3>3, MaxNat
  <2>3. /\ CartSizeBucketLabel(Units(o)) \in CartSizeEnds \cup {0}
        /\ \A e \in CartSizeEnds : e <= Max({Units(o), 1}) => CartSizeBucketLabel(Units(o)) >= e
    BY <2>1, <2>2, LargestIn DEF CartSizeBucketLabel
  <2>4. 1 \in CartSizeEnds
    BY DEF CartSizeEnds
  <2>5. CartSizeBucketLabel(Units(o)) # 0
    BY <2>2, <2>3, <2>4
  <2>. QED  BY <1>2, <1>5, <2>1, <2>3, <2>5 DEF Label
<1>6. CASE dim = "hour"
  <2>1. HoursPerDay \in Nat \ {0}
    BY CalendarAssumption
  <2>2. \A a \in Nat, b \in Nat \ {0} : a % b \in 0..(b - 1)
    OBVIOUS
  <2>. QED  BY <1>2, <1>3, <1>6, <2>1, <2>2 DEF Label, Labels, HourOfDayLabel
<1>7. CASE dim = "day"
  <2>1. HoursPerDay \in Nat \ {0} /\ DaysPerWeek \in Nat \ {0}
    BY CalendarAssumption
  <2>2. \A a \in Nat, b \in Nat \ {0} : a % b \in 0..(b - 1) /\ a \div b \in Nat
    OBVIOUS
  <2>. QED  BY <1>2, <1>3, <1>7, <2>1, <2>2 DEF Label, Labels, DayOfWeekLabel
<1>. QED  BY <1>4, <1>5, <1>6, <1>7 DEF TallyDim

LEMMA ApplyLabels ==
  ASSUME NEW d, NEW now, NEW o \in Order, LabelInv(d)
  PROVE  LabelInv(Apply(d, o, now))
<1>. SUFFICES ASSUME NEW dim \in TallyDim
              PROVE  DOMAIN Apply(d, o, now).table[dim]["count"] \subseteq Labels(dim)
  BY DEF LabelInv
<1>1. dim \in Dim /\ "count" \in Side
  BY DEF TallyDim, Dim, OrderDim, Side
<1>2. Apply(d, o, now).table[dim]["count"]
        = Plus(d.table[dim]["count"], Contribution(dim, "count", o))
  BY <1>1 DEF Apply
<1>3. DOMAIN Apply(d, o, now).table[dim]["count"]
        = DOMAIN d.table[dim]["count"] \cup DOMAIN Contribution(dim, "count", o)
  BY <1>2 DEF Plus
<1>4. DOMAIN Contribution(dim, "count", o) \subseteq LabelsOf(dim, o)
  BY <1>1, ContributionShape
<1>. QED  BY <1>3, <1>4, LabelInLabels DEF LabelInv

\* No count is kept under a label the reading side does not ask for.
THEOREM LabelsInductive == Spec => [](LabelInv(data) /\ LabelInv(replica))
<1>. DEFINE Inv == LabelInv(data) /\ LabelInv(replica)
<1>1. Init => Inv
  <2>1. \A dim \in TallyDim : dim \in Dim
    BY DEF TallyDim, Dim, OrderDim
  <2>2. LabelInv(EmptyData)
    BY <2>1 DEF LabelInv, EmptyData, Nothing, Side
  <2>. QED  BY <2>2 DEF Init
<1>2. ReadInv /\ Inv /\ [Next]_vars => Inv'
  <2>. SUFFICES ASSUME ReadInv, LabelInv(data), LabelInv(replica), [Next]_vars PROVE Inv'
    OBVIOUS
  <2>1. ASSUME NEW o \in Order, ApplyOrder(o) PROVE Inv'
    BY <2>1, ApplyLabels DEF ApplyOrder
  <2>2. CASE Replicate
    BY <2>2 DEF Replicate
  <2>3. CASE Failover
    BY <2>3 DEF Failover
  <2>4. ASSUME NEW h \in Hour, Expire(h) \/ Evict(h) PROVE Inv'
    <3>1. data'.table = data.table /\ replica' = replica
      <4>1. DOMAIN data = Field
        BY DEF ReadInv, TableInv
      <4>2. CASE Expire(h)
        BY <4>1, <4>2 DEF Expire, DropHour, Field
      <4>3. CASE Evict(h)
        BY <4>1, <4>3 DEF Evict, LoseHour, DropHour, Field
      <4>. QED  BY <2>4, <4>2, <4>3
    <3>. QED  BY <3>1 DEF LabelInv
  <2>5. CASE UNCHANGED <<data, replica>>
    BY <2>5
  <2>6. CASE \/ Tick \/ (\E req \in Request : StartRead(req))
             \/ ReadNext \/ ReadFails \/ Respond \/ UNCHANGED vars
    BY <2>5, <2>6 DEF Tick, StartRead, ReadNext, ReadFails, Respond, storeVars, vars
  <2>. QED
    BY <2>1, <2>2, <2>3, <2>4, <2>6 DEF Next, Step
<1>. QED
  BY <1>1, <1>2, ReadsInductive, PTL DEF Spec

\* The commands of a tally: those of the first round trip, whatever the hour.
Asked(req) == First(req, 0)

\* The places of its answers that count orders.
Places(req) == CASE req.kind = "split"     -> {1, 2}
                 [] req.kind = "heat"      -> {i \in 1..(2 * HeatLabels(req.dim)) : i % 2 = 1}
                 [] req.kind = "histogram" -> DOMAIN HistogramLabels(req.dim)

\* The commands that ask for one number, and the number.
OneNumber(cmd) == \/ cmd.op = "get" /\ cmd.key \in Counter
                  \/ cmd.op = "score" /\ cmd.dim \in Dim /\ cmd.side \in Side

Shown(d, cmd) == IF cmd.op = "get" THEN d.counter[cmd.key]
                                   ELSE At(d.table[cmd.dim][cmd.side], cmd.label)

LEMMA ShownIsAnswered ==
  ASSUME NEW d, NEW cmd, OneNumber(cmd)
  PROVE  Replies(d, cmd) = {Shown(d, cmd)}
<1>1. CASE cmd.op = "get"
  BY <1>1 DEF Replies, Shown
<1>2. CASE cmd.op = "score"
  BY <1>2 DEF Replies, Shown
<1>. QED  BY <1>1, <1>2 DEF OneNumber

LEMMA ShownNat ==
  ASSUME NEW d, NEW l, ShapeInv(d, l), TableInv(d), NEW cmd, OneNumber(cmd)
  PROVE  Shown(d, cmd) \in Nat
<1>1. CASE cmd.op = "get" /\ cmd.key \in Counter
  BY <1>1 DEF ShapeInv, Shown
<1>2. CASE cmd.op = "score" /\ cmd.dim \in Dim /\ cmd.side \in Side
  BY <1>2 DEF TableInv, Shown, At
<1>. QED  BY <1>1, <1>2 DEF OneNumber

\* The script takes away from no number.
LEMMA ShownGrows ==
  ASSUME NEW d, NEW l, NEW now, NEW o \in Order, ShapeInv(d, l), TableInv(d),
         NEW cmd, OneNumber(cmd)
  PROVE  Shown(d, cmd) <= Shown(Apply(d, o, now), cmd)
<1>1. CASE cmd.op = "get" /\ cmd.key \in Counter
  <2>1. d.counter[cmd.key] \in Nat
    BY <1>1 DEF ShapeInv
  <2>2. Increment(d, o)[cmd.key] \in Nat
    BY <1>1, AmountsNat DEF Increment, Counter, AddIf
  <2>3. Apply(d, o, now).counter[cmd.key] = d.counter[cmd.key] + Increment(d, o)[cmd.key]
    BY <1>1 DEF Apply
  <2>. QED  BY <1>1, <2>1, <2>2, <2>3 DEF Shown
<1>2. CASE cmd.op = "score" /\ cmd.dim \in Dim /\ cmd.side \in Side
  <2>. DEFINE f == d.table[cmd.dim][cmd.side]
              g == Contribution(cmd.dim, cmd.side, o)
  <2>1. \A x \in DOMAIN f : f[x] \in Nat \ {0}
    BY <1>2 DEF TableInv
  <2>2. \A x \in DOMAIN g : g[x] \in Nat \ {0}
    BY <1>2, ContributionShape
  <2>3. Apply(d, o, now).table[cmd.dim][cmd.side] = Plus(f, g)
    BY <1>2 DEF Apply
  <2>. HIDE DEF f, g
  <2>4. At(f, cmd.label) <= At(Plus(f, g), cmd.label)
    BY <2>1, <2>2 DEF At, Plus
  <2>. QED  BY <1>2, <2>3, <2>4 DEF Shown, f
<1>. QED  BY <1>1, <1>2 DEF OneNumber

\* A sequence given place by place.
LEMMA PlacesSeq ==
  ASSUME NEW n \in Nat, NEW s, DOMAIN s = 1..n, s = [i \in 1..n |-> s[i]]
  PROVE  IsSeq(s) /\ Len(s) = n
<1>. DEFINE S == {s[i] : i \in 1..n}
<1>1. \A i \in 1..n : s[i] \in S
  OBVIOUS
<1>. HIDE DEF S
<1>2. s \in [1..n -> S]
  BY <1>1
<1>3. s \in Seq(S)
  BY <1>2
<1>. QED  BY <1>3 DEF IsSeq

\* A tally asks for single numbers, and counts some of them.
LEMMA AskedOneNumber ==
  ASSUME NEW req \in Request, req.kind \in Tallied
  PROVE  /\ \A now : First(req, now) = Asked(req)
         /\ IsSeq(Asked(req)) /\ Len(Asked(req)) \in Nat
         /\ DOMAIN Asked(req) = 1..Len(Asked(req))
         /\ \A i \in 1..Len(Asked(req)) : OneNumber(Asked(req)[i])
         /\ Places(req) \subseteq 1..Len(Asked(req)) /\ IsFiniteSet(Places(req))
<1>. DEFINE C == Asked(req)
<1>0. ASSUME NEW n \in Nat, DOMAIN C = 1..n, C = [i \in 1..n |-> C[i]],
             \A i \in 1..n : OneNumber(C[i]), Places(req) \subseteq 1..n,
             \A now : First(req, now) = C
      PROVE  /\ \A now : First(req, now) = Asked(req)
             /\ IsSeq(Asked(req)) /\ Len(Asked(req)) \in Nat
             /\ DOMAIN Asked(req) = 1..Len(Asked(req))
             /\ \A i \in 1..Len(Asked(req)) : OneNumber(Asked(req)[i])
             /\ Places(req) \subseteq 1..Len(Asked(req)) /\ IsFiniteSet(Places(req))
  <2>. HIDE DEF C
  <2>0. n \in Nat /\ DOMAIN C = 1..n /\ C = [i \in 1..n |-> C[i]]
    BY <1>0
  <2>1. IsSeq(C) /\ Len(C) = n
    BY ONLY <2>0, PlacesSeq
  <2>2. IsFiniteSet(Places(req))
    <3>1. PICK I : I = 1..n /\ IsFiniteSet(I)
      BY <2>0, FS_Interval
    <3>2. Places(req) \subseteq I
      BY <1>0, <3>1
    <3>. QED  BY <3>1, <3>2, FS_Subset
  <2>3. /\ \A now : First(req, now) = C
        /\ IsSeq(C) /\ Len(C) \in Nat /\ DOMAIN C = 1..Len(C)
        /\ \A i \in 1..Len(C) : OneNumber(C[i])
        /\ Places(req) \subseteq 1..Len(C)
    BY <1>0, <2>1
  <2>. QED  BY <2>2, <2>3 DEF C
<1>1. CASE req.kind = "split"
  <2>1. \A now : First(req, now) = <<Get("ordersNew"), Get("ordersReturning"),
                                     Get("revenueNew"), Get("revenueReturning")>>
    BY <1>1 DEF First, CounterReads
  <2>2. Places(req) = {1, 2}
    BY <1>1 DEF Places
  <2>3. \A k \in {"ordersNew", "ordersReturning", "revenueNew", "revenueReturning"} :
          OneNumber(Get(k))
    BY DEF OneNumber, Get, Counter
  <2>4. PICK a, b, c, e : /\ a = Get("ordersNew") /\ b = Get("ordersReturning")
                          /\ c = Get("revenueNew") /\ e = Get("revenueReturning")
    OBVIOUS
  <2>5. C = <<a, b, c, e>> /\ \A now : First(req, now) = C
    BY <2>1, <2>4 DEF Asked
  <2>6. OneNumber(a) /\ OneNumber(b) /\ OneNumber(c) /\ OneNumber(e)
    BY <2>3, <2>4
  <2>. HIDE DEF C
  <2>7. /\ DOMAIN C = 1..4 /\ C = [i \in 1..4 |-> C[i]]
        /\ C[1] = a /\ C[2] = b /\ C[3] = c /\ C[4] = e
    BY <2>5
  <2>8. \A i \in 1..4 : OneNumber(C[i])
    BY <2>6, <2>7
  <2>9. Places(req) \subseteq 1..4 /\ 4 \in Nat
    BY <2>2
  <2>. QED  BY <1>0, <2>5, <2>7, <2>8, <2>9
<1>2. CASE req.kind = "heat"
  <2>0. req.dim \in {"hour", "day"}
    BY <1>2, RequestAssumption
  <2>. DEFINE n == 2 * HeatLabels(req.dim)
  <2>1. n \in Nat
    BY <2>0, CalendarAssumption DEF HeatLabels
  <2>2. \A now : First(req, now) = HeatReads(req.dim)
    BY <1>2 DEF First
  <2>3. C = HeatReads(req.dim)
    BY <2>2 DEF Asked
  <2>4. DOMAIN C = 1..n /\ C = [i \in 1..n |-> C[i]]
    BY <2>3 DEF HeatReads
  <2>5. \A i \in 1..n : OneNumber(C[i])
    <3>1. req.dim \in Dim /\ "count" \in Side /\ "revenue" \in Side
      BY <2>0 DEF Dim, OrderDim, Side
    <3>2. \A s \in Side : \A x : OneNumber(ZScore(req.dim, s, x))
      BY <3>1 DEF OneNumber, ZScore
    <3>. QED  BY <2>3, <3>1, <3>2 DEF HeatReads
  <2>6. Places(req) \subseteq 1..n
    BY <1>2 DEF Places
  <2>. HIDE DEF C, n
  <2>. QED  BY <1>0, <2>1, <2>2, <2>3, <2>4, <2>5, <2>6
<1>3. CASE req.kind = "histogram"
  <2>0. req.dim \in CountOnly /\ req.dim \in Dim /\ "count" \in Side
    BY <1>3, RequestAssumption DEF CountOnly, Dim, OrderDim, Side
  <2>1. PICK n \in Nat : DOMAIN HistogramLabels(req.dim) = 1..n
    <3>1. DOMAIN ValueLabels = 1..7 /\ DOMAIN CartSizeLabels = 1..6
      BY DEF ValueLabels, CartSizeLabels
    <3>. QED  BY <3>1 DEF HistogramLabels
  <2>2. \A now : First(req, now) = HistogramReads(req.dim)
    BY <1>3 DEF First
  <2>3. C = HistogramReads(req.dim)
    BY <2>2 DEF Asked
  <2>4. DOMAIN C = 1..n /\ C = [i \in 1..n |-> C[i]]
    BY <2>1, <2>3 DEF HistogramReads
  <2>5. \A i \in 1..n : OneNumber(C[i])
    <3>1. \A x : OneNumber(ZScore(req.dim, "count", x))
      BY <2>0 DEF OneNumber, ZScore
    <3>. QED  BY <2>1, <2>3, <3>1 DEF HistogramReads
  <2>6. Places(req) \subseteq 1..n
    BY <1>3, <2>1 DEF Places
  <2>. HIDE DEF C
  <2>. QED  BY <1>0, <2>2, <2>3, <2>4, <2>5, <2>6
<1>. QED  BY <1>1, <1>2, <1>3 DEF Tallied

\* The places of a heatmap that count, and the labels they count.
LEMMA HeatPlaces ==
  ASSUME NEW H \in Nat, NEW P, P = {i \in 1..(2 * H) : i % 2 = 1}
  PROVE  /\ \A i \in P : (i - 1) \div 2 \in 0..(H - 1)
         /\ \A x \in 0..(H - 1) : 2 * x + 1 \in P /\ ((2 * x + 1) - 1) \div 2 = x
         /\ \A i, j \in P : (i - 1) \div 2 = (j - 1) \div 2 => i = j
<1>1. ASSUME NEW i \in P PROVE (i - 1) \div 2 \in 0..(H - 1) /\ i = 2 * ((i - 1) \div 2) + 1
  OBVIOUS
<1>2. ASSUME NEW x \in 0..(H - 1) PROVE 2 * x + 1 \in P /\ ((2 * x + 1) - 1) \div 2 = x
  OBVIOUS
<1>3. \A i, j \in P : (i - 1) \div 2 = (j - 1) \div 2 => i = j
  BY <1>1
<1>. QED  BY <1>1, <1>2, <1>3

\* A histogram counts every label of its dimension once.
LEMMA HistogramPlaces ==
  ASSUME NEW dim \in CountOnly, NEW m, m = HistogramLabels(dim)
  PROVE  /\ \A i \in DOMAIN m : m[i] \in Labels(dim)
         /\ \A x \in Labels(dim) : \E i \in DOMAIN m : m[i] = x
         /\ \A i, j \in DOMAIN m : m[i] = m[j] => i = j
         /\ IsFiniteSet(DOMAIN m)
<1>1. CASE dim = "value"
  <2>1. /\ DOMAIN m = 1..7 /\ m[1] = 0 /\ m[2] = 2500 /\ m[3] = 5000 /\ m[4] = 10000
        /\ m[5] = 25000 /\ m[6] = 50000 /\ m[7] = 100000
    BY <1>1 DEF HistogramLabels, ValueLabels
  <2>2. Labels(dim) = {0, 2500, 5000, 10000, 25000, 50000, 100000}
    BY <1>1 DEF Labels, ValueEnds
  <2>0. PICK n \in Nat : n = 7
    OBVIOUS
  <2>3. 1..7 = {1, 2, 3, 4, 5, 6, 7}
    OBVIOUS
  <2>4. IsFiniteSet(DOMAIN m)
    <3>1. DOMAIN m = 1..n
      BY <2>0, <2>1
    <3>. QED  BY <3>1, FS_Interval
  <2>. QED  BY <2>1, <2>2, <2>3, <2>4
<1>2. CASE dim = "cart"
  <2>1. /\ DOMAIN m = 1..6 /\ m[1] = 1 /\ m[2] = 2 /\ m[3] = 4 /\ m[4] = 6
        /\ m[5] = 11 /\ m[6] = 16
    BY <1>2 DEF HistogramLabels, CartSizeLabels
  <2>2. Labels(dim) = {1, 2, 4, 6, 11, 16}
    BY <1>2 DEF Labels, CartSizeEnds
  <2>0. PICK n \in Nat : n = 6
    OBVIOUS
  <2>3. 1..6 = {1, 2, 3, 4, 5, 6}
    OBVIOUS
  <2>4. IsFiniteSet(DOMAIN m)
    <3>1. DOMAIN m = 1..n
      BY <2>0, <2>1
    <3>. QED  BY <3>1, FS_Interval
  <2>. QED  BY <2>1, <2>2, <2>3, <2>4
<1>. QED  BY <1>1, <1>2 DEF CountOnly

\* What the dataset would answer all at once is the number of orders.
LEMMA ShownSum ==
  ASSUME NEW d, NEW l, ShapeInv(d, l), TableInv(d), TotalsOf(d, l), SplitOf(d, l), LabelInv(d),
         NEW req \in Request, req.kind \in Tallied
  PROVE  Sum([i \in Places(req) |-> Shown(d, Asked(req)[i])], Places(req)) = Len(l)
<1>. DEFINE P == Places(req)
            w == [i \in P |-> Shown(d, Asked(req)[i])]
<1>1. IsFiniteSet(P)
  BY AskedOneNumber
<1>2. ASSUME NEW dim \in TallyDim
      PROVE  /\ Positive(d.table[dim]["count"]) /\ DOMAIN d.table[dim]["count"] \subseteq Labels(dim)
             /\ SumFunction(d.table[dim]["count"]) = Len(l) /\ dim \in Dim
  <2>1. dim \in OrderDim /\ dim \in Dim /\ "count" \in Side
    BY DEF TallyDim, OrderDim, Dim, Side
  <2>2. Positive(d.table[dim]["count"])
    BY <2>1 DEF TableInv, Positive
  <2>3. TableSum(d, dim, "count") = Len(l)
    BY <2>1 DEF TotalsOf
  <2>4. DOMAIN d.table[dim]["count"] \subseteq Labels(dim)
    BY DEF LabelInv
  <2>. QED  BY <2>1, <2>2, <2>3, <2>4 DEF TableSum
<1>3. CASE req.kind = "split"
  <2>1. Asked(req) = <<Get("ordersNew"), Get("ordersReturning"),
                       Get("revenueNew"), Get("revenueReturning")>>
    BY <1>3 DEF Asked, First, CounterReads
  <2>2. P = {1, 2}
    BY <1>3 DEF Places
  <2>3. Asked(req)[1] = Get("ordersNew") /\ Asked(req)[2] = Get("ordersReturning")
    BY <2>1
  <2>4. w[1] = d.counter["ordersNew"] /\ w[2] = d.counter["ordersReturning"]
    BY <2>2, <2>3 DEF Shown, Get
  <2>5. d.counter["ordersNew"] \in Nat /\ d.counter["ordersReturning"] \in Nat
    BY DEF ShapeInv, Counter
  <2>6. d.counter["ordersNew"] + d.counter["ordersReturning"] = Len(l)
    BY DEF SplitOf
  <2>. HIDE DEF w, P
  <2>7. Sum(w, P) = w[1] + w[2]
    BY <2>2, <2>4, <2>5, SumTwo
  <2>8. Sum(w, P) = Len(l)
    BY <2>4, <2>6, <2>7
  <2>. QED  BY <2>8 DEF w, P
<1>4. ASSUME NEW dim \in TallyDim, NEW m,
             \A i \in P : m[i] \in Labels(dim),
             \A x \in Labels(dim) : \E i \in P : m[i] = x,
             \A i, j \in P : m[i] = m[j] => i = j,
             \A i \in P : Asked(req)[i] = ZScore(dim, "count", m[i])
      PROVE  Sum(w, P) = Len(l)
  <2>. DEFINE f == d.table[dim]["count"]
              g == [x \in Labels(dim) |-> At(f, x)]
  <2>1. Positive(f) /\ DOMAIN f \subseteq Labels(dim) /\ SumFunction(f) = Len(l)
    BY <1>2
  <2>2. IsFiniteSet(Labels(dim))
    BY LabelsFinite
  <2>3. ASSUME NEW i \in P PROVE Shown(d, Asked(req)[i]) = g[m[i]]
    <3>1. PICK x : x = m[i] /\ x \in Labels(dim)
      BY <1>4
    <3>2. Shown(d, ZScore(dim, "count", x)) = At(f, x)
      BY DEF Shown, ZScore
    <3>. QED  BY <1>4, <3>1, <3>2
  <2>4. \A i \in P : w[i] = g[m[i]]
    BY <2>3
  <2>. HIDE DEF f
  <2>5. NatValued(g, Labels(dim)) /\ Sum(g, Labels(dim)) = SumFunction(f)
    BY <2>1, <2>2, SumAt
  <2>. HIDE DEF g, w, P
  <2>6. Sum(w, P) = Sum(g, Labels(dim))
    BY <1>1, <1>4, <2>2, <2>4, <2>5, SumReindex
  <2>. QED  BY <2>1, <2>5, <2>6
<1>5. CASE req.kind = "heat"
  <2>1. req.dim \in {"hour", "day"} /\ req.dim \in TallyDim
    BY <1>5, RequestAssumption DEF TallyDim
  <2>2. PICK H \in Nat : H = HeatLabels(req.dim)
    BY <2>1, CalendarAssumption DEF HeatLabels
  <2>3. Labels(req.dim) = 0..(H - 1)
    BY <2>1, <2>2 DEF Labels, HeatLabels
  <2>4. P = {i \in 1..(2 * H) : i % 2 = 1}
    BY <1>5, <2>2 DEF Places
  <2>. DEFINE m == [i \in P |-> (i - 1) \div 2]
  <2>5. Asked(req) = HeatReads(req.dim)
    BY <1>5 DEF Asked, First
  <2>6. \A i \in P : Asked(req)[i] = ZScore(req.dim, "count", m[i])
    BY <2>2, <2>4, <2>5 DEF HeatReads
  <2>0. \A i \in P : m[i] = (i - 1) \div 2
    OBVIOUS
  <2>. HIDE DEF P, w, m
  <2>7. /\ \A i \in P : m[i] \in 0..(H - 1)
        /\ \A x \in 0..(H - 1) : \E i \in P : m[i] = x
        /\ \A i, j \in P : m[i] = m[j] => i = j
    <3>1. /\ \A i \in P : (i - 1) \div 2 \in 0..(H - 1)
          /\ \A x \in 0..(H - 1) : 2 * x + 1 \in P /\ ((2 * x + 1) - 1) \div 2 = x
          /\ \A i, j \in P : (i - 1) \div 2 = (j - 1) \div 2 => i = j
      BY <2>4, HeatPlaces
    <3>2. ASSUME NEW x \in 0..(H - 1) PROVE \E i \in P : m[i] = x
      BY <2>0, <3>1
    <3>. QED  BY <2>0, <3>1, <3>2
  <2>8. Sum(w, P) = Len(l)
    BY <1>4, <2>1, <2>3, <2>6, <2>7
  <2>. QED  BY <2>8 DEF w, P
<1>6. CASE req.kind = "histogram"
  <2>1. req.dim \in CountOnly /\ req.dim \in TallyDim
    BY <1>6, RequestAssumption DEF TallyDim, CountOnly
  <2>2. PICK m : m = HistogramLabels(req.dim)
    OBVIOUS
  <2>3. P = DOMAIN m
    BY <1>6, <2>2 DEF Places
  <2>4. Asked(req) = HistogramReads(req.dim)
    BY <1>6 DEF Asked, First
  <2>5. \A i \in P : Asked(req)[i] = ZScore(req.dim, "count", m[i])
    BY <2>2, <2>3, <2>4 DEF HistogramReads
  <2>. HIDE DEF P, w
  <2>6. /\ \A i \in P : m[i] \in Labels(req.dim)
        /\ \A x \in Labels(req.dim) : \E i \in P : m[i] = x
        /\ \A i, j \in P : m[i] = m[j] => i = j
    BY <2>1, <2>2, <2>3, HistogramPlaces
  <2>8. Sum(w, P) = Len(l)
    BY <1>4, <2>1, <2>5, <2>6
  <2>. QED  BY <2>8 DEF w, P
<1>. QED  BY <1>3, <1>5, <1>6 DEF Tallied

\* Every number lies between what it was when the request came and what it is.
Between(r, d, C, low) ==
  /\ \A i \in 1..Len(C) : low[i] \in Nat /\ low[i] <= Shown(d, C[i])
  /\ \A i \in 1..Len(r.got) :
       r.got[i] \in Nat /\ low[i] <= r.got[i] /\ r.got[i] <= Shown(d, C[i])
  /\ Sum(low, Places(r.req)) = r.start

\* A tally under way on one master with no command lost.
TallyInv ==
  read.req # NoRequest /\ read.req.kind \in Tallied /\ SameMaster /\ ~read.dropped =>
    /\ Plan(read, Asked(read.req))
    /\ \E low : Between(read, data, Asked(read.req), low)

\* It stays so while no number falls.
LEMMA TallyKept ==
  ASSUME RowsInv, TallyInv, UNCHANGED <<read, failovers>>,
         \A cmd : OneNumber(cmd) => /\ Shown(data, cmd) \in Nat /\ Shown(data', cmd) \in Nat
                                    /\ Shown(data, cmd) <= Shown(data', cmd)
  PROVE  TallyInv'
<1>. SUFFICES ASSUME read.req # NoRequest, read.req.kind \in Tallied, SameMaster, ~read.dropped
              PROVE  /\ Plan(read, Asked(read.req))
                     /\ \E low : Between(read, data', Asked(read.req), low)
  BY DEF TallyInv, SameMaster
<1>1. PICK req \in Request : req = read.req
  BY DEF RowsInv
<1>2. PICK C : C = Asked(req)
  OBVIOUS
<1>3. Len(C) \in Nat /\ \A i \in 1..Len(C) : OneNumber(C[i])
  BY <1>1, <1>2, AskedOneNumber
<1>4. Plan(read, C) /\ \E low : Between(read, data, C, low)
  BY <1>1, <1>2 DEF TallyInv
<1>5. PICK low : Between(read, data, C, low)
  BY <1>4
<1>6. ASSUME NEW i \in 1..Len(C)
      PROVE  /\ Shown(data, C[i]) \in Nat /\ Shown(data', C[i]) \in Nat
             /\ Shown(data, C[i]) <= Shown(data', C[i])
  BY <1>3
<1>7. \A i \in 1..Len(C) : low[i] \in Nat /\ low[i] <= Shown(data', C[i])
  <2>. SUFFICES ASSUME NEW i \in 1..Len(C) PROVE low[i] \in Nat /\ low[i] <= Shown(data', C[i])
    OBVIOUS
  <2>1. low[i] \in Nat /\ low[i] <= Shown(data, C[i])
    BY <1>5 DEF Between
  <2>. QED  BY <1>6, <2>1
<1>8. Len(read.got) \in Nat /\ Len(read.got) <= Len(C)
  <2>1. PICK a, b \in Nat : a = Len(read.got) /\ b = Len(read.todo)
    BY <1>4 DEF Plan, IsSeq
  <2>2. PICK n \in Nat : n = Len(C)
    BY <1>3
  <2>3. a + b = n
    BY <1>4, <2>1, <2>2 DEF Plan
  <2>4. a <= n
    BY <2>3
  <2>. QED  BY <2>1, <2>2, <2>4
<1>9. ASSUME NEW i \in 1..Len(read.got)
      PROVE  /\ read.got[i] \in Nat /\ low[i] <= read.got[i]
             /\ read.got[i] <= Shown(data', C[i])
  <2>1. i \in 1..Len(C)
    BY <1>3, <1>8
  <2>2. read.got[i] \in Nat /\ low[i] <= read.got[i] /\ read.got[i] <= Shown(data, C[i])
    BY <1>5 DEF Between
  <2>. QED  BY <1>6, <2>1, <2>2
<1>10. Between(read, data', C, low)
  BY <1>5, <1>7, <1>9 DEF Between
<1>. QED  BY <1>1, <1>2, <1>4, <1>10

\* When the request comes, the numbers are what they are.
LEMMA TallyStart ==
  ASSUME ShapeInv(data, log), TableInv(data), TotalsOf(data, log), SplitOf(data, log),
         LabelInv(data), NEW req \in Request, StartRead(req)
  PROVE  TallyInv'
<1>1. /\ read'.req = req /\ read'.got = <<>> /\ read'.asked = <<>>
      /\ read'.todo = First(req, clock) /\ read'.start = Len(log) /\ data' = data
  BY DEF StartRead, Idle, storeVars
<1>. SUFFICES ASSUME req.kind \in Tallied
              PROVE  /\ Plan(read', Asked(req))
                     /\ \E low : Between(read', data, Asked(req), low)
  BY <1>1 DEF TallyInv
<1>. DEFINE C == Asked(req)
            P == Places(req)
            low == [i \in 1..Len(C) |-> Shown(data, C[i])]
            now == [i \in P |-> Shown(data, C[i])]
<1>2. /\ First(req, clock) = C /\ IsSeq(C) /\ Len(C) \in Nat
      /\ \A i \in 1..Len(C) : OneNumber(C[i])
      /\ P \subseteq 1..Len(C) /\ IsFiniteSet(P)
  BY AskedOneNumber
<1>3. \A i \in 1..Len(C) : Shown(data, C[i]) \in Nat
  BY <1>2, ShownNat
<1>4. Sum(now, P) = Len(log)
  BY ShownSum
<1>5. NatValued(now, P) /\ \A i \in P : now[i] = low[i]
  BY <1>2, <1>3 DEF NatValued
<1>6. \A i \in 1..Len(C) : low[i] \in Nat /\ low[i] <= Shown(data, C[i])
  BY <1>3
<1>. HIDE DEF C, P, low, now
<1>7. Sum(low, P) = Len(log)
  BY <1>2, <1>4, <1>5, SumSame
<1>8. Plan(read', C)
  BY <1>1, <1>2, PlanStart
<1>9. Between(read', data, C, low)
  BY <1>1, <1>6, <1>7 DEF Between, P
<1>. QED  BY <1>8, <1>9 DEF C

\* An answer is what the number is when it is given.
LEMMA TallyAnswer ==
  ASSUME RowsInv, TallyInv, ShapeInv(data, log), TableInv(data), ReadNext
  PROVE  TallyInv'
<1>0. read.req # NoRequest /\ read.todo # <<>> /\ UNCHANGED <<data, failovers>>
  BY DEF ReadNext, Reading, storeVars
<1>1. PICK reply \in Replies(data, Head(read.todo)) : Answer(reply)
  BY DEF ReadNext
<1>2. /\ read'.req = read.req /\ read'.epoch = read.epoch /\ read'.dropped = read.dropped
      /\ read'.start = read.start
      /\ read'.got = Append(read.got, reply)
      /\ read'.asked = Append(read.asked, Head(read.todo))
      /\ read'.todo = Tail(read.todo) \o (IF read.got = <<>>
                                          THEN Follow(read.req, reply) ELSE <<>>)
  BY <1>1 DEF Answer, RowsInv
<1>. SUFFICES ASSUME read.req.kind \in Tallied, SameMaster, ~read.dropped
              PROVE  /\ Plan(read', Asked(read.req))
                     /\ \E low : Between(read', data, Asked(read.req), low)
  BY <1>0, <1>2 DEF TallyInv, SameMaster
<1>3. PICK req \in Request : req = read.req
  BY <1>0 DEF RowsInv
<1>4. PICK C : C = Asked(req)
  OBVIOUS
<1>5. Len(C) \in Nat /\ \A i \in 1..Len(C) : OneNumber(C[i])
  BY <1>3, <1>4, AskedOneNumber
<1>6. Plan(read, C) /\ \E low : Between(read, data, C, low)
  BY <1>0, <1>3, <1>4 DEF TallyInv
<1>7. PICK low : Between(read, data, C, low)
  BY <1>6
<1>8. Follow(read.req, reply) = <<>>
  BY DEF Follow, Tallied
<1>9. read'.todo = Tail(read.todo)
  <2>1. PICK T : read.todo \in Seq(T)
    BY <1>6 DEF Plan, IsSeq
  <2>2. Tail(read.todo) \o <<>> = Tail(read.todo)
    BY <1>0, <2>1
  <2>. QED  BY <1>2, <1>8, <2>2
<1>10. PICK q : q = read'
  OBVIOUS
<1>11. PICK k : /\ k = Len(q.got) /\ Plan(q, C) /\ k \in 1..Len(C)
                /\ Len(read.got) \in Nat /\ k = Len(read.got) + 1
                /\ Head(read.todo) = C[k] /\ q.got[k] = reply
                /\ \A i \in 1..Len(read.got) : q.got[i] = read.got[i]
  <2>1. Advances(read, q, reply) /\ Plan(read, C) /\ Len(C) \in Nat
    BY <1>0, <1>2, <1>5, <1>6, <1>9, <1>10 DEF Advances
  <2>2. /\ Plan(q, C)
        /\ Len(read.got) \in Nat /\ Len(q.got) = Len(read.got) + 1 /\ Len(q.got) \in 1..Len(C)
        /\ Head(read.todo) = C[Len(q.got)] /\ q.got[Len(q.got)] = reply
        /\ \A i \in 1..Len(read.got) : q.got[i] = read.got[i]
    BY <2>1, PlanAnswer
  <2>3. PICK k : k = Len(q.got)
    OBVIOUS
  <2>. QED  BY <2>2, <2>3
<1>12. reply = Shown(data, C[k]) /\ Shown(data, C[k]) \in Nat
  BY <1>1, <1>5, <1>11, ShownIsAnswered, ShownNat
<1>13. ASSUME NEW i \in 1..k
       PROVE  /\ q.got[i] \in Nat /\ low[i] <= q.got[i]
              /\ q.got[i] <= Shown(data, C[i])
  <2>1. CASE i = k
    <3>1. low[k] \in Nat /\ low[k] <= Shown(data, C[k])
      BY <1>7, <1>11 DEF Between
    <3>. QED  BY <1>11, <1>12, <2>1, <3>1
  <2>2. CASE i # k
    <3>1. i \in 1..Len(read.got)
      BY <1>11, <2>2
    <3>. QED  BY <1>7, <1>11, <3>1 DEF Between
  <2>. QED  BY <2>1, <2>2
<1>14. Between(q, data, C, low)
  BY <1>2, <1>7, <1>10, <1>11, <1>13 DEF Between
<1>. QED  BY <1>3, <1>4, <1>10, <1>11, <1>14

\* Every answer of a tally lies between what the number was when the request came
\* and what it is now.
THEOREM TallyInductive == Spec => []TallyInv
<1>. DEFINE Labelled == LabelInv(data) /\ LabelInv(replica)
<1>1. Init => TallyInv
  <2>1. Init => read.req = NoRequest
    BY DEF Init, Idle
  <2>. QED  BY <2>1 DEF TallyInv
<1>2. IInv /\ ReadInv /\ SumInv /\ Labelled /\ TallyInv /\ [Next]_vars => TallyInv'
  <2>. SUFFICES ASSUME IInv, ReadInv, SumInv, LabelInv(data), TallyInv, [Next]_vars
                PROVE  TallyInv'
    OBVIOUS
  <2>0. /\ ShapeInv(data, log) /\ SplitOf(data, log) /\ TotalsOf(data, log)
        /\ TableInv(data) /\ RowsInv /\ failovers \in Nat
    BY DEF SumInv, SumsInv, TotalsInv, IInv, DataInv, ReadInv
  <2>1. ASSUME UNCHANGED <<read, failovers>>,
               \A cmd : OneNumber(cmd) => Shown(data', cmd) = Shown(data, cmd)
        PROVE  TallyInv'
    <3>1. \A cmd : OneNumber(cmd) => Shown(data, cmd) \in Nat
      BY <2>0, ShownNat
    <3>2. \A n \in Nat : n <= n
      OBVIOUS
    <3>3. \A cmd : OneNumber(cmd) => /\ Shown(data, cmd) \in Nat /\ Shown(data', cmd) \in Nat
                                     /\ Shown(data, cmd) <= Shown(data', cmd)
      BY <2>1, <3>1, <3>2
    <3>. QED  BY <2>0, <2>1, <3>3, TallyKept
  <2>2. ASSUME NEW o \in Order, ApplyOrder(o) PROVE TallyInv'
    <3>1. data' = Apply(data, o, clock) /\ UNCHANGED <<read, failovers>>
      BY <2>2 DEF ApplyOrder
    <3>2. ASSUME NEW cmd, OneNumber(cmd)
          PROVE  /\ Shown(data, cmd) \in Nat /\ Shown(data', cmd) \in Nat
                 /\ Shown(data, cmd) <= Shown(data', cmd)
      <4>1. Shown(data, cmd) \in Nat /\ Shown(data, cmd) <= Shown(data', cmd)
        BY <2>0, <3>1, <3>2, ShownNat, ShownGrows
      <4>2. Shown(data', cmd) \in Nat
        <5>1. TableInv(data')
          BY <2>0, <3>1, ApplyTables
        <5>2. data'.counter \in [Counter -> Nat]
          BY <2>0, <3>1, ApplyCounters
        <5>3. CASE cmd.op = "get" /\ cmd.key \in Counter
          BY <5>2, <5>3 DEF Shown
        <5>4. CASE cmd.op = "score" /\ cmd.dim \in Dim /\ cmd.side \in Side
          BY <5>1, <5>4 DEF TableInv, Shown, At
        <5>. QED  BY <3>2, <5>3, <5>4 DEF OneNumber
      <4>. QED  BY <4>1, <4>2
    <3>. QED  BY <2>0, <3>1, <3>2, TallyKept
  <2>3. CASE Failover
    <3>1. failovers' = failovers + 1 /\ read' = read
      BY <2>3 DEF Failover
    <3>2. read.req # NoRequest => read.epoch \in Nat /\ read.epoch <= failovers
      BY <2>0 DEF RowsInv
    <3>3. read'.req # NoRequest => ~SameMaster'
      BY <2>0, <3>1, <3>2 DEF SameMaster
    <3>. QED  BY <3>3 DEF TallyInv
  <2>4. ASSUME NEW h \in Hour, Expire(h) \/ Evict(h) PROVE TallyInv'
    <3>1. /\ data'.table = data.table /\ data'.counter = data.counter
          /\ UNCHANGED <<read, failovers>>
      <4>1. DOMAIN data = Field
        BY <2>0 DEF TableInv
      <4>2. CASE Expire(h)
        BY <4>1, <4>2 DEF Expire, DropHour, Field
      <4>3. CASE Evict(h)
        BY <4>1, <4>3 DEF Evict, LoseHour, DropHour, Field
      <4>. QED  BY <2>4, <4>2, <4>3
    <3>. QED  BY <2>1, <3>1 DEF Shown
  <2>5. CASE Replicate \/ Tick \/ UNCHANGED vars
    <3>1. UNCHANGED <<data, read, failovers>>
      BY <2>5 DEF Replicate, Tick, storeVars, vars
    <3>. QED  BY <2>1, <3>1
  <2>6. ASSUME NEW req \in Request, StartRead(req) PROVE TallyInv'
    BY <2>0, <2>6, TallyStart
  <2>7. CASE ReadNext
    BY <2>0, <2>7, TallyAnswer
  <2>8. ASSUME read' = Close(read) PROVE TallyInv'
    <3>1. read'.req = NoRequest
      BY <2>8 DEF Close, Idle
    <3>. QED  BY <3>1 DEF TallyInv
  <2>9. CASE ReadFails
    <3>1. CASE ErrorDropped
      <4>1. read'.dropped = TRUE
        BY <2>0, <2>9, <3>1 DEF ReadFails, RowsInv
      <4>. QED  BY <4>1 DEF TallyInv
    <3>. QED  BY <2>8, <2>9, <3>1 DEF ReadFails
  <2>10. CASE Respond
    BY <2>8, <2>10 DEF Respond
  <2>. QED
    BY <2>2, <2>3, <2>4, <2>5, <2>6, <2>7, <2>9, <2>10 DEF Next, Step
<1>. QED
  BY <1>1, <1>2, InductiveInv, ReadsInductive, SumsInductive, LabelsInductive, PTL DEF Spec

\* Every command of a tally that counts is asked once, so the response adds up
\* the answers at the counting places.
LEMMA CountedSum ==
  ASSUME NEW req \in Request, req = read.req, req.kind \in Tallied,
         Plan(read, Asked(req)), Len(read.got) = Len(Asked(req)),
         \A i \in 1..Len(read.got) : read.got[i] \in Nat
  PROVE  Counted = Sum(read.got, Places(req))
<1>. DEFINE C == Asked(req)
            P == Places(req)
<1>1. /\ IsSeq(C) /\ Len(C) \in Nat /\ DOMAIN C = 1..Len(C)
      /\ P \subseteq 1..Len(C) /\ IsFiniteSet(P)
  BY AskedOneNumber
<1>2. /\ DOMAIN read.got = 1..Len(C) /\ DOMAIN read.asked = 1..Len(C)
      /\ \A i \in 1..Len(C) : read.asked[i] = C[i]
      /\ \A i \in P : read.got[i] \in Nat
  BY <1>1 DEF Plan, IsSeq
<1>3. ASSUME NEW cmd, NEW i \in 1..Len(C), C[i] = cmd,
             \A j \in 1..Len(C) : C[j] = cmd => j = i
      PROVE  AnswerTo(cmd) = read.got[i]
  <2>1. (CHOOSE j \in DOMAIN read.asked : read.asked[j] = cmd) = i
    BY <1>2, <1>3
  <2>. QED  BY <2>1 DEF AnswerTo
<1>4. CASE req.kind = "split"
  <2>1. C = <<Get("ordersNew"), Get("ordersReturning"),
              Get("revenueNew"), Get("revenueReturning")>> /\ P = {1, 2}
    BY <1>4 DEF Asked, First, CounterReads, Places
  <2>2. /\ C[1] = Get("ordersNew") /\ C[2] = Get("ordersReturning")
        /\ C[3] = Get("revenueNew") /\ C[4] = Get("revenueReturning")
        /\ DOMAIN C = {1, 2, 3, 4}
    BY <2>1
  <2>. HIDE DEF C
  <2>3. \A i, j \in 1..Len(C) : C[j] = C[i] => j = i
    <3>1. /\ C[1].key = "ordersNew" /\ C[2].key = "ordersReturning"
          /\ C[3].key = "revenueNew" /\ C[4].key = "revenueReturning"
      BY <2>2 DEF Get
    <3>2. \A i \in 1..Len(C) : i = 1 \/ i = 2 \/ i = 3 \/ i = 4
      BY <1>1, <2>2
    <3>. QED  BY <3>1, <3>2
  <2>4. 1 \in 1..Len(C) /\ 2 \in 1..Len(C)
    BY <1>1, <2>2
  <2>5. AnswerTo(Get("ordersNew")) = read.got[1] /\ AnswerTo(Get("ordersReturning")) = read.got[2]
    BY <1>3, <2>2, <2>3, <2>4
  <2>6. Counted = read.got[1] + read.got[2]
    BY <1>4, <2>5 DEF Counted
  <2>. QED  BY <1>2, <2>1, <2>6, SumTwo
<1>5. CASE req.kind = "heat"
  <2>1. PICK H \in Nat : H = HeatLabels(req.dim)
    BY <1>5, RequestAssumption, CalendarAssumption DEF HeatLabels
  <2>2. P = {i \in 1..(2 * H) : i % 2 = 1}
    BY <1>5, <2>1 DEF Places
  <2>3. C = HeatReads(req.dim)
    BY <1>5 DEF Asked, First
  <2>4. /\ DOMAIN C = 1..(2 * H)
        /\ \A i \in 1..(2 * H) :
             C[i] = ZScore(req.dim, IF i % 2 = 1 THEN "count" ELSE "revenue", (i - 1) \div 2)
    BY <2>1, <2>3 DEF HeatReads
  <2>. HIDE DEF C, P
  <2>5. /\ \A i \in P : (i - 1) \div 2 \in 0..(H - 1)
        /\ \A x \in 0..(H - 1) : 2 * x + 1 \in P /\ ((2 * x + 1) - 1) \div 2 = x
        /\ \A i, j \in P : (i - 1) \div 2 = (j - 1) \div 2 => i = j
    BY <2>2, HeatPlaces
  <2>6. ASSUME NEW x \in 0..(H - 1), NEW i \in P, (i - 1) \div 2 = x
        PROVE  AnswerTo(ZScore(req.dim, "count", x)) = read.got[i]
    <3>1. i \in 1..(2 * H) /\ i \in 1..Len(C) /\ i % 2 = 1
      BY <1>1, <2>2
    <3>2. C[i] = ZScore(req.dim, "count", x)
      BY <2>4, <2>6, <3>1
    <3>3. ASSUME NEW j \in 1..Len(C), C[j] = ZScore(req.dim, "count", x) PROVE j = i
      <4>1. j \in 1..(2 * H)
        BY <1>1, <2>4
      <4>2. ZScore(req.dim, IF j % 2 = 1 THEN "count" ELSE "revenue", (j - 1) \div 2)
              = ZScore(req.dim, "count", x)
        BY <2>4, <3>3, <4>1
      <4>3. (IF j % 2 = 1 THEN "count" ELSE "revenue") = "count" /\ (j - 1) \div 2 = x
        BY <4>2 DEF ZScore
      <4>4. j \in P
        BY <2>2, <4>1, <4>3
      <4>. QED  BY <2>5, <2>6, <4>3, <4>4
    <3>. QED  BY <1>3, <3>1, <3>2, <3>3
  <2>. DEFINE g == [x \in 0..(H - 1) |-> AnswerTo(ZScore(req.dim, "count", x))]
              m == [i \in P |-> (i - 1) \div 2]
  <2>7. \A i \in P : m[i] = (i - 1) \div 2 /\ m[i] \in 0..(H - 1)
    BY <2>5
  <2>8. ASSUME NEW i \in P PROVE read.got[i] = g[m[i]]
    BY <2>6, <2>7
  <2>9. ASSUME NEW x \in 0..(H - 1) PROVE g[x] \in Nat /\ \E i \in P : m[i] = x
    <3>1. 2 * x + 1 \in P /\ ((2 * x + 1) - 1) \div 2 = x
      BY <2>5
    <3>2. g[x] = read.got[2 * x + 1]
      BY <2>6, <3>1
    <3>. QED  BY <1>2, <2>7, <3>1, <3>2
  <2>10. Counted = SumFunction(g) /\ SumFunction(g) = Sum(g, 0..(H - 1))
    BY <1>5, <2>1 DEF Counted, SumFunction, Sum
  <2>11. \A i, j \in P : m[i] = m[j] => i = j
    BY <2>5, <2>7
  <2>12. IsFiniteSet(0..(H - 1)) /\ NatValued(g, 0..(H - 1))
    BY <2>9, FS_Interval DEF NatValued
  <2>. HIDE DEF g, m
  <2>13. Sum(read.got, P) = Sum(g, 0..(H - 1))
    <3>1. PICK L : L = 0..(H - 1)
      OBVIOUS
    <3>2. \A i \in P : m[i] \in L
      BY <2>7, <3>1
    <3>3. \A x \in L : \E i \in P : m[i] = x
      BY <2>9, <3>1
    <3>4. IsFiniteSet(P) /\ IsFiniteSet(L) /\ NatValued(g, L)
      BY <1>1, <2>12, <3>1
    <3>5. \A i \in P : read.got[i] = g[m[i]]
      BY <2>8
    <3>6. Sum(read.got, P) = Sum(g, L)
      BY <2>11, <3>2, <3>3, <3>4, <3>5, SumReindex
    <3>. QED  BY <3>1, <3>6
  <2>. QED  BY <2>10, <2>13 DEF P
<1>6. CASE req.kind = "histogram"
  <2>1. C = HistogramReads(req.dim) /\ P = DOMAIN HistogramLabels(req.dim)
    BY <1>6 DEF Asked, First, Places
  <2>2. DOMAIN C = P
    BY <2>1 DEF HistogramReads
  <2>3. DOMAIN read.got = P
    BY <1>1, <1>2, <2>2
  <2>4. Counted = SumFunction(read.got)
    BY <1>6 DEF Counted
  <2>. HIDE DEF P
  <2>5. SumFunction(read.got) = Sum(read.got, P)
    BY <2>3 DEF SumFunction, Sum
  <2>. QED  BY <2>4, <2>5 DEF P
<1>. QED  BY <1>4, <1>5, <1>6 DEF Tallied

\* The numbers of a split, a histogram or a heatmap, read one after the other with
\* any orders applied in between (store.go, NewVsReturningSplit,
\* ValueDistribution, CartSizeDistribution, HourOfDay and DayOfWeek).
LEMMA TalliesWithinReads ==
  Spec => [](read.req.kind \in Tallied => TotalsWithinReads)
<1>. DEFINE Labelled == LabelInv(data) /\ LabelInv(replica)
<1>1. IInv /\ ReadInv /\ SumInv /\ Labelled /\ TallyInv =>
        (read.req.kind \in Tallied => TotalsWithinReads)
  <2>. SUFFICES ASSUME IInv, ReadInv, SumInv, LabelInv(data), TallyInv, read.req.kind \in Tallied,
                       Served, SameMaster, ~read.dropped
                PROVE  read.start <= Counted /\ Counted <= Len(log)
    BY DEF TotalsWithinReads, Tallied
  <2>1. PICK req \in Request : req = read.req
    BY DEF ReadInv, RowsInv, Served
  <2>. DEFINE C == Asked(req)
              P == Places(req)
              now == [i \in P |-> Shown(data, C[i])]
  <2>2. Plan(read, C) /\ \E low : Between(read, data, C, low)
    BY <2>1 DEF TallyInv, Served
  <2>3. PICK low : Between(read, data, C, low)
    BY <2>2
  <2>4. /\ Len(C) \in Nat /\ \A i \in 1..Len(C) : OneNumber(C[i])
        /\ P \subseteq 1..Len(C) /\ IsFiniteSet(P)
    BY <2>1, AskedOneNumber
  <2>5. Len(read.got) = Len(C)
    <3>1. read.todo = <<>>
      BY DEF Served
    <3>2. PICK k \in Nat : k = Len(read.got)
      BY <2>2 DEF Plan, IsSeq
    <3>3. k + 0 = Len(C)
      BY <2>2, <3>1, <3>2 DEF Plan
    <3>. QED  BY <3>2, <3>3
  <2>6. \A i \in 1..Len(C) : /\ low[i] \in Nat /\ read.got[i] \in Nat
                             /\ low[i] <= read.got[i] /\ read.got[i] <= Shown(data, C[i])
    BY <2>3, <2>5 DEF Between
  <2>7. Counted = Sum(read.got, P)
    BY <2>1, <2>2, <2>5, <2>6, CountedSum
  <2>8. ShapeInv(data, log) /\ TableInv(data) /\ TotalsOf(data, log) /\ SplitOf(data, log)
    BY DEF SumInv, SumsInv, TotalsInv, IInv, DataInv, ReadInv
  <2>9. Sum(now, P) = Len(log)
    BY <2>1, <2>8, ShownSum
  <2>10. \A i \in P : /\ low[i] \in Nat /\ read.got[i] \in Nat /\ now[i] \in Nat
                      /\ low[i] <= read.got[i] /\ read.got[i] <= now[i]
    <3>1. \A i \in P : Shown(data, C[i]) \in Nat
      BY <2>4, <2>8, ShownNat
    <3>. QED  BY <2>4, <2>6, <3>1
  <2>11. Sum(low, P) = read.start
    BY <2>1, <2>3 DEF Between
  <2>. HIDE DEF P, C, now
  <2>12. Sum(low, P) <= Sum(read.got, P) /\ Sum(read.got, P) <= Sum(now, P)
    BY <2>4, <2>10, SumMonotone DEF NatValued
  <2>. QED  BY <2>7, <2>9, <2>11, <2>12
<1>. QED
  BY <1>1, InductiveInv, ReadsInductive, SumsInductive, LabelsInductive, TallyInductive, PTL

-------------------------------------------------------------------------------
(* Timeseries.  A bucket never holds more orders than were created in its   *)
(* hour, and all of them as long as the hour is in the window and nobody    *)
(* evicts it.                                                               *)

LEMMA Ones ==
  ASSUME NEW S, IsFiniteSet(S), NEW g, \A x \in S : g[x] = 1
  PROVE  Sum(g, S) = Cardinality(S)
<1>. DEFINE C == {T \in SUBSET S : Sum(g, T) = Cardinality(T)}
<1>1. {} \in C
  BY SumEmpty, FS_EmptySet
<1>2. ASSUME NEW T \in SUBSET S, NEW x \in S \ T, T \in C PROVE T \cup {x} \in C
  <2>1. IsFiniteSet(T) /\ Cardinality(T) \in Nat
    BY FS_Subset, FS_CardinalityType
  <2>2. NatValued(g, T \cup {x})
    BY DEF NatValued
  <2>3. Sum(g, T \cup {x}) = 1 + Sum(g, T)
    BY <2>1, <2>2, SumInsert
  <2>4. Cardinality(T \cup {x}) = Cardinality(T) + 1
    BY <2>1, FS_AddElement
  <2>5. Sum(g, T) = Cardinality(T)
    BY <1>2
  <2>. QED  BY <2>1, <2>3, <2>4, <2>5
<1>. HIDE DEF C
<1>3. S \in C
  BY <1>1, <1>2, PartInduction
<1>. QED  BY <1>3 DEF C

\* The buckets of n hours in a row hold each order of the history at most once.
LEMMA BucketSum ==
  ASSUME NEW l \in Seq(Order), NEW base \in Int, NEW n \in Nat
  PROVE  LET f == [x \in 1..n |-> OrdersOf(base + x, l)] IN
         /\ NatValued(f, 1..n) /\ Sum(f, 1..n) <= Len(l)
         /\ (\A j \in 1..Len(l) : l[j].created - base \in 1..n) => Sum(f, 1..n) = Len(l)
<1>. DEFINE D == {j \in 1..Len(l) : l[j].created - base \in 1..n}
            w == [j \in D |-> 1]
            lab == [j \in D |-> l[j].created - base]
            L == 1..n
            f == [x \in L |-> OrdersOf(base + x, l)]
            g == [x \in L |-> Sum(w, {j \in D : lab[j] = x})]
<1>0. /\ DOMAIN l = 1..Len(l) /\ Len(l) \in Nat
      /\ \A j \in 1..Len(l) : l[j] \in Order /\ l[j].created \in Nat
  BY OrderNumbers
<1>1. IsFiniteSet(1..Len(l)) /\ Cardinality(1..Len(l)) = Len(l) /\ IsFiniteSet(L)
  <2>1. PICK m \in Nat : m = Len(l)
    BY <1>0
  <2>2. /\ IsFiniteSet(1..m) /\ IsFiniteSet(1..n)
        /\ Cardinality(1..m) = IF 1 > m THEN 0 ELSE m - 1 + 1
    BY FS_Interval
  <2>3. Cardinality(1..m) = m
    BY <2>2
  <2>. QED  BY <2>1, <2>2, <2>3, SMTT(30)
<1>2. /\ IsFiniteSet(D) /\ Cardinality(D) \in Nat /\ Cardinality(D) <= Len(l)
  BY <1>0, <1>1, FS_Subset, FS_CardinalityType
<1>3. NatValued(w, D) /\ \A j \in D : w[j] = 1 /\ lab[j] \in L
  BY DEF NatValued
<1>4. ASSUME NEW x \in L PROVE g[x] = f[x] /\ f[x] \in Nat
  <2>. DEFINE F == {j \in D : lab[j] = x}
  <2>1. IsFiniteSet(F) /\ \A j \in F : w[j] = 1
    BY <1>2, <1>3, FS_Subset
  <2>2. F = {j \in DOMAIN l : l[j].created = base + x}
    <3>1. ASSUME NEW j \in DOMAIN l
          PROVE  j \in F <=> l[j].created = base + x
      <4>1. PICK c \in Nat : c = l[j].created
        BY <1>0
      <4>2. x \in Int /\ (c - base = x <=> c = base + x)
        OBVIOUS
      <4>3. j \in F <=> j \in D /\ c - base = x
        BY <4>1
      <4>. QED  BY <1>0, <4>1, <4>2, <4>3
    <3>2. F \subseteq DOMAIN l
      BY <1>0
    <3>. QED  BY <3>1, <3>2
  <2>. HIDE DEF F, w
  <2>3. Sum(w, F) = Cardinality(F)
    BY <2>1, Ones
  <2>4. f[x] = Cardinality(F)
    BY <2>2 DEF OrdersOf
  <2>5. g[x] = Sum(w, F)
    BY DEF F
  <2>. QED  BY <2>1, <2>3, <2>4, <2>5, FS_CardinalityType
<1>. HIDE DEF w, lab, D, f
<1>5. Sum(g, L) = Sum(w, D)
  BY <1>1, <1>2, <1>3, SumFibers, SMTT(30)
<1>6. Sum(w, D) = Cardinality(D)
  BY <1>2, <1>3, Ones
<1>. HIDE DEF g
<1>7. NatValued(f, L) /\ NatValued(g, L) /\ \A x \in L : f[x] = g[x]
  BY <1>4 DEF NatValued
<1>8. Sum(f, L) = Sum(g, L)
  BY <1>1, <1>7, SumSame
<1>9. ASSUME \A j \in 1..Len(l) : l[j].created - base \in 1..n
      PROVE  Cardinality(D) = Len(l)
  <2>1. D = 1..Len(l)
    BY <1>9 DEF D
  <2>. QED  BY <1>1, <2>1
<1>. QED  BY <1>2, <1>5, <1>6, <1>7, <1>8, <1>9 DEF f

\* A prefix of the history has no more orders of an hour.
LEMMA OrdersOfPrefix ==
  ASSUME NEW l \in Seq(Order), NEW n \in 0..Len(l), NEW h
  PROVE  /\ OrdersOf(h, SubSeq(l, 1, n)) \in Nat /\ OrdersOf(h, l) \in Nat
         /\ OrdersOf(h, SubSeq(l, 1, n)) <= OrdersOf(h, l)
         /\ SubSeq(l, 1, n) \in Seq(Order) /\ Len(SubSeq(l, 1, n)) = n
<1>. DEFINE p == SubSeq(l, 1, n)
            S == {i \in DOMAIN l : l[i].created = h}
            T == {i \in DOMAIN p : p[i].created = h}
<1>1. /\ p \in Seq(Order) /\ Len(p) = n /\ DOMAIN p = 1..n /\ \A i \in 1..n : p[i] = l[i]
      /\ DOMAIN l = 1..Len(l) /\ Len(l) \in Nat /\ 1..n \subseteq 1..Len(l)
  OBVIOUS
<1>. HIDE DEF p
<1>2. IsFiniteSet(S)
  <2>1. S \subseteq 1..Len(l)
    BY <1>1
  <2>2. IsFiniteSet(1..Len(l))
    BY <1>1, FS_Interval
  <2>. QED  BY <2>1, <2>2, FS_Subset
<1>3. T \subseteq S
  BY <1>1
<1>. HIDE DEF S, T
<1>4. Cardinality(T) \in Nat /\ Cardinality(S) \in Nat /\ Cardinality(T) <= Cardinality(S)
  BY <1>2, <1>3, FS_Subset, FS_CardinalityType
<1>. QED  BY <1>1, <1>4 DEF OrdersOf, S, T, p

\* The window: the last MaxHours hours.
LEMMA WindowHours ==
  ASSUME NEW now \in Nat, NEW h \in Int
  PROVE  InWindow(h, now) <=> now - MaxHours < h /\ h <= now
<1>1. MaxHours \in Nat
  BY WindowAssumption
<1>2. /\ DOMAIN Window(now, MaxHours) = 1..MaxHours
      /\ \A i \in 1..MaxHours : Window(now, MaxHours)[i] = now - MaxHours + i
  BY <1>1 DEF Window
<1>3. ASSUME now - MaxHours < h, h <= now PROVE InWindow(h, now)
  <2>1. h - now + MaxHours \in 1..MaxHours /\ h = now - MaxHours + (h - now + MaxHours)
    BY <1>1, <1>3
  <2>. QED  BY <1>2, <2>1 DEF InWindow
<1>4. ASSUME InWindow(h, now) PROVE now - MaxHours < h /\ h <= now
  <2>1. PICK i \in 1..MaxHours : h = now - MaxHours + i
    BY <1>2, <1>4 DEF InWindow
  <2>. QED  BY <1>1, <2>1
<1>. QED  BY <1>3, <1>4

\* The commands of a timeseries asked for at hour now: one per bucket, oldest first.
LEMMA SeriesAsks ==
  ASSUME NEW req \in Request, req.kind = "timeseries", NEW now \in Nat
  PROVE  LET C == HourReads(now, req.hours) IN
         /\ IsSeq(C) /\ Len(C) \in Nat /\ Len(C) <= MaxHours
         /\ First(req, now) = C
         /\ \A i \in 1..Len(C) : C[i] = HGetAll(now - Len(C) + i)
         /\ Len(C) = IF req.hours > MaxHours THEN MaxHours ELSE req.hours
<1>1. req.hours \in Nat \ {0} /\ MaxHours \in Nat
  BY RequestAssumption, WindowAssumption
<1>2. PICK n \in Nat : n = IF req.hours > MaxHours THEN MaxHours ELSE req.hours
  BY <1>1
<1>3. n <= MaxHours
  BY <1>1, <1>2
<1>4. /\ DOMAIN Window(now, req.hours) = 1..n
      /\ \A i \in 1..n : Window(now, req.hours)[i] = now - n + i
  BY <1>2 DEF Window
<1>5. PICK C : C = HourReads(now, req.hours)
  OBVIOUS
<1>6. C = [i \in 1..n |-> HGetAll(now - n + i)]
  BY <1>4, <1>5 DEF HourReads
<1>7. C \in Seq({HGetAll(now - n + i) : i \in 1..n}) /\ Len(C) = n
  <2>. DEFINE S == {HGetAll(now - n + i) : i \in 1..n}
  <2>1. \A i \in 1..n : HGetAll(now - n + i) \in S
    OBVIOUS
  <2>. HIDE DEF S
  <2>2. [i \in 1..n |-> HGetAll(now - n + i)] \in Seq(S)
    BY <2>1
  <2>3. Len(C) = n
    BY <1>6
  <2>. QED  BY <1>6, <2>2, <2>3 DEF S
<1>8. First(req, now) = C
  BY <1>5 DEF First
<1>. QED  BY <1>2, <1>3, <1>5, <1>6, <1>7, <1>8 DEF IsSeq

\* No order is applied before its hour.
Past(l, n, now) == \A j \in 1..n : l[j].created <= now

PastInv == Past(log, Len(log), clock) /\ Past(rlog, Len(rlog), clock)

\* An order is stamped when it is written and applied afterwards (writer.go).
THEOREM PastInductive == Spec => []PastInv
<1>1. Init => PastInv
  BY DEF Init, PastInv, Past
<1>2. IInv /\ PastInv /\ [Next]_vars => PastInv'
  <2>. SUFFICES ASSUME IInv, PastInv, [Next]_vars PROVE PastInv'
    OBVIOUS
  <2>0. log \in Seq(Order) /\ rlog \in Seq(Order) /\ clock \in Nat
    BY DEF IInv, DataInv, ShapeInv
  <2>1. ASSUME NEW o \in Order, ApplyOrder(o) PROVE PastInv'
    <3>1. /\ o.created <= clock /\ log' = Append(log, o)
          /\ UNCHANGED <<rlog, clock>>
      BY <2>1 DEF ApplyOrder
    <3>2. ASSUME NEW j \in 1..Len(log') PROVE log'[j].created <= clock
      <4>1. /\ Len(log') = Len(log) + 1 /\ log'[Len(log) + 1] = o
            /\ \A i \in 1..Len(log) : log'[i] = log[i]
        BY <2>0, <3>1
      <4>. QED  BY <2>0, <3>1, <3>2, <4>1 DEF PastInv, Past
    <3>. QED  BY <3>1, <3>2 DEF PastInv, Past
  <2>2. CASE Tick
    <3>1. clock' = clock + 1 /\ UNCHANGED <<log, rlog>>
      BY <2>2 DEF Tick, storeVars
    <3>2. ASSUME NEW l \in Seq(Order), Past(l, Len(l), clock)
          PROVE  Past(l, Len(l), clock + 1)
      <4>1. \A j \in 1..Len(l) : l[j].created \in Nat
        BY OrderNumbers
      <4>. QED  BY <2>0, <3>2, <4>1 DEF Past
    <3>. QED  BY <2>0, <3>1, <3>2 DEF PastInv
  <2>3. CASE UNCHANGED clock /\ log' \in {log, rlog} /\ rlog' \in {log, rlog}
    BY <2>3 DEF PastInv
  <2>. QED
    BY <2>1, <2>2, <2>3
    DEF Next, Step, Replicate, Failover, Expire, Evict, StartRead, ReadNext, ReadFails, Respond,
        storeVars, vars
<1>. QED  BY <1>1, <1>2, InductiveInv, PTL DEF Spec

\* Every bucket is the bucket of an hour some order was created in.
KnownHours(d) == DOMAIN d.hours \subseteq Hour

\* What the answer for hour h is worth: no more than the orders of that hour and,
\* while the hour is in the window and not lost, no fewer than the first n
\* orders of the history had.
ShowsHour(h, count, n, l, d, now) ==
  /\ count \in Nat
  /\ count <= OrdersOf(h, l)
  /\ InWindow(h, now) /\ h \notin d.lost => OrdersOf(h, SubSeq(l, 1, n)) <= count

\* A timeseries under way on one master: the hours it asks for end with the hour
\* base it began in, and every bucket answered so far is worth that.
Series(base) ==
  LET C == HourReads(base, read.req.hours) IN
  /\ base <= clock /\ Past(log, read.start, base)
  /\ Plan(read, C)
  /\ \A i \in 1..Len(read.got) :
       ShowsHour(C[i].hour, read.got[i].orders, read.start, log, data, clock)

SeriesInv ==
  /\ KnownHours(data) /\ KnownHours(replica)
  /\ read.req # NoRequest /\ read.req.kind = "timeseries" /\ SameMaster =>
       /\ read.start \in 0..Len(log)
       /\ \E base \in Nat : Series(base)

\* A bucket as it is when it is read.
LEMMA HourShows ==
  ASSUME log \in Seq(Order), clock \in Nat, HourInv(data, log, clock), KnownHours(data),
         NEW n \in 0..Len(log), NEW h \in Int
  PROVE  ShowsHour(h, HourOrZero(data, h).orders, n, log, data, clock)
<1>1. /\ OrdersOf(h, SubSeq(log, 1, n)) \in Nat /\ OrdersOf(h, log) \in Nat
      /\ OrdersOf(h, SubSeq(log, 1, n)) <= OrdersOf(h, log)
  BY OrdersOfPrefix
<1>2. CASE h \in Hour
  <2>1. InWindow(h, clock) => clock < h + HourBucketTTL
    BY WindowHours, WindowAssumption, LimitAssumption
  <2>2. /\ HourOrZero(data, h).orders \in Nat
        /\ HourOrZero(data, h).orders <= OrdersOf(h, log)
        /\ h \notin data.lost => \/ HourOrZero(data, h).orders = OrdersOf(h, log)
                                 \/ clock >= h + HourBucketTTL
    BY <1>2 DEF HourInv
  <2>3. InWindow(h, clock) /\ h \notin data.lost =>
          HourOrZero(data, h).orders = OrdersOf(h, log)
    BY <2>1, <2>2, LimitAssumption
  <2>. QED  BY <1>1, <2>2, <2>3 DEF ShowsHour
<1>3. CASE h \notin Hour
  <2>1. HourOrZero(data, h).orders = 0
    BY <1>3 DEF HourOrZero, KnownHours
  <2>2. {i \in DOMAIN SubSeq(log, 1, n) : SubSeq(log, 1, n)[i].created = h} = {}
    <3>1. SubSeq(log, 1, n) \in Seq(Order)
      OBVIOUS
    <3>2. \A i \in DOMAIN SubSeq(log, 1, n) : SubSeq(log, 1, n)[i] \in Order
      BY <3>1
    <3>. QED  BY <1>3, <3>2 DEF Hour
  <2>3. OrdersOf(h, SubSeq(log, 1, n)) = 0
    BY <2>2, FS_EmptySet DEF OrdersOf
  <2>. QED  BY <1>1, <2>1, <2>3 DEF ShowsHour
<1>. QED  BY <1>2, <1>3

\* Orders, time and evictions leave it worth as much.
LEMMA ShownHourStays ==
  ASSUME NEW l \in Seq(Order), NEW m, m = l \/ \E o \in Order : m = Append(l, o),
         NEW now \in Nat, NEW later, later = now \/ later = now + 1,
         NEW d, NEW e, d.lost \subseteq e.lost,
         NEW n \in 0..Len(l), NEW h \in Int, h <= now, NEW count,
         ShowsHour(h, count, n, l, d, now)
  PROVE  ShowsHour(h, count, n, m, e, later)
<1>1. SubSeq(m, 1, n) = SubSeq(l, 1, n)
  BY Prefix
<1>2. OrdersOf(h, l) \in Nat /\ OrdersOf(h, m) \in Nat /\ OrdersOf(h, l) <= OrdersOf(h, m)
  <2>1. OrdersOf(h, l) \in Nat
    BY OrdersOfNat
  <2>2. ASSUME NEW o \in Order, m = Append(l, o)
        PROVE  OrdersOf(h, m) = OrdersOf(h, l) + (IF o.created = h THEN 1 ELSE 0)
    BY <2>2, OrdersOfAppend
  <2>. QED  BY <2>1, <2>2
<1>3. InWindow(h, later) => InWindow(h, now)
  <2>1. later \in Nat /\ now <= later /\ MaxHours \in Nat
    BY WindowAssumption
  <2>2. InWindow(h, later) <=> later - MaxHours < h /\ h <= later
    BY <2>1, WindowHours
  <2>3. InWindow(h, now) <=> now - MaxHours < h /\ h <= now
    BY WindowHours
  <2>4. later - MaxHours < h => now - MaxHours < h
    BY <2>1
  <2>. QED  BY <2>2, <2>3, <2>4
<1>4. /\ count \in Nat /\ count <= OrdersOf(h, l)
      /\ InWindow(h, now) /\ h \notin d.lost => OrdersOf(h, SubSeq(l, 1, n)) <= count
  BY DEF ShowsHour
<1>5. count <= OrdersOf(h, m)
  BY <1>2, <1>4
<1>6. InWindow(h, later) /\ h \notin e.lost => OrdersOf(h, SubSeq(m, 1, n)) <= count
  BY <1>1, <1>3, <1>4
<1>. QED  BY <1>4, <1>5, <1>6 DEF ShowsHour

LEMMA SeriesKept ==
  ASSUME RowsInv, SeriesInv, log \in Seq(Order), clock \in Nat, UNCHANGED <<read, failovers>>,
         log' = log \/ \E o \in Order : log' = Append(log, o),
         data.lost \subseteq data'.lost, clock' = clock \/ clock' = clock + 1,
         KnownHours(data'), KnownHours(replica')
  PROVE  SeriesInv'
<1>. SUFFICES ASSUME read.req # NoRequest, read.req.kind = "timeseries", SameMaster
              PROVE  /\ read.start \in 0..Len(log')
                     /\ \E base \in Nat : Series(base)'
  BY DEF SeriesInv, SameMaster, KnownHours
<1>1. PICK base \in Nat : Series(base)
  BY DEF SeriesInv
<1>2. PICK n \in 0..Len(log) : n = read.start
  BY DEF SeriesInv
<1>3. n \in 0..Len(log')
  BY <1>2, Prefix
<1>4. PICK req \in Request : req = read.req /\ req.kind = "timeseries"
  BY DEF RowsInv
<1>5. PICK C : C = HourReads(base, req.hours)
  OBVIOUS
<1>6. /\ Plan(read, C) /\ base <= clock /\ Past(log, n, base)
      /\ \A i \in 1..Len(read.got) :
           ShowsHour(C[i].hour, read.got[i].orders, n, log, data, clock)
  BY <1>1, <1>2, <1>4, <1>5 DEF Series
<1>7. /\ Len(C) \in Nat /\ \A i \in 1..Len(C) : C[i] = HGetAll(base - Len(C) + i)
  BY <1>4, <1>5, SeriesAsks
<1>8. ASSUME NEW i \in 1..Len(read.got)
      PROVE  ShowsHour(C[i].hour, read.got[i].orders, n, log', data', clock')
  <2>1. i \in 1..Len(C)
    <3>1. PICK a, b \in Nat : a = Len(read.got) /\ b = Len(read.todo)
      BY <1>6 DEF Plan, IsSeq
    <3>2. PICK m \in Nat : m = Len(C)
      BY <1>7
    <3>3. a + b = m
      BY <1>6, <3>1, <3>2 DEF Plan
    <3>4. i \in 1..a
      BY <3>1
    <3>5. i \in 1..m
      BY <3>3, <3>4
    <3>. QED  BY <3>2, <3>5
  <2>2. PICK m \in Nat : m = Len(C) /\ i \in 1..m
    BY <1>7, <2>1
  <2>3. PICK h \in Int : h = base - m + i
    <3>1. base - m + i \in Int
      BY <2>2
    <3>. QED  BY <3>1
  <2>4. C[i].hour = h
    <3>1. C[i] = HGetAll(h)
      BY <1>7, <2>1, <2>2, <2>3
    <3>. QED  BY <3>1 DEF HGetAll
  <2>5. h <= clock
    BY <1>6, <2>2, <2>3
  <2>6. ShowsHour(h, read.got[i].orders, n, log, data, clock)
    BY <1>6, <2>4
  <2>7. ShowsHour(h, read.got[i].orders, n, log', data', clock')
    BY <2>5, <2>6, ShownHourStays
  <2>. QED  BY <2>4, <2>7
<1>9. base <= clock'
  BY <1>6
<1>11. Past(log', n, base)
  <2>1. \A j \in 1..n : log'[j] = log[j]
    OBVIOUS
  <2>. QED  BY <1>6, <2>1 DEF Past
<1>10. Series(base)'
  BY <1>2, <1>4, <1>5, <1>6, <1>8, <1>9, <1>11 DEF Series
<1>. QED  BY <1>2, <1>3, <1>10

LEMMA SeriesStart ==
  ASSUME SeriesInv, PastInv, log \in Seq(Order), clock \in Nat,
         NEW req \in Request, StartRead(req)
  PROVE  SeriesInv'
<1>1. /\ read'.req = req /\ read'.got = <<>> /\ read'.asked = <<>>
      /\ read'.todo = First(req, clock) /\ read'.start = Len(log)
      /\ UNCHANGED <<data, log, replica, clock>>
  BY DEF StartRead, Idle, storeVars
<1>. SUFFICES ASSUME req.kind = "timeseries"
              PROVE  read'.start \in 0..Len(log') /\ Series(clock)'
  BY <1>1 DEF SeriesInv, KnownHours
<1>2. PICK C : C = HourReads(clock, req.hours)
  OBVIOUS
<1>3. IsSeq(C) /\ First(req, clock) = C
  BY <1>2, SeriesAsks
<1>4. Plan(read', C)
  BY <1>1, <1>3, PlanStart
<1>5. 1..Len(read'.got) = {}
  BY <1>1
<1>6. clock <= clock /\ Past(log, Len(log), clock)
  BY DEF PastInv
<1>7. Series(clock)'
  BY <1>1, <1>2, <1>4, <1>5, <1>6 DEF Series
<1>. QED  BY <1>1, <1>7

LEMMA SeriesAnswer ==
  ASSUME RowsInv, SeriesInv, log \in Seq(Order), clock \in Nat, HourInv(data, log, clock),
         ReadNext
  PROVE  SeriesInv'
<1>0. /\ read.req # NoRequest /\ read.todo # <<>>
      /\ UNCHANGED <<data, log, replica, clock, failovers>>
  BY DEF ReadNext, Reading, storeVars
<1>1. PICK reply \in Replies(data, Head(read.todo)) : Answer(reply)
  BY DEF ReadNext
<1>2. /\ read'.req = read.req /\ read'.epoch = read.epoch /\ read'.start = read.start
      /\ read'.got = Append(read.got, reply)
      /\ read'.asked = Append(read.asked, Head(read.todo))
      /\ read'.todo = Tail(read.todo) \o (IF read.got = <<>>
                                          THEN Follow(read.req, reply) ELSE <<>>)
  BY <1>1 DEF Answer, RowsInv
<1>. SUFFICES ASSUME read.req.kind = "timeseries", SameMaster
              PROVE  read.start \in 0..Len(log) /\ \E base \in Nat : Series(base)'
  BY <1>0, <1>2 DEF SeriesInv, SameMaster, KnownHours
<1>3. PICK base \in Nat : Series(base)
  BY <1>0 DEF SeriesInv
<1>4. PICK n \in 0..Len(log) : n = read.start
  BY <1>0 DEF SeriesInv
<1>5. PICK req \in Request : req = read.req /\ req.kind = "timeseries"
  BY <1>0 DEF RowsInv
<1>6. PICK C : C = HourReads(base, req.hours)
  OBVIOUS
<1>7. /\ Plan(read, C) /\ base <= clock /\ Past(log, n, base)
      /\ \A i \in 1..Len(read.got) :
           ShowsHour(C[i].hour, read.got[i].orders, n, log, data, clock)
  BY <1>3, <1>4, <1>5, <1>6 DEF Series
<1>8. Len(C) \in Nat /\ \A i \in 1..Len(C) : C[i] = HGetAll(base - Len(C) + i)
  BY <1>5, <1>6, SeriesAsks
<1>9. read'.todo = Tail(read.todo)
  <2>1. Follow(read.req, reply) = <<>>
    BY DEF Follow
  <2>2. PICK T : read.todo \in Seq(T)
    BY <1>7 DEF Plan, IsSeq
  <2>3. Tail(read.todo) \o <<>> = Tail(read.todo)
    BY <1>0, <2>2
  <2>. QED  BY <1>2, <2>1, <2>3
<1>10. PICK q : q = read'
  OBVIOUS
<1>11. PICK k : /\ k = Len(q.got) /\ Plan(q, C) /\ k \in 1..Len(C)
                /\ Len(read.got) \in Nat /\ k = Len(read.got) + 1
                /\ Head(read.todo) = C[k] /\ q.got[k] = reply
                /\ \A i \in 1..Len(read.got) : q.got[i] = read.got[i]
  <2>0. Plan(read, C) /\ Len(C) \in Nat
    BY <1>7, <1>8
  <2>1. Advances(read, q, reply)
    BY <1>0, <1>2, <1>9, <1>10 DEF Advances
  <2>2. /\ Plan(q, C)
        /\ Len(read.got) \in Nat /\ Len(q.got) = Len(read.got) + 1 /\ Len(q.got) \in 1..Len(C)
        /\ Head(read.todo) = C[Len(q.got)] /\ q.got[Len(q.got)] = reply
        /\ \A i \in 1..Len(read.got) : q.got[i] = read.got[i]
    BY <2>0, <2>1, PlanAnswer
  <2>3. PICK k : k = Len(q.got)
    OBVIOUS
  <2>. QED  BY <2>2, <2>3
<1>12. ShowsHour(C[k].hour, reply.orders, n, log, data, clock)
  <2>1. PICK h \in Int : h = base - Len(C) + k
    <3>1. PICK m \in Nat : m = Len(C) /\ k \in 1..m
      BY <1>8, <1>11
    <3>2. base - m + k \in Int
      BY <3>1
    <3>. QED  BY <3>1, <3>2
  <2>2. C[k] = HGetAll(h)
    BY <1>8, <1>11, <2>1, SMTT(30)
  <2>3. Replies(data, HGetAll(h)) = {HourOrZero(data, h)}
    BY DEF Replies, HGetAll
  <2>4. reply = HourOrZero(data, h)
    BY <1>1, <1>11, <2>2, <2>3
  <2>5. C[k].hour = h
    BY <2>2 DEF HGetAll
  <2>6. KnownHours(data)
    BY DEF SeriesInv
  <2>7. ShowsHour(h, HourOrZero(data, h).orders, n, log, data, clock)
    BY <2>6, HourShows
  <2>. QED  BY <2>4, <2>5, <2>7
<1>13. ASSUME NEW i \in 1..k
       PROVE  ShowsHour(C[i].hour, q.got[i].orders, n, log, data, clock)
  <2>1. CASE i = k
    BY <1>11, <1>12, <2>1
  <2>2. CASE i # k
    <3>1. i \in 1..Len(read.got)
      BY <1>11, <2>2
    <3>. QED  BY <1>7, <1>11, <3>1
  <2>. QED  BY <2>1, <2>2
<1>14. Series(base)'
  BY <1>0, <1>2, <1>4, <1>5, <1>6, <1>7, <1>10, <1>11, <1>13 DEF Series
<1>. QED  BY <1>4, <1>14

\* Every answer of a timeseries is worth the hour it was asked for (store.go,
\* Timeseries).
THEOREM SeriesInductive == Spec => []SeriesInv
<1>1. Init => SeriesInv
  <2>1. Init => read.req = NoRequest
    BY DEF Init, Idle
  <2>2. KnownHours(EmptyData)
    BY DEF KnownHours, EmptyData
  <2>. QED  BY <2>1, <2>2 DEF Init, SeriesInv
<1>2. IInv /\ PastInv /\ ReadInv /\ SeriesInv /\ [Next]_vars => SeriesInv'
  <2>. SUFFICES ASSUME IInv, PastInv, ReadInv, SeriesInv, [Next]_vars PROVE SeriesInv'
    OBVIOUS
  <2>0. /\ log \in Seq(Order) /\ clock \in Nat /\ HourInv(data, log, clock)
        /\ DOMAIN data = Field /\ RowsInv /\ failovers \in Nat
        /\ KnownHours(data) /\ KnownHours(replica)
    BY DEF IInv, DataInv, ShapeInv, ReadInv, SeriesInv
  <2>1. ASSUME NEW o \in Order, ApplyOrder(o) PROVE SeriesInv'
    <3>1. /\ UNCHANGED <<read, failovers, clock, replica>>
          /\ log' = Append(log, o) /\ data' = Apply(data, o, clock)
      BY <2>1 DEF ApplyOrder
    <3>2. data'.lost = data.lost /\ DOMAIN data'.hours = DOMAIN data.hours \cup {o.created}
      BY <3>1 DEF Apply, AddHour
    <3>3. KnownHours(data')
      BY <2>0, <3>2 DEF KnownHours, Hour
    <3>. QED  BY <2>0, <3>1, <3>2, <3>3, SeriesKept
  <2>2. ASSUME NEW h \in Hour, Expire(h) \/ Evict(h) PROVE SeriesInv'
    <3>1. UNCHANGED <<read, failovers, clock, log, replica>>
      BY <2>2 DEF Expire, Evict
    <3>2. data.lost \subseteq data'.lost /\ DOMAIN data'.hours \subseteq DOMAIN data.hours
      <4>1. CASE Expire(h)
        BY <2>0, <4>1 DEF Expire, DropHour, Field, Restrict
      <4>2. CASE Evict(h)
        BY <2>0, <4>2 DEF Evict, LoseHour, DropHour, Field, Restrict
      <4>. QED  BY <2>2, <4>1, <4>2
    <3>3. KnownHours(data')
      BY <2>0, <3>2 DEF KnownHours
    <3>. QED  BY <2>0, <3>1, <3>2, <3>3, SeriesKept
  <2>3. CASE Replicate \/ Tick \/ UNCHANGED vars
    <3>1. /\ UNCHANGED <<read, failovers, log, data>>
          /\ clock' = clock \/ clock' = clock + 1
          /\ replica' = replica \/ replica' = data
      BY <2>3 DEF Replicate, Tick, storeVars, vars
    <3>. QED  BY <2>0, <3>1, SeriesKept
  <2>4. CASE Failover
    <3>1. /\ failovers' = failovers + 1 /\ read' = read
          /\ data' = replica /\ replica' = replica
      BY <2>4 DEF Failover
    <3>2. read.req # NoRequest => read.epoch \in Nat /\ read.epoch <= failovers
      BY <2>0 DEF RowsInv
    <3>3. read'.req # NoRequest => ~SameMaster'
      BY <2>0, <3>1, <3>2 DEF SameMaster
    <3>. QED  BY <2>0, <3>1, <3>3 DEF SeriesInv
  <2>5. ASSUME NEW req \in Request, StartRead(req) PROVE SeriesInv'
    BY <2>0, <2>5, SeriesStart
  <2>6. CASE ReadNext
    BY <2>0, <2>6, SeriesAnswer
  <2>7. ASSUME read' = Close(read), UNCHANGED <<data, replica>> PROVE SeriesInv'
    <3>1. read'.req = NoRequest
      BY <2>7 DEF Close, Idle
    <3>. QED  BY <2>0, <2>7, <3>1 DEF SeriesInv
  <2>8. CASE ReadFails
    <3>0. UNCHANGED <<data, replica>> /\ read.req # NoRequest
      BY <2>8 DEF ReadFails, Reading, storeVars
    <3>1. CASE ErrorDropped
      <4>1. read.req.kind # "timeseries" /\ read'.req = read.req
        BY <2>0, <2>8, <3>1 DEF ReadFails, ErrorDropped, RowsInv
      <4>. QED  BY <2>0, <3>0, <4>1 DEF SeriesInv
    <3>. QED  BY <2>7, <2>8, <3>0, <3>1 DEF ReadFails
  <2>9. CASE Respond
    BY <2>7, <2>9 DEF Respond, storeVars
  <2>. QED
    BY <2>1, <2>2, <2>3, <2>4, <2>5, <2>6, <2>8, <2>9 DEF Next, Step
<1>. QED
  BY <1>1, <1>2, InductiveInv, PastInductive, ReadsInductive, PTL DEF Spec

\* A served timeseries: its n buckets are of n hours in a row, which end with the
\* hour it was asked for in.
LEMMA SeriesServed ==
  ASSUME RowsInv, SeriesInv, Served, read.req.kind = "timeseries", SameMaster, clock \in Nat
  PROVE  \E n \in Nat, low \in Int :
           LET f == [i \in 1..n |-> read.got[i].orders] IN
           /\ DOMAIN read.got = 1..n /\ DOMAIN read.asked = 1..n
           /\ \A i \in 1..n : /\ read.asked[i].hour = low + i
                              /\ ShowsHour(low + i, f[i], read.start, log, data, clock)
           /\ Counted = Sum(f, 1..n)
           /\ low + n <= clock /\ Past(log, read.start, low + n)
           /\ n = MaxHours \/ n = read.req.hours
<1>1. PICK req \in Request : req = read.req /\ req.kind = "timeseries"
  BY DEF RowsInv, Served
<1>2. PICK base \in Nat : Series(base)
  BY DEF SeriesInv, Served
<1>3. PICK C : C = HourReads(base, req.hours)
  OBVIOUS
<1>4. /\ Plan(read, C)
      /\ \A i \in 1..Len(read.got) :
           ShowsHour(C[i].hour, read.got[i].orders, read.start, log, data, clock)
  BY <1>1, <1>2, <1>3 DEF Series
<1>5. PICK n \in Nat : /\ n = Len(C)
                       /\ \A i \in 1..n : C[i] = HGetAll(base - n + i)
                       /\ n = MaxHours \/ n = req.hours
  <2>1. /\ Len(C) \in Nat /\ \A i \in 1..Len(C) : C[i] = HGetAll(base - Len(C) + i)
        /\ Len(C) = IF req.hours > MaxHours THEN MaxHours ELSE req.hours
    BY <1>1, <1>3, SeriesAsks
  <2>2. Len(C) = MaxHours \/ Len(C) = req.hours
    BY <2>1
  <2>. QED  BY <2>1, <2>2, ZenonT(40)
<1>6. Len(read.got) = n
  <2>1. PICK k \in Nat : k = Len(read.got)
    BY <1>4 DEF Plan, IsSeq
  <2>2. k + 0 = n
    BY <1>4, <1>5, <2>1 DEF Plan, Served
  <2>. QED  BY <2>1, <2>2
<1>7. /\ DOMAIN read.got = 1..n /\ DOMAIN read.asked = 1..n
      /\ \A i \in 1..n : read.asked[i] = C[i]
  BY <1>4, <1>6 DEF Plan, IsSeq
<1>8. PICK low \in Int : low = base - n
  <2>1. base - n \in Int
    OBVIOUS
  <2>. QED  BY <2>1
<1>. DEFINE f == [i \in 1..n |-> read.got[i].orders]
<1>9. ASSUME NEW i \in 1..n
      PROVE  /\ read.asked[i].hour = low + i
             /\ ShowsHour(low + i, f[i], read.start, log, data, clock)
  <2>1. C[i] = HGetAll(low + i)
    BY <1>5, <1>8
  <2>2. C[i].hour = low + i
    BY <2>1 DEF HGetAll
  <2>. QED  BY <1>4, <1>6, <1>7, <2>2
<1>10. Counted = Sum(f, 1..n)
  <2>1. Counted = SumFunction([i \in DOMAIN read.got |-> read.got[i].orders])
    BY DEF Counted
  <2>2. Counted = SumFunction(f) /\ DOMAIN f = 1..n
    BY <1>7, <2>1
  <2>. HIDE DEF f
  <2>. QED  BY <2>2 DEF SumFunction, Sum
<1>11. low + n <= clock /\ Past(log, read.start, low + n)
  <2>1. low + n = base
    BY <1>5, <1>8
  <2>. QED  BY <1>2, <2>1 DEF Series
<1>12. n = MaxHours \/ n = read.req.hours
  BY <1>1, <1>5
<1>. HIDE DEF f
<1>. QED  BY <1>7, <1>9, <1>10, <1>11, <1>12 DEF f

\* What a served timeseries shows while the master stays: no bucket holds more
\* orders than were created in its hour, all of them hold no more than there are,
\* and a bucket still in the window that nobody evicted holds no fewer than when
\* the request came.
SeriesWithinReads ==
  Served /\ read.req.kind = "timeseries" /\ SameMaster =>
    /\ Counted <= Len(log)
    /\ \A i \in DOMAIN read.got :
         ShowsHour(read.asked[i].hour, read.got[i].orders, read.start, log, data, clock)

\* The buckets of a timeseries are read one after the other while orders come in,
\* hours pass and buckets expire or are evicted: none is ever too high, and only an
\* hour that left the window or was evicted is too low (store.go:543-592,
\* Timeseries; types.go:117-120, the time to live of a bucket).
THEOREM SeriesTheorem == Spec => []SeriesWithinReads
<1>1. IInv /\ ReadInv /\ SeriesInv => SeriesWithinReads
  <2>. SUFFICES ASSUME IInv, ReadInv, SeriesInv, Served, read.req.kind = "timeseries", SameMaster
                PROVE  /\ Counted <= Len(log)
                       /\ \A i \in DOMAIN read.got :
                            ShowsHour(read.asked[i].hour, read.got[i].orders, read.start,
                                      log, data, clock)
    BY DEF SeriesWithinReads
  <2>0. RowsInv /\ log \in Seq(Order) /\ clock \in Nat
    BY DEF IInv, DataInv, ShapeInv, ReadInv
  <2>1. PICK n \in Nat, low \in Int :
           LET f == [i \in 1..n |-> read.got[i].orders] IN
           /\ DOMAIN read.got = 1..n /\ DOMAIN read.asked = 1..n
           /\ \A i \in 1..n : /\ read.asked[i].hour = low + i
                              /\ ShowsHour(low + i, f[i], read.start, log, data, clock)
           /\ Counted = Sum(f, 1..n)
    BY <2>0, SeriesServed
  <2>. DEFINE f == [i \in 1..n |-> read.got[i].orders]
              g == [x \in 1..n |-> OrdersOf(low + x, log)]
  <2>2. NatValued(g, 1..n) /\ Sum(g, 1..n) <= Len(log)
    BY <2>0, BucketSum
  <2>3. NatValued(f, 1..n) /\ \A i \in 1..n : g[i] \in Nat /\ f[i] <= g[i]
    <3>1. \A i \in 1..n : f[i] \in Nat /\ f[i] <= OrdersOf(low + i, log)
      BY <2>1 DEF ShowsHour
    <3>. QED  BY <2>2, <3>1 DEF NatValued
  <2>4. Counted = Sum(f, 1..n)
    BY <2>1
  <2>5. \A i \in 1..n : ShowsHour(read.asked[i].hour, read.got[i].orders, read.start,
                                  log, data, clock)
    BY <2>1
  <2>. HIDE DEF f, g
  <2>6. IsFiniteSet(1..n)
    BY FS_Interval
  <2>7. Sum(f, 1..n) <= Sum(g, 1..n) /\ Sum(f, 1..n) \in Nat /\ Sum(g, 1..n) \in Nat
    BY <2>2, <2>3, <2>6, SumMonotone, SumNat
  <2>8. Len(log) \in Nat
    BY <2>0
  <2>. QED  BY <2>1, <2>2, <2>4, <2>5, <2>7, <2>8
<1>. QED  BY <1>1, InductiveInv, ReadsInductive, SeriesInductive, PTL

\* A timeseries that shows the hours of all orders there were adds up to no fewer.
LEMMA SeriesWholeShown ==
  Spec => [](read.req.kind = "timeseries" => TotalsWithinReads)
<1>1. IInv /\ ReadInv /\ SeriesInv /\ SeriesWithinReads =>
        (read.req.kind = "timeseries" => TotalsWithinReads)
  <2>. SUFFICES ASSUME IInv, ReadInv, SeriesInv, SeriesWithinReads,
                       read.req.kind = "timeseries", WholeShown, Served, SameMaster
                PROVE  read.start <= Counted
    BY DEF TotalsWithinReads, SeriesWithinReads
  <2>0. RowsInv /\ log \in Seq(Order) /\ clock \in Nat
    BY DEF IInv, DataInv, ShapeInv, ReadInv
  <2>1. PICK n \in Nat, low \in Int :
           LET f == [i \in 1..n |-> read.got[i].orders] IN
           /\ DOMAIN read.got = 1..n /\ DOMAIN read.asked = 1..n
           /\ \A i \in 1..n : /\ read.asked[i].hour = low + i
                              /\ ShowsHour(low + i, f[i], read.start, log, data, clock)
           /\ Counted = Sum(f, 1..n)
           /\ low + n <= clock /\ Past(log, read.start, low + n)
           /\ n = MaxHours \/ n = read.req.hours
    BY <2>0, SeriesServed
  <2>2. PICK m \in 0..Len(log) : m = read.start
    BY <2>0 DEF SeriesInv, Served
  <2>3. PICK p \in Seq(Order) : p = SubSeq(log, 1, m) /\ Len(p) = m
    BY <2>0, <2>2, OrdersOfPrefix
  <2>4. \A j \in 1..m : p[j] = log[j] /\ p[j] \in Order
    BY <2>0, <2>3
  <2>5. ASSUME NEW j \in 1..m
        PROVE  /\ InWindow(p[j].created, clock) /\ p[j].created \notin data.lost
               /\ p[j].created - low \in 1..n
    <3>1. PICK h \in Nat : h = p[j].created
      BY <2>4, OrderNumbers
    <3>2. /\ clock - h < read.req.hours /\ clock - h < MaxHours /\ h \notin data.lost
          /\ h <= low + n
      BY <2>1, <2>2, <2>4, <3>1 DEF WholeShown, Past
    <3>3. low + n <= clock /\ clock - h < n
      BY <2>1, <3>2
    <3>4. h <= clock /\ clock - MaxHours < h
      BY <2>0, <3>2, <3>3, WindowAssumption
    <3>5. h - low \in 1..n
      BY <2>0, <3>2, <3>3
    <3>6. InWindow(h, clock)
      BY <2>0, <3>4, WindowHours
    <3>. QED  BY <3>1, <3>2, <3>5, <3>6
  <2>. DEFINE f == [i \in 1..n |-> read.got[i].orders]
              k == [x \in 1..n |-> OrdersOf(low + x, p)]
  <2>6. NatValued(k, 1..n) /\ Sum(k, 1..n) = m
    <3>1. \A j \in 1..Len(p) : p[j].created - low \in 1..n
      BY <2>3, <2>5
    <3>. QED  BY <2>3, <3>1, BucketSum
  <2>7. ASSUME NEW x \in 1..n PROVE f[x] \in Nat /\ k[x] <= f[x]
    <3>1. ShowsHour(low + x, f[x], m, log, data, clock)
      BY <2>1, <2>2
    <3>2. /\ f[x] \in Nat
          /\ InWindow(low + x, clock) /\ low + x \notin data.lost => OrdersOf(low + x, p) <= f[x]
      BY <2>3, <3>1 DEF ShowsHour
    <3>3. CASE \E j \in 1..m : p[j].created = low + x
      BY <2>5, <3>2, <3>3
    <3>4. CASE ~(\E j \in 1..m : p[j].created = low + x)
      <4>1. DOMAIN p = 1..m
        BY <2>3
      <4>2. {j \in DOMAIN p : p[j].created = low + x} = {}
        BY <3>4, <4>1
      <4>3. OrdersOf(low + x, p) = 0
        BY <4>2, FS_EmptySet DEF OrdersOf
      <4>. QED  BY <3>2, <4>3
    <3>. QED  BY <3>3, <3>4
  <2>8. Counted = Sum(f, 1..n)
    BY <2>1
  <2>. HIDE DEF f, k
  <2>9. IsFiniteSet(1..n)
    BY FS_Interval
  <2>10. Sum(k, 1..n) <= Sum(f, 1..n)
    BY <2>6, <2>7, <2>9, SumMonotone
  <2>. QED  BY <2>2, <2>6, <2>8, <2>10
<1>. QED  BY <1>1, InductiveInv, ReadsInductive, SeriesInductive, SeriesTheorem, PTL

\* Numbers read one after the other still add up to what the store held at some
\* time of the read: the new-versus-returning split, the histograms and the
\* heatmaps sum to no fewer orders than when the request came and to no more than
\* now, whatever was applied between the commands, and so does a timeseries as
\* long as it shows the hours of all of these orders (store.go:543-592).
THEOREM TotalsWithinReadsTheorem == Spec => []TotalsWithinReads
<1>1. /\ read.req.kind \in Tallied => TotalsWithinReads
      /\ read.req.kind = "timeseries" => TotalsWithinReads
      => TotalsWithinReads
  BY DEF TotalsWithinReads, Tallied
<1>. QED  BY <1>1, TalliesWithinReads, SeriesWholeShown, PTL
===============================================================================
