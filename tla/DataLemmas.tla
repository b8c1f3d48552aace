----------------------------- MODULE DataLemmas -----------------------------
(***************************************************************************)
(* Facts about the data the models are built from that no library states:   *)
(* least elements, and what SumFunction computes.                           *)
(***************************************************************************)
EXTENDS Integers, FiniteSets, Functions, TLAPS, WellFoundedInduction,
        FiniteSetTheorems

\* A nonempty set of naturals has a least element.
LEMMA LeastNatural ==
  ASSUME NEW T \in SUBSET Nat, T # {}
  PROVE  \E n \in T : \A m \in T : n <= m
<1>1. \E n \in T : \A m \in T : ~ (<<m, n>> \in OpToRel(<, Nat))
  BY WFMin, NatLessThanWellFounded, Zenon
<1>2. PICK n \in T : \A m \in T : ~ (<<m, n>> \in OpToRel(<, Nat))
  BY <1>1
<1>3. \A m \in T : ~ (m < n)
  BY <1>2 DEF OpToRel
<1>4. \A m \in T : n <= m
  BY <1>3
<1> QED
  BY <1>4

\* Among 0 .. w there is a lowest number that is not in a set of numbers below w.
LEMMA LowestAbsent ==
  ASSUME NEW w \in Nat, NEW S \in SUBSET (0 .. (w - 1))
  PROVE  \E n \in 0 .. w : n \notin S /\ \A b \in 0 .. (w - 1) : b < n => b \in S
<1> DEFINE Absent == {n \in 0 .. w : n \notin S}
<1>1. Absent \in SUBSET Nat /\ w \in Absent
  OBVIOUS
<1> HIDE DEF Absent
<1>2. PICK n \in Absent : \A m \in Absent : n <= m
  BY <1>1, LeastNatural
<1> USE DEF Absent
<1>3. \A b \in 0 .. (w - 1) : b < n => b \in S
  BY <1>2
<1> QED
  BY <1>2, <1>3

\* There are at most n numbers below n.
LEMMA CountBelow ==
  ASSUME NEW n \in Nat, NEW S \in SUBSET (0 .. (n - 1))
  PROVE  Cardinality(S) \in Nat /\ Cardinality(S) <= n
<1>1. /\ IsFiniteSet(0 .. (n - 1))
      /\ Cardinality(0 .. (n - 1)) = IF 0 <= n - 1 THEN (n - 1) - 0 + 1 ELSE 0
  BY FS_Interval
<1>2. Cardinality(0 .. (n - 1)) = n
  BY <1>1
<1>3. /\ IsFiniteSet(S) /\ Cardinality(S) <= Cardinality(0 .. (n - 1))
  BY <1>1, FS_Subset
<1>4. Cardinality(S) \in Nat
  BY <1>3, FS_CardinalityType
<1> QED
  BY <1>2, <1>3, <1>4

\* Mathematical induction, over a set of naturals.
LEMMA SetInduction ==
  ASSUME NEW T \in SUBSET Nat, 0 \in T, \A n \in T : n + 1 \in T
  PROVE  T = Nat
<1> SUFFICES ASSUME Nat \ T # {} PROVE FALSE
  OBVIOUS
<1>1. PICK n \in Nat \ T : \A m \in Nat \ T : n <= m
  <2>1. Nat \ T \in SUBSET Nat
    OBVIOUS
  <2> QED
    BY <2>1, LeastNatural
<1>2. n # 0
  BY <1>1
<1>3. n - 1 \in Nat /\ (n - 1) + 1 = n
  BY <1>1, <1>2
<1>4. n - 1 \in T
  BY <1>1, <1>3
<1> QED
  BY <1>1, <1>3, <1>4

-----------------------------------------------------------------------------
(* Sums *)

Picked(s) == CHOOSE x \in s : TRUE

\* The function that SumFunctionOnSet(f, S) is computed with.
SumStep(f, S, g) ==
  [s \in SUBSET S |-> IF s = {} THEN 0 ELSE f[Picked(s)] + g[s \ {Picked(s)}]]

PartialSums(f, S) == CHOOSE g : g = SumStep(f, S, g)

\* A sum is the last of its partial sums.
LEMMA SumIsPartialSum ==
  ASSUME NEW f, NEW S
  PROVE  SumFunctionOnSet(f, S) = PartialSums(f, S)[S]
BY DEF SumFunctionOnSet, FoldFunctionOnSet, MapThenFoldSet, PartialSums, SumStep, Picked

\* A sum goes over the elements of its set.
LEMMA PickedInSet ==
  ASSUME NEW s, s # {}
  PROVE  Picked(s) \in s
BY DEF Picked

\* Removing an element of a finite set makes it smaller by one.
LEMMA SmallerByOne ==
  ASSUME NEW s, IsFiniteSet(s), NEW x \in s
  PROVE  /\ IsFiniteSet(s \ {x})
         /\ Cardinality(s) \in Nat \ {0}
         /\ Cardinality(s \ {x}) = Cardinality(s) - 1
<1>1. IsFiniteSet(s \ {x}) /\ Cardinality(s \ {x}) = Cardinality(s) - 1
  BY FS_RemoveElement
<1>2. Cardinality(s) \in Nat /\ Cardinality(s) # 0
  BY FS_CardinalityType, FS_EmptySet
<1> QED
  BY <1>1, <1>2

\* The function exists: for each k there is one that is right on the sets of
\* up to k elements.
LEMMA PartialSumsExist ==
  ASSUME NEW S, IsFiniteSet(S), NEW f, \A x \in S : f[x] \in Int
  PROVE  \E g \in [SUBSET S -> Int] : g = SumStep(f, S, g)
<1> DEFINE Right(g, k) ==
             \A s \in SUBSET S : Cardinality(s) <= k => g[s] = SumStep(f, S, g)[s]
           T == {k \in Nat : \E g \in [SUBSET S -> Int] : Right(g, k)}
<1>0. \A s \in SUBSET S : IsFiniteSet(s) /\ Cardinality(s) \in Nat
  BY FS_Subset, FS_CardinalityType
<1>1. 0 \in T
  <2> DEFINE g == [s \in SUBSET S |-> 0]
  <2>1. g \in [SUBSET S -> Int]
    OBVIOUS
  <2>2. \A s \in SUBSET S : Cardinality(s) <= 0 => s = {}
    BY <1>0, FS_EmptySet
  <2>3. Right(g, 0)
    BY <2>2 DEF SumStep
  <2> QED
    BY <2>1, <2>3
<1>2. ASSUME NEW k \in T PROVE k + 1 \in T
  <2>1. PICK g \in [SUBSET S -> Int] : Right(g, k)
    OBVIOUS
  <2> DEFINE h == SumStep(f, S, g)
  <2>2. h \in [SUBSET S -> Int]
    BY PickedInSet DEF SumStep
  <2>3. \A s \in SUBSET S : Cardinality(s) <= k => h[s] = g[s]
    BY <2>1
  <2>4. ASSUME NEW s \in SUBSET S, Cardinality(s) <= k + 1
        PROVE  h[s] = SumStep(f, S, h)[s]
    <3>1. CASE s = {}
      BY <3>1 DEF SumStep
    <3>2. CASE s # {}
      <4> DEFINE r == s \ {Picked(s)}
      <4>1. r \in SUBSET S /\ Cardinality(r) <= k
        <5>1. Picked(s) \in s
          BY <3>2, PickedInSet
        <5>2. Cardinality(r) = Cardinality(s) - 1 /\ Cardinality(s) \in Nat
          BY <1>0, <5>1, SmallerByOne
        <5>3. k \in Nat
          OBVIOUS
        <5> QED
          BY <2>4, <5>2, <5>3
      <4>2. h[r] = g[r]
        BY <2>3, <4>1
      <4>3. h[s] = f[Picked(s)] + g[r]
        BY <3>2 DEF SumStep
      <4>4. SumStep(f, S, h)[s] = f[Picked(s)] + h[r]
        BY <3>2 DEF SumStep
      <4> QED
        BY <4>2, <4>3, <4>4
    <3> QED
      BY <3>1, <3>2
  <2>5. Right(h, k + 1)
    BY <2>4
  <2> QED
    BY <2>2, <2>5
<1>3. T = Nat
  <2> HIDE DEF T
  <2>1. T \in SUBSET Nat
    BY DEF T
  <2> QED
    BY <1>1, <1>2, <2>1, SetInduction
<1>4. Cardinality(S) \in T
  BY <1>3, FS_CardinalityType
<1>5. PICK g \in [SUBSET S -> Int] : Right(g, Cardinality(S))
  BY <1>4
<1>6. \A s \in SUBSET S : Cardinality(s) <= Cardinality(S)
  BY FS_Subset
<1>7. \A s \in SUBSET S : g[s] = SumStep(f, S, g)[s]
  BY <1>5, <1>6
<1>8. SumStep(f, S, g) = [s \in SUBSET S |-> SumStep(f, S, g)[s]]
  BY DEF SumStep
<1>9. g = SumStep(f, S, g)
  BY <1>7, <1>8
<1> QED
  BY <1>9

\* It satisfies its recursion, ...
LEMMA PartialSumsEquation ==
  ASSUME NEW S, IsFiniteSet(S), NEW f, \A x \in S : f[x] \in Int
  PROVE  /\ PartialSums(f, S) \in [SUBSET S -> Int]
         /\ PartialSums(f, S)[{}] = 0
         /\ \A s \in SUBSET S :
              s # {} => PartialSums(f, S)[s] =
                          f[Picked(s)] + PartialSums(f, S)[s \ {Picked(s)}]
<1> DEFINE g == PartialSums(f, S)
<1>1. g = SumStep(f, S, g)
  BY PartialSumsExist DEF PartialSums
<1>2. PICK h \in [SUBSET S -> Int] : h = SumStep(f, S, h)
  BY PartialSumsExist
<1>3. \A s \in SUBSET S : g[s] = SumStep(f, S, g)[s]
  BY <1>1
<1>4. DOMAIN g = SUBSET S
  BY <1>1 DEF SumStep
<1> HIDE DEF g
<1>5. g[{}] = 0
  BY <1>3 DEF SumStep
<1>6. \A s \in SUBSET S : s # {} => g[s] = f[Picked(s)] + g[s \ {Picked(s)}]
  BY <1>3 DEF SumStep
<1>7. g \in [SUBSET S -> Int]
  <2> DEFINE T == {k \in Nat : \A s \in SUBSET S : Cardinality(s) = k => g[s] \in Int}
  <2>0. \A s \in SUBSET S : IsFiniteSet(s) /\ Cardinality(s) \in Nat
    BY FS_Subset, FS_CardinalityType
  <2>1. 0 \in T
    <3>1. \A s \in SUBSET S : Cardinality(s) = 0 => s = {}
      BY <2>0, FS_EmptySet
    <3> QED
      BY <1>5, <3>1
  <2>2. ASSUME NEW k \in T PROVE k + 1 \in T
    <3> SUFFICES ASSUME NEW s \in SUBSET S, Cardinality(s) = k + 1
                 PROVE  g[s] \in Int
      OBVIOUS
    <3>0. k \in Nat
      OBVIOUS
    <3>1. s # {}
      <4> HIDE DEF T
      <4> QED
        BY <2>0, <3>0, FS_EmptySet
    <3>2. Picked(s) \in s
      BY <3>1, PickedInSet
    <3>3. Cardinality(s \ {Picked(s)}) = k
      BY <2>0, <3>0, <3>2, SmallerByOne
    <3>4. g[s \ {Picked(s)}] \in Int
      BY <3>3
    <3>5. g[s] = f[Picked(s)] + g[s \ {Picked(s)}]
      BY <1>6, <3>1, Zenon
    <3>6. f[Picked(s)] \in Int
      BY <3>2, Zenon
    <3> HIDE DEF T
    <3> QED
      BY <3>4, <3>5, <3>6
  <2>3. T = Nat
    <3> HIDE DEF T
    <3>1. T \in SUBSET Nat
      BY DEF T
    <3> QED
      BY <2>1, <2>2, <3>1, SetInduction
  <2>4. \A s \in SUBSET S : g[s] \in Int
    BY <2>0, <2>3
  <2>5. g = [s \in SUBSET S |-> g[s]]
    BY <1>1, <1>4 DEF SumStep
  <2> QED
    BY <2>4, <2>5
<1> QED
  BY <1>5, <1>6, <1>7 DEF g

AnyElementFirst(f, S) ==
  \A s \in SUBSET S : \A x \in s :
    PartialSums(f, S)[s] = f[x] + PartialSums(f, S)[s \ {x}]

\* ... and the order in which the elements are taken does not matter.
LEMMA PartialSumsAnyElement ==
  ASSUME NEW S, IsFiniteSet(S), NEW f, \A x \in S : f[x] \in Int
  PROVE  AnyElementFirst(f, S)
<1> DEFINE g == PartialSums(f, S)
           T == {k \in Nat : \A s \in SUBSET S : Cardinality(s) = k =>
                               \A x \in s : g[s] = f[x] + g[s \ {x}]}
<1>0. \A s \in SUBSET S : IsFiniteSet(s) /\ Cardinality(s) \in Nat
  BY FS_Subset, FS_CardinalityType
<1>1. /\ g \in [SUBSET S -> Int]
      /\ \A s \in SUBSET S : s # {} => g[s] = f[Picked(s)] + g[s \ {Picked(s)}]
  BY PartialSumsEquation
<1> HIDE DEF g
<1>2. 0 \in T
  BY <1>0, FS_EmptySet
<1>3. ASSUME NEW k \in T PROVE k + 1 \in T
  <2> SUFFICES ASSUME NEW s \in SUBSET S, Cardinality(s) = k + 1, NEW x \in s
               PROVE  g[s] = f[x] + g[s \ {x}]
    OBVIOUS
  <2> DEFINE y == Picked(s)
  <2>1. y \in s
    BY PickedInSet
  <2> HIDE DEF y
  <2>2. g[s] = f[y] + g[s \ {y}]
    BY <1>1 DEF y
  <2>3. CASE x = y
    BY <2>2, <2>3
  <2>4. CASE x # y
    <3>0. k \in Nat
      OBVIOUS
    <3>1. Cardinality(s \ {y}) = k /\ Cardinality(s \ {x}) = k
      <4>1. Cardinality(s \ {y}) = Cardinality(s) - 1
        BY <1>0, <2>1, SmallerByOne
      <4>2. Cardinality(s \ {x}) = Cardinality(s) - 1
        BY <1>0, SmallerByOne
      <4> QED
        BY <3>0, <4>1, <4>2
    <3>2. g[s \ {y}] = f[x] + g[(s \ {y}) \ {x}]
      BY <2>4, <3>1
    <3>3. g[s \ {x}] = f[y] + g[(s \ {x}) \ {y}]
      BY <2>1, <2>4, <3>1
    <3>4. (s \ {y}) \ {x} = (s \ {x}) \ {y}
      OBVIOUS
    <3>5. f[x] \in Int /\ f[y] \in Int /\ g[(s \ {x}) \ {y}] \in Int
      BY <1>1, <2>1
    <3>6. \A a, b, c \in Int : a + (b + c) = b + (a + c)
      OBVIOUS
    <3>7. f[y] + (f[x] + g[(s \ {x}) \ {y}]) = f[x] + (f[y] + g[(s \ {x}) \ {y}])
      BY <3>5, <3>6, Zenon
    <3> QED
      BY <2>2, <3>2, <3>3, <3>4, <3>7, Zenon
  <2> QED
    BY <2>3, <2>4
<1>4. T = Nat
  <2> HIDE DEF T
  <2>1. T \in SUBSET Nat
    BY DEF T
  <2> QED
    BY <1>2, <1>3, <2>1, SetInduction
<1> QED
  BY <1>0, <1>4 DEF g, AnyElementFirst

\* Induction over the subsets of a finite set, one element at a time.
LEMMA SubsetInduction ==
  ASSUME NEW S, IsFiniteSet(S), NEW T \in SUBSET (SUBSET S), {} \in T,
         \A s \in T : \A x \in S \ s : s \cup {x} \in T
  PROVE  T = SUBSET S
<1> DEFINE K == {k \in Nat : \A s \in SUBSET S : Cardinality(s) = k => s \in T}
<1>0. \A s \in SUBSET S : IsFiniteSet(s) /\ Cardinality(s) \in Nat
  BY FS_Subset, FS_CardinalityType
<1>1. 0 \in K
  BY <1>0, FS_EmptySet
<1>2. ASSUME NEW k \in K PROVE k + 1 \in K
  <2> SUFFICES ASSUME NEW s \in SUBSET S, Cardinality(s) = k + 1
               PROVE  s \in T
    OBVIOUS
  <2>0. k \in Nat
    OBVIOUS
  <2>1. s # {}
    <3> HIDE DEF K
    <3> QED
      BY <2>0, FS_EmptySet
  <2>2. PICK x \in s : TRUE
    BY <2>1
  <2>3. Cardinality(s \ {x}) = k
    BY <1>0, <2>0, <2>2, SmallerByOne
  <2>4. s \ {x} \in T
    BY <2>3
  <2>5. s = (s \ {x}) \cup {x}
    OBVIOUS
  <2> QED
    BY <2>4, <2>5
<1>3. K = Nat
  <2> HIDE DEF K
  <2>1. K \in SUBSET Nat
    BY DEF K
  <2> QED
    BY <1>1, <1>2, <2>1, SetInduction
<1> QED
  BY <1>0, <1>3

\* The sum over a set depends only on the values on that set.
LEMMA PartialSumsAgree ==
  ASSUME NEW S, IsFiniteSet(S), NEW f, \A x \in S : f[x] \in Int,
         NEW R, IsFiniteSet(R), NEW h, \A x \in R : h[x] \in Int,
         NEW U, U \subseteq S, U \subseteq R, \A x \in U : f[x] = h[x]
  PROVE  PartialSums(f, S)[U] = PartialSums(h, R)[U]
<1> DEFINE F == PartialSums(f, S)
           H == PartialSums(h, R)
           T == {s \in SUBSET U : F[s] = H[s]}
<1>1. /\ F[{}] = 0 /\ H[{}] = 0
      /\ \A s \in SUBSET S : \A x \in s : F[s] = f[x] + F[s \ {x}]
      /\ \A s \in SUBSET R : \A x \in s : H[s] = h[x] + H[s \ {x}]
  <2> HIDE DEF T, F, H
  <2>1. PartialSums(f, S)[{}] = 0 /\ PartialSums(h, R)[{}] = 0
    BY PartialSumsEquation
  <2>2. AnyElementFirst(f, S) /\ AnyElementFirst(h, R)
    BY PartialSumsAnyElement
  <2> QED
    BY <2>1, <2>2 DEF F, H, AnyElementFirst
<1> HIDE DEF F, H
<1>2. {} \in T
  BY <1>1
<1>3. ASSUME NEW s \in T, NEW x \in U \ s PROVE s \cup {x} \in T
  <2>1. F[s \cup {x}] = f[x] + F[(s \cup {x}) \ {x}]
    BY <1>1
  <2>2. H[s \cup {x}] = h[x] + H[(s \cup {x}) \ {x}]
    BY <1>1
  <2>3. (s \cup {x}) \ {x} = s
    OBVIOUS
  <2> QED
    BY <2>1, <2>2, <2>3
<1>4. T = SUBSET U
  <2>1. IsFiniteSet(U)
    BY FS_Subset
  <2> HIDE DEF T
  <2>2. T \in SUBSET (SUBSET U)
    BY DEF T
  <2> QED
    BY <1>2, <1>3, <2>1, <2>2, SubsetInduction
<1> QED
  BY <1>4 DEF F, H

\* A finite nonempty set of integers has a greatest element.
LEMMA GreatestInteger ==
  ASSUME NEW S, IsFiniteSet(S), S # {}, \A x \in S : x \in Int
  PROVE  \E n \in S : \A k \in S : k <= n
<1> DEFINE T == {s \in SUBSET S : s # {} => \E n \in s : \A k \in s : k <= n}
<1>1. {} \in T
  OBVIOUS
<1>2. ASSUME NEW s \in T, NEW x \in S \ s PROVE s \cup {x} \in T
  <2>1. CASE s = {}
    <3>1. \A k \in s \cup {x} : k <= x
      BY <2>1
    <3> QED
      BY <3>1
  <2>2. CASE s # {}
    <3>1. PICK n \in s : \A k \in s : k <= n
      BY <2>2
    <3>2. CASE x <= n
      <4>1. \A k \in s \cup {x} : k <= n
        BY <3>1, <3>2
      <4> QED
        BY <4>1
    <3>3. CASE ~(x <= n)
      <4>1. \A k \in s \cup {x} : k <= x
        BY <3>1, <3>3
      <4> QED
        BY <4>1
    <3> QED
      BY <3>2, <3>3
  <2> QED
    BY <2>1, <2>2
<1>3. T = SUBSET S
  <2> HIDE DEF T
  <2>1. T \in SUBSET (SUBSET S)
    BY DEF T
  <2> QED
    BY <1>1, <1>2, <2>1, SubsetInduction
<1> QED
  BY <1>3

-----------------------------------------------------------------------------
(* What SumFunctionOnSet computes *)

\* The sum over no element.
LEMMA SumEmpty ==
  ASSUME NEW f
  PROVE  SumFunctionOnSet(f, {}) = 0
<1>1. IsFiniteSet({}) /\ \A x \in {} : f[x] \in Int
  BY FS_EmptySet
<1> QED
  BY <1>1, SumIsPartialSum, PartialSumsEquation

\* Sums of functions that agree on the set.
LEMMA SumAgree ==
  ASSUME NEW S, IsFiniteSet(S), NEW f, NEW h,
         \A x \in S : f[x] \in Int /\ f[x] = h[x]
  PROVE  SumFunctionOnSet(f, S) = SumFunctionOnSet(h, S)
<1>1. PartialSums(f, S)[S] = PartialSums(h, S)[S]
  BY PartialSumsAgree
<1> QED
  BY <1>1, SumIsPartialSum

\* The sum with one more element.
LEMMA SumAdd ==
  ASSUME NEW S, IsFiniteSet(S), NEW f, NEW x, x \notin S,
         \A y \in S \cup {x} : f[y] \in Int
  PROVE  SumFunctionOnSet(f, S \cup {x}) = f[x] + SumFunctionOnSet(f, S)
<1> DEFINE R == S \cup {x}
<1>1. IsFiniteSet(R)
  BY FS_AddElement
<1>2. AnyElementFirst(f, R)
  BY <1>1, PartialSumsAnyElement
<1>3. PartialSums(f, R)[R] = f[x] + PartialSums(f, R)[R \ {x}]
  BY <1>2 DEF AnyElementFirst
<1>4. R \ {x} = S
  OBVIOUS
<1>5. PartialSums(f, R)[S] = PartialSums(f, S)[S]
  BY <1>1, PartialSumsAgree
<1> QED
  BY <1>3, <1>4, <1>5, SumIsPartialSum

\* A sum of integers.
LEMMA SumInt ==
  ASSUME NEW S, IsFiniteSet(S), NEW f, \A x \in S : f[x] \in Int
  PROVE  SumFunctionOnSet(f, S) \in Int
<1>1. PartialSums(f, S) \in [SUBSET S -> Int]
  BY PartialSumsEquation
<1>2. PartialSums(f, S)[S] \in Int
  <2>1. S \in SUBSET S
    OBVIOUS
  <2> QED
    BY <1>1, <2>1, Zenon
<1> QED
  BY <1>2, SumIsPartialSum, Zenon

\* The sum of naturals is a natural, and no smaller than any of them.
LEMMA SumNat ==
  ASSUME NEW S, IsFiniteSet(S), NEW f, \A x \in S : f[x] \in Nat
  PROVE  /\ SumFunctionOnSet(f, S) \in Nat
         /\ \A x \in S : f[x] <= SumFunctionOnSet(f, S)
<1> DEFINE T == {s \in SUBSET S : /\ SumFunctionOnSet(f, s) \in Nat
                                  /\ \A x \in s : f[x] <= SumFunctionOnSet(f, s)}
<1>1. {} \in T
  BY SumEmpty
<1>2. ASSUME NEW s \in T, NEW x \in S \ s PROVE s \cup {x} \in T
  <2>1. SumFunctionOnSet(f, s \cup {x}) = f[x] + SumFunctionOnSet(f, s)
    <3>1. IsFiniteSet(s) /\ \A y \in s \cup {x} : f[y] \in Int
      BY FS_Subset
    <3> QED
      BY <3>1, SumAdd
  <2> QED
    BY <2>1
<1>3. T = SUBSET S
  <2> HIDE DEF T
  <2>1. T \in SUBSET (SUBSET S)
    BY DEF T
  <2> QED
    BY <1>1, <1>2, <2>1, SubsetInduction
<1> QED
  BY <1>3

\* One value changes by d: so does the sum.
LEMMA SumChange ==
  ASSUME NEW S, IsFiniteSet(S), NEW f, NEW h, NEW x \in S, NEW d \in Int,
         \A y \in S : f[y] \in Int,
         h[x] = f[x] + d, \A y \in S \ {x} : h[y] = f[y]
  PROVE  SumFunctionOnSet(h, S) = SumFunctionOnSet(f, S) + d
<1> DEFINE R == S \ {x}
<1>1. IsFiniteSet(R) /\ S = R \cup {x} /\ x \notin R
  BY FS_RemoveElement
<1> HIDE DEF R
<1>2. \A y \in R : f[y] \in Int /\ h[y] = f[y]
  BY DEF R
<1>3. h[x] \in Int /\ f[x] \in Int
  OBVIOUS
<1>4. SumFunctionOnSet(f, R \cup {x}) = f[x] + SumFunctionOnSet(f, R)
  <2>1. \A y \in R \cup {x} : f[y] \in Int
    BY <1>2, <1>3
  <2> QED
    BY <1>1, <2>1, SumAdd
<1>5. SumFunctionOnSet(h, R \cup {x}) = h[x] + SumFunctionOnSet(h, R)
  <2>1. \A y \in R \cup {x} : h[y] \in Int
    BY <1>2, <1>3
  <2> QED
    BY <1>1, <2>1, SumAdd
<1>6. SumFunctionOnSet(h, R) = SumFunctionOnSet(f, R)
  BY <1>1, <1>2, SumAgree
<1>7. SumFunctionOnSet(f, R) \in Int
  BY <1>1, <1>2, SumInt
<1> QED
  BY <1>1, <1>3, <1>4, <1>5, <1>6, <1>7

\* The sum of n values of at most m each is at most n * m.
LEMMA SumBound ==
  ASSUME NEW S, IsFiniteSet(S), NEW f, NEW m \in Nat,
         \A x \in S : f[x] \in Nat /\ f[x] <= m
  PROVE  SumFunctionOnSet(f, S) <= Cardinality(S) * m
<1> DEFINE T == {s \in SUBSET S : SumFunctionOnSet(f, s) <= Cardinality(s) * m}
<1>1. {} \in T
  <2>1. SumFunctionOnSet(f, {}) = 0 /\ Cardinality({}) = 0
    BY SumEmpty, FS_EmptySet
  <2> QED
    BY <2>1
<1>2. ASSUME NEW s \in T, NEW x \in S \ s PROVE s \cup {x} \in T
  <2>1. IsFiniteSet(s) /\ Cardinality(s) \in Nat
    BY FS_Subset, FS_CardinalityType
  <2>2. SumFunctionOnSet(f, s \cup {x}) = f[x] + SumFunctionOnSet(f, s)
    <3>1. \A y \in s \cup {x} : f[y] \in Int
      OBVIOUS
    <3> QED
      BY <2>1, <3>1, SumAdd
  <2>3. SumFunctionOnSet(f, s) \in Nat
    BY <2>1, SumNat
  <2>4. Cardinality(s \cup {x}) = Cardinality(s) + 1
    BY <2>1, FS_AddElement
  <2>5. (Cardinality(s) + 1) * m = Cardinality(s) * m + m /\ Cardinality(s) * m \in Nat
    BY <2>1
  <2>6. SumFunctionOnSet(f, s) <= Cardinality(s) * m
    OBVIOUS
  <2>7. f[x] \in Nat /\ f[x] <= m
    OBVIOUS
  <2>8. SumFunctionOnSet(f, s \cup {x}) <= Cardinality(s \cup {x}) * m
    <3> HIDE DEF T
    <3> QED
      BY <2>2, <2>3, <2>4, <2>5, <2>6, <2>7
  <2> QED
    BY <2>8
<1>3. T = SUBSET S
  <2> HIDE DEF T
  <2>1. T \in SUBSET (SUBSET S)
    BY DEF T
  <2> QED
    BY <1>1, <1>2, <2>1, SubsetInduction
<1> QED
  BY <1>3

-----------------------------------------------------------------------------
(* Sums over the positions of a sequence *)

\* A value is appended.
LEMMA SumAppend ==
  ASSUME NEW n \in Nat, NEW f, NEW h,
         \A i \in 1 .. n : f[i] \in Int /\ h[i] = f[i], h[n + 1] \in Int
  PROVE  SumFunctionOnSet(h, 1 .. (n + 1)) = SumFunctionOnSet(f, 1 .. n) + h[n + 1]
<1>1. 1 .. (n + 1) = (1 .. n) \cup {n + 1} /\ n + 1 \notin 1 .. n
  OBVIOUS
<1>0. IsFiniteSet(1 .. n)
  BY FS_Interval
<1>2. \A i \in (1 .. n) \cup {n + 1} : h[i] \in Int
  OBVIOUS
<1>3. SumFunctionOnSet(h, (1 .. n) \cup {n + 1}) = h[n + 1] + SumFunctionOnSet(h, 1 .. n)
  BY <1>0, <1>1, <1>2, SumAdd
<1>4. SumFunctionOnSet(f, 1 .. n) = SumFunctionOnSet(h, 1 .. n)
  BY <1>0, SumAgree
<1>5. SumFunctionOnSet(f, 1 .. n) \in Int
  BY <1>0, SumInt
<1>6. SumFunctionOnSet(h, 1 .. (n + 1)) = h[n + 1] + SumFunctionOnSet(f, 1 .. n)
  BY <1>1, <1>3, <1>4, Zenon
<1> QED
  BY <1>5, <1>6

\* The first value is removed and the others move up.
LEMMA SumTail ==
  ASSUME NEW n \in Nat, NEW f, NEW h,
         \A i \in 1 .. (n + 1) : f[i] \in Int,
         \A i \in 1 .. n : h[i] = f[i + 1]
  PROVE  SumFunctionOnSet(f, 1 .. (n + 1)) = f[1] + SumFunctionOnSet(h, 1 .. n)
<1> DEFINE T == {k \in Nat : k <= n =>
                   SumFunctionOnSet(f, 1 .. (k + 1)) = f[1] + SumFunctionOnSet(h, 1 .. k)}
<1>1. 0 \in T
  <2>1. 1 .. 0 = {} /\ 1 .. (0 + 1) = {} \cup {1}
    OBVIOUS
  <2>2. SumFunctionOnSet(f, {}) = 0 /\ SumFunctionOnSet(h, {}) = 0
    BY SumEmpty
  <2>3. SumFunctionOnSet(f, {} \cup {1}) = f[1] + SumFunctionOnSet(f, {})
    <3>1. \A i \in {} \cup {1} : f[i] \in Int
      OBVIOUS
    <3> QED
      BY <3>1, SumAdd, FS_EmptySet
  <2> QED
    BY <2>1, <2>2, <2>3
<1>2. ASSUME NEW k \in T PROVE k + 1 \in T
  <2> SUFFICES ASSUME k + 1 <= n
               PROVE  SumFunctionOnSet(f, 1 .. ((k + 1) + 1))
                        = f[1] + SumFunctionOnSet(h, 1 .. (k + 1))
    OBVIOUS
  <2>1. k \in Nat /\ k <= n
    OBVIOUS
  <2>2. SumFunctionOnSet(f, 1 .. (k + 1)) = f[1] + SumFunctionOnSet(h, 1 .. k)
    BY <2>1
  <2> HIDE DEF T
  <2>3. SumFunctionOnSet(f, 1 .. ((k + 1) + 1))
          = SumFunctionOnSet(f, 1 .. (k + 1)) + f[(k + 1) + 1]
    <3>1. /\ k + 1 \in Nat
          /\ \A i \in 1 .. (k + 1) : f[i] \in Int /\ f[i] = f[i]
          /\ f[(k + 1) + 1] \in Int
      BY <2>1
    <3> QED
      BY <3>1, SumAppend
  <2>4. SumFunctionOnSet(h, 1 .. (k + 1)) = SumFunctionOnSet(h, 1 .. k) + h[k + 1]
    <3>1. /\ \A i \in 1 .. k : h[i] \in Int /\ h[i] = h[i]
          /\ h[k + 1] \in Int
      BY <2>1
    <3> QED
      BY <2>1, <3>1, SumAppend
  <2>5. h[k + 1] = f[(k + 1) + 1] /\ f[1] \in Int /\ h[k + 1] \in Int
    BY <2>1
  <2>6. SumFunctionOnSet(h, 1 .. k) \in Int
    <3>1. IsFiniteSet(1 .. k)
      BY <2>1, FS_Interval
    <3>2. \A i \in 1 .. k : h[i] \in Int
      BY <2>1
    <3> QED
      BY <3>1, <3>2, SumInt
  <2> QED
    BY <2>2, <2>3, <2>4, <2>5, <2>6
<1>3. T = Nat
  <2> HIDE DEF T
  <2>1. T \in SUBSET Nat
    BY DEF T
  <2> QED
    BY <1>1, <1>2, <2>1, SetInduction
<1> QED
  BY <1>3

\* g is defined by recursion on 0 .. n.
IsRecursion(g, n, first, step) ==
  \A i \in 0 .. n : g[i] = IF i = 0 THEN first ELSE step[<<i, g[i - 1]>>]

\* A function on 0 .. n can be defined by recursion: from a first value and a
\* step that stays in X.
LEMMA RecursionExists ==
  ASSUME NEW n \in Nat, NEW X, NEW first \in X, NEW step,
         \A i \in 1 .. n, x \in X : step[<<i, x>>] \in X
  PROVE  \E g \in [0 .. n -> X] : IsRecursion(g, n, first, step)
<1> DEFINE Right(g, k) ==
             \A i \in 0 .. k : g[i] = IF i = 0 THEN first ELSE step[<<i, g[i - 1]>>]
           T == {k \in Nat : k <= n => \E g \in [0 .. n -> X] : Right(g, k)}
<1>1. 0 \in T
  <2> DEFINE g == [i \in 0 .. n |-> first]
  <2>1. g \in [0 .. n -> X] /\ Right(g, 0)
    OBVIOUS
  <2> QED
    BY <2>1
<1>2. ASSUME NEW k \in T PROVE k + 1 \in T
  <2> SUFFICES ASSUME k + 1 <= n PROVE \E g \in [0 .. n -> X] : Right(g, k + 1)
    OBVIOUS
  <2>1. k \in Nat
    OBVIOUS
  <2>2. PICK g \in [0 .. n -> X] : Right(g, k)
    BY <2>1
  <2>3. k \in 0 .. n /\ k + 1 \in 1 .. n /\ k + 1 \in 0 .. n
    BY <2>1
  <2>4. g[k] \in X
    BY <2>3
  <2>. PICK next \in X : next = step[<<k + 1, g[k]>>]
    BY <2>3, <2>4
  <2> DEFINE h == [i \in 0 .. n |-> IF i = k + 1 THEN next ELSE g[i]]
  <2>5. h \in [0 .. n -> X]
    OBVIOUS
  <2>6. \A i \in 0 .. k : h[i] = g[i]
    BY <2>3
  <2>7. h[k + 1] = step[<<k + 1, h[k]>>]
    <3>1. h[k] = g[k] /\ h[k + 1] = next
      BY <2>1, <2>3, <2>6
    <3> QED
      BY <3>1, Zenon
  <2> HIDE DEF h
  <2>8. ASSUME NEW i \in 0 .. (k + 1)
        PROVE  h[i] = IF i = 0 THEN first ELSE step[<<i, h[i - 1]>>]
    <3>1. CASE i = k + 1
      <4>1. i # 0 /\ i - 1 = k
        BY <2>1, <3>1
      <4> QED
        BY <2>7, <3>1, <4>1, Zenon
    <3>2. CASE i # k + 1
      <4>1. i \in 0 .. k /\ (i # 0 => i - 1 \in 0 .. k)
        BY <2>1, <3>2
      <4>2. g[i] = IF i = 0 THEN first ELSE step[<<i, g[i - 1]>>]
        BY <2>2, <4>1
      <4> QED
        BY <2>6, <4>1, <4>2
    <3> QED
      BY <3>1, <3>2
  <2> QED
    BY <2>5, <2>8
<1>3. T = Nat
  <2> HIDE DEF T
  <2>1. T \in SUBSET Nat
    BY DEF T
  <2> QED
    BY <1>1, <1>2, <2>1, SetInduction
<1>4. n \in T
  BY <1>3
<1> QED
  BY <1>4 DEF IsRecursion

SameSteps(g, h, n) ==
  g[0] = h[0] /\ \A i \in 1 .. n : g[i - 1] = h[i - 1] => g[i] = h[i]

Agree(g, h, n) == \A i \in 0 .. n : g[i] = h[i]

\* Two functions that start alike and take the same steps end alike.
LEMMA SameTrace ==
  ASSUME NEW n \in Nat, NEW g, NEW h, SameSteps(g, h, n)
  PROVE  Agree(g, h, n)
<1> DEFINE T == {k \in Nat : k <= n => g[k] = h[k]}
<1>1. 0 \in T
  BY DEF SameSteps
<1>2. ASSUME NEW k \in T PROVE k + 1 \in T
  <2>1. k \in Nat /\ (k + 1) - 1 = k
    OBVIOUS
  <2>2. ASSUME k + 1 <= n PROVE g[k + 1] = h[k + 1]
    <3>1. k + 1 \in 1 .. n /\ g[k] = h[k]
      BY <2>1, <2>2
    <3> QED
      BY <2>1, <3>1 DEF SameSteps
  <2> QED
    BY <2>1, <2>2
<1>3. T = Nat
  <2> HIDE DEF T
  <2>1. T \in SUBSET Nat
    BY DEF T
  <2> QED
    BY <1>1, <1>2, <2>1, SetInduction
<1> QED
  BY <1>3 DEF Agree
=============================================================================
