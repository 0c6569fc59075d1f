---------------------------- MODULE SumTheorems ----------------------------
(***************************************************************************)
(* Facts about SumFunctionOnSet, the sum of an integer-valued function     *)
(* over a finite set, which the community modules define by a recursive    *)
(* function that takes the set's elements in the order CHOOSE has them.    *)
(***************************************************************************)
EXTENDS Integers, FiniteSets, Functions, FiniteSetTheorems, TLAPS

\* A property of subsets that carries over from the strict subsets of each holds of all.
LEMMA SubsetInduction ==
  ASSUME NEW S, IsFiniteSet(S), NEW D,
         \A T \in SUBSET S : (\A U \in SUBSET T : U # T => U \in D) => T \in D
  PROVE  \A T \in SUBSET S : T \in D
<1> DEFINE Bad == {T \in SUBSET S : T \notin D}
           R == StrictSubsetOrdering(S)
           F == FiniteSubsetsOf(S)
<1> SUFFICES ASSUME Bad # {} PROVE FALSE
  OBVIOUS
<1>1. IsWellFoundedOn(R, F)
  BY FS_StrictSubsetOrderingWellFounded
<1>2. Bad \subseteq F
  BY FS_FiniteSubsetsOfFinite
<1>3. PICK T \in Bad : \A U \in Bad : ~ (<<U, T>> \in R)
  <2> HIDE DEF Bad, R, F
  <2>1. QED
    BY <1>1, <1>2, WFMin
<1>4. ASSUME NEW U \in SUBSET T, U # T PROVE U \in D
  <2>1. <<U, T>> \in R
    BY <1>4 DEF StrictSubsetOrdering
  <2>2. QED
    BY <1>3, <2>1
<1>5. QED
  BY <1>3, <1>4

LEMMA CountingUp ==
  ASSUME NEW D, 0 \in D, \A n \in Nat : n \in D => n + 1 \in D
  PROVE  \A n \in Nat : n \in D
<1> SUFFICES ASSUME NEW n \in Nat PROVE n \in D
  OBVIOUS
<1> DEFINE S == 1 .. n
           Good == {T \in SUBSET S : Cardinality(T) \in D}
<1>1. IsFiniteSet(S) /\ Cardinality(S) = n
  BY FS_Interval
<1>2. ASSUME NEW T \in SUBSET S, \A U \in SUBSET T : U # T => U \in Good
      PROVE  T \in Good
  <2>1. IsFiniteSet(T)
    BY <1>1, FS_Subset
  <2>2. CASE T = {}
    BY <2>2, FS_EmptySet
  <2>3. CASE T # {}
    <3>1. PICK x \in T : TRUE
      BY <2>3
    <3>2. /\ IsFiniteSet(T \ {x}) /\ Cardinality(T) \in Nat /\ Cardinality(T \ {x}) \in Nat
          /\ Cardinality(T \ {x}) = Cardinality(T) - 1
      BY <2>1, <3>1, FS_RemoveElement, FS_CardinalityType
    <3>3. Cardinality(T \ {x}) \in D
      BY <1>2, <3>1
    <3>4. Cardinality(T \ {x}) + 1 = Cardinality(T)
      BY <3>2
    <3>5. QED
      BY <3>2, <3>3, <3>4
  <2>4. QED
    BY <2>2, <2>3
<1>3. \A T \in SUBSET S : T \in Good
  <2> HIDE DEF Good, S
  <2>1. QED
    BY <1>1, <1>2, SubsetInduction
<1>4. QED
  BY <1>1, <1>3

----------------------------------------------------------------------------
\* The element a sum takes first, and the equation of the recursive function behind it.
First(S) == CHOOSE x \in S : TRUE
Unfolds(f, D, h) ==
    h = [T \in D |-> IF T = {} THEN 0 ELSE f[First(T)] + h[T \ {First(T)}]]

LEMMA SumIsChosen ==
  ASSUME NEW f, NEW S
  PROVE  SumFunctionOnSet(f, S) = (CHOOSE h : Unfolds(f, SUBSET S, h))[S]
BY DEF SumFunctionOnSet, FoldFunctionOnSet, MapThenFoldSet, Unfolds, First

\* The recursion is well founded, so there is such a function.
LEMMA SumUnfolds ==
  ASSUME NEW f, NEW S, IsFiniteSet(S)
  PROVE  \E h : Unfolds(f, SUBSET S, h)
<1> DEFINE Upto(n) == {T \in SUBSET S : Cardinality(T) <= n}
           Done == {n \in Nat : \E h : Unfolds(f, Upto(n), h)}
<1>1. \A T \in SUBSET S : /\ IsFiniteSet(T) /\ Cardinality(T) \in Nat
                          /\ Cardinality(T) <= Cardinality(S)
                          /\ Cardinality(T) = 0 <=> T = {}
  BY FS_Subset, FS_CardinalityType, FS_EmptySet
<1>2. ASSUME NEW n \in Nat, NEW T \in Upto(n + 1), T # {}
      PROVE  T \ {First(T)} \in Upto(n)
  <2>1. First(T) \in T
    BY <1>2 DEF First
  <2>2. Cardinality(T \ {First(T)}) = Cardinality(T) - 1
    BY <1>1, <2>1, FS_RemoveElement
  <2>3. QED
    BY <1>1, <2>2
<1>3. 0 \in Done
  <2>1. Upto(0) = {{}}
    BY <1>1
  <2>2. Unfolds(f, Upto(0), [T \in {{}} |-> 0])
    BY <2>1 DEF Unfolds
  <2>3. QED
    BY <2>2
<1>4. ASSUME NEW n \in Nat, n \in Done PROVE n + 1 \in Done
  <2>1. PICK h : Unfolds(f, Upto(n), h)
    BY <1>4
  <2> DEFINE k == [T \in Upto(n + 1) |->
                     IF T = {} THEN 0 ELSE f[First(T)] + h[T \ {First(T)}]]
  <2>2. Upto(n) \subseteq Upto(n + 1)
    BY <1>1
  <2>3. \A T \in Upto(n) : k[T] = h[T]
    BY <2>1, <2>2 DEF Unfolds
  <2>4. \A T \in Upto(n + 1) : T # {} => k[T \ {First(T)}] = h[T \ {First(T)}]
    <3> HIDE DEF k, Upto
    <3>1. QED
      BY <1>2, <2>3
  <2>5. k = [T \in Upto(n + 1) |-> IF T = {} THEN 0 ELSE f[First(T)] + k[T \ {First(T)}]]
    BY <2>4
  <2>6. Unfolds(f, Upto(n + 1), k)
    BY <2>5 DEF Unfolds
  <2>7. n + 1 \in Nat
    OBVIOUS
  <2> HIDE DEF k, Upto
  <2>8. QED
    BY <2>6, <2>7
<1>5. \A n \in Nat : n \in Done
  <2> HIDE DEF Done
  <2>1. QED
    BY <1>3, <1>4, CountingUp
<1>6. Cardinality(S) \in Nat /\ Upto(Cardinality(S)) = SUBSET S
  BY <1>1
<1>7. QED
  BY <1>5, <1>6

\* What it sums to: nothing over no elements, else the first one and the others.
LEMMA SumEquation ==
  ASSUME NEW f, NEW S, IsFiniteSet(S)
  PROVE  /\ SumFunctionOnSet(f, {}) = 0
         /\ S # {} => SumFunctionOnSet(f, S) =
                          f[First(S)] + SumFunctionOnSet(f, S \ {First(S)})
<1> DEFINE Iter(T) == CHOOSE h : Unfolds(f, SUBSET T, h)
<1>1. \A T : IsFiniteSet(T) => Unfolds(f, SUBSET T, Iter(T))
  BY SumUnfolds
<1>2. \A T : IsFiniteSet(T) =>
        \A U \in SUBSET T : Iter(T)[U] = IF U = {} THEN 0
                                         ELSE f[First(U)] + Iter(T)[U \ {First(U)}]
  <2> HIDE DEF Iter
  <2>1. QED
    BY <1>1 DEF Unfolds
<1>3. ASSUME NEW T \in SUBSET S
      PROVE  \A U \in SUBSET T : Iter(T)[U] = Iter(S)[U]
  <2> DEFINE Same == {U \in SUBSET T : Iter(T)[U] = Iter(S)[U]}
  <2>1. IsFiniteSet(T)
    BY FS_Subset
  <2>2. ASSUME NEW U \in SUBSET T, \A V \in SUBSET U : V # U => V \in Same
        PROVE  U \in Same
    <3>1. U # {} => First(U) \in U
      BY DEF First
    <3>2. U # {} => Iter(T)[U \ {First(U)}] = Iter(S)[U \ {First(U)}]
      <4> HIDE DEF Iter
      <4>1. QED
        BY <2>2, <3>1
    <3>3. Iter(T)[U] = Iter(S)[U]
      <4> HIDE DEF Iter
      <4>1. QED
        BY <1>2, <2>1, <3>2
    <3>4. QED
      BY <3>3
  <2>3. \A U \in SUBSET T : U \in Same
    <3> HIDE DEF Same
    <3>1. QED
      BY <2>1, <2>2, SubsetInduction
  <2>4. QED
    BY <2>3
<1>4. \A T : SumFunctionOnSet(f, T) = Iter(T)[T]
  BY SumIsChosen
<1>5. IsFiniteSet({})
  BY FS_EmptySet
<1>6. SumFunctionOnSet(f, {}) = 0
  <2> HIDE DEF Iter
  <2>1. QED
    BY <1>2, <1>4, <1>5
<1>7. ASSUME S # {}
      PROVE  SumFunctionOnSet(f, S) = f[First(S)] + SumFunctionOnSet(f, S \ {First(S)})
  <2>1. S \ {First(S)} \in SUBSET S
    OBVIOUS
  <2>2. Iter(S \ {First(S)})[S \ {First(S)}] = Iter(S)[S \ {First(S)}]
    <3> HIDE DEF Iter
    <3>1. QED
      BY <1>3, <2>1
  <2>3. Iter(S)[S] = f[First(S)] + Iter(S)[S \ {First(S)}]
    <3> HIDE DEF Iter
    <3>1. QED
      BY <1>2, <1>7
  <2>4. QED
    <3> HIDE DEF Iter
    <3>1. QED
      BY <1>4, <2>2, <2>3
<1>8. QED
  BY <1>6, <1>7

----------------------------------------------------------------------------
\* The facts to cite.  Any element may be taken first.
LEMMA SumTakesOut ==
  ASSUME NEW X, NEW f \in [X -> Int], NEW S \in SUBSET X, IsFiniteSet(S)
  PROVE  /\ SumFunctionOnSet(f, S) \in Int
         /\ \A x \in S : SumFunctionOnSet(f, S) = f[x] + SumFunctionOnSet(f, S \ {x})
<1> DEFINE Sum(T) == SumFunctionOnSet(f, T)
           Good == {T \in SUBSET S : Sum(T) \in Int /\ \A x \in T : Sum(T) = f[x] + Sum(T \ {x})}
<1>1. ASSUME NEW T \in SUBSET S, \A U \in SUBSET T : U # T => U \in Good
      PROVE  T \in Good
  <2>1. IsFiniteSet(T)
    BY FS_Subset
  <2>2. CASE T = {}
    <3>1. Sum(T) = 0
      BY <2>1, <2>2, SumEquation
    <3>2. QED
      BY <2>2, <3>1
  <2>3. CASE T # {}
    <3>1. First(T) \in T /\ f[First(T)] \in Int
      BY <2>3 DEF First
    <3> DEFINE a == First(T)
    <3> HIDE DEF a
    <3>2. a \in T /\ f[a] \in Int /\ Sum(T) = f[a] + Sum(T \ {a})
      BY <2>1, <2>3, <3>1, SumEquation DEF a
    <3>3. \A x \in T : T \ {x} \in Good /\ T \ {x} \in SUBSET T
      BY <1>1
    <3>4. \A x \in T : Sum(T \ {x}) \in Int
      BY <3>3
    <3>5. ASSUME NEW x \in T, x # a PROVE Sum(T) = f[x] + Sum(T \ {x})
      <4>1. /\ Sum(T \ {a}) = f[x] + Sum((T \ {a}) \ {x})
            /\ Sum(T \ {x}) = f[a] + Sum((T \ {x}) \ {a})
        BY <3>2, <3>3, <3>5
      <4>2. (T \ {a}) \ {x} = (T \ {x}) \ {a}
        OBVIOUS
      <4>3. Sum((T \ {x}) \ {a}) \in Int /\ f[x] \in Int
        <5>1. (T \ {x}) \ {a} \in Good
          BY <1>1, <3>2
        <5>2. QED
          BY <5>1
      <4>4. Sum((T \ {a}) \ {x}) = Sum((T \ {x}) \ {a})
        BY <4>2
      <4>5. QED
        BY <3>2, <4>1, <4>3, <4>4
    <3>6. Sum(T) \in Int /\ \A x \in T : Sum(T) = f[x] + Sum(T \ {x})
      <4>1. Sum(T) \in Int
        BY <3>2, <3>4
      <4>2. QED
        BY <3>2, <3>5, <4>1
    <3>7. QED
      BY <3>6
  <2>4. QED
    BY <2>2, <2>3
<1>2. \A T \in SUBSET S : T \in Good
  <2> HIDE DEF Good
  <2>1. QED
    BY <1>1, SubsetInduction
<1>3. QED
  BY <1>2

LEMMA SumOfNone == ASSUME NEW f PROVE SumFunctionOnSet(f, {}) = 0
  BY FS_EmptySet, SumEquation

LEMMA SumAddsOne ==
  ASSUME NEW X, NEW f \in [X -> Int], NEW S \in SUBSET X, IsFiniteSet(S), NEW x \in X \ S
  PROVE  SumFunctionOnSet(f, S \cup {x}) = SumFunctionOnSet(f, S) + f[x]
<1>1. IsFiniteSet(S \cup {x}) /\ (S \cup {x}) \ {x} = S
  BY FS_AddElement
<1>2. SumFunctionOnSet(f, S \cup {x}) = f[x] + SumFunctionOnSet(f, S)
  BY <1>1, SumTakesOut
<1>3. SumFunctionOnSet(f, S) \in Int /\ f[x] \in Int
  BY SumTakesOut
<1>4. QED
  BY <1>2, <1>3

\* A sum of two functions is the two sums' sum.
LEMMA SumOfSums ==
  ASSUME NEW X, NEW f \in [X -> Int], NEW g \in [X -> Int], NEW h \in [X -> Int],
         NEW S \in SUBSET X, IsFiniteSet(S), \A x \in S : h[x] = f[x] + g[x]
  PROVE  SumFunctionOnSet(h, S) = SumFunctionOnSet(f, S) + SumFunctionOnSet(g, S)
<1> DEFINE F(T) == SumFunctionOnSet(f, T)
           G(T) == SumFunctionOnSet(g, T)
           H(T) == SumFunctionOnSet(h, T)
           Good == {T \in SUBSET S : H(T) = F(T) + G(T)}
<1>1. ASSUME NEW T \in SUBSET S, \A U \in SUBSET T : U # T => U \in Good
      PROVE  T \in Good
  <2>1. IsFiniteSet(T)
    BY FS_Subset
  <2>2. CASE T = {}
    BY <2>2, SumOfNone
  <2>3. CASE T # {}
    <3>1. PICK x \in T : TRUE
      BY <2>3
    <3>2. /\ F(T) = f[x] + F(T \ {x}) /\ G(T) = g[x] + G(T \ {x}) /\ H(T) = h[x] + H(T \ {x})
          /\ F(T) \in Int /\ G(T) \in Int /\ H(T) \in Int
      BY <2>1, <3>1, SumTakesOut
    <3>3. IsFiniteSet(T \ {x})
      BY <2>1, FS_RemoveElement
    <3>4. F(T \ {x}) \in Int /\ G(T \ {x}) \in Int /\ H(T \ {x}) \in Int
      BY <3>3, SumTakesOut
    <3>5. T \ {x} \in Good
      BY <1>1, <3>1
    <3>6. H(T \ {x}) = F(T \ {x}) + G(T \ {x})
      BY <3>5
    <3>7. h[x] = f[x] + g[x] /\ f[x] \in Int /\ g[x] \in Int
      BY <3>1
    <3>8. H(T) = F(T) + G(T)
      <4> HIDE DEF F, G, H
      <4>1. QED
        BY <3>2, <3>4, <3>6, <3>7
    <3>9. QED
      BY <3>8
  <2>4. QED
    BY <2>2, <2>3
<1>2. \A T \in SUBSET S : T \in Good
  <2> HIDE DEF Good
  <2>1. QED
    BY <1>1, SubsetInduction
<1>3. QED
  BY <1>2

\* A sum looks at the values over its set alone.
LEMMA SumsAgree ==
  ASSUME NEW X, NEW f \in [X -> Int], NEW Y, NEW g \in [Y -> Int],
         NEW S \in SUBSET X, S \subseteq Y, IsFiniteSet(S), \A x \in S : f[x] = g[x]
  PROVE  SumFunctionOnSet(f, S) = SumFunctionOnSet(g, S)
<1> DEFINE F(T) == SumFunctionOnSet(f, T)
           G(T) == SumFunctionOnSet(g, T)
           Good == {T \in SUBSET S : F(T) = G(T)}
<1>1. ASSUME NEW T \in SUBSET S, \A U \in SUBSET T : U # T => U \in Good
      PROVE  T \in Good
  <2>1. IsFiniteSet(T) /\ T \in SUBSET X /\ T \in SUBSET Y
    BY FS_Subset
  <2>2. CASE T = {}
    BY <2>2, SumOfNone
  <2>3. CASE T # {}
    <3>1. PICK x \in T : TRUE
      BY <2>3
    <3>2. F(T) = f[x] + F(T \ {x}) /\ G(T) = g[x] + G(T \ {x})
      BY <2>1, <3>1, SumTakesOut
    <3>3. T \ {x} \in Good
      BY <1>1, <3>1
    <3>4. F(T \ {x}) = G(T \ {x}) /\ f[x] = g[x]
      BY <3>1, <3>3
    <3>5. F(T) = G(T)
      BY <3>2, <3>4
    <3>6. QED
      BY <3>5
  <2>4. QED
    BY <2>2, <2>3
<1>2. \A T \in SUBSET S : T \in Good
  <2> HIDE DEF Good
  <2>1. QED
    BY <1>1, SubsetInduction
<1>3. QED
  BY <1>2

\* Sums of naturals: none is negative, and more elements sum to no less.
LEMMA SumIsNat ==
  ASSUME NEW X, NEW f \in [X -> Nat], NEW S \in SUBSET X, IsFiniteSet(S)
  PROVE  SumFunctionOnSet(f, S) \in Nat
<1> DEFINE F(T) == SumFunctionOnSet(f, T)
           Good == {T \in SUBSET S : F(T) \in Nat}
<1>1. ASSUME NEW T \in SUBSET S, \A U \in SUBSET T : U # T => U \in Good
      PROVE  T \in Good
  <2>1. IsFiniteSet(T) /\ f \in [X -> Int]
    BY FS_Subset
  <2>2. CASE T = {}
    BY <2>2, SumOfNone
  <2>3. CASE T # {}
    <3>1. PICK x \in T : TRUE
      BY <2>3
    <3>2. F(T) = f[x] + F(T \ {x})
      BY <2>1, <3>1, SumTakesOut
    <3>3. T \ {x} \in Good
      BY <1>1, <3>1
    <3>4. F(T \ {x}) \in Nat /\ f[x] \in Nat
      BY <3>1, <3>3
    <3>5. F(T) \in Nat
      BY <3>2, <3>4
    <3>6. QED
      BY <3>5
  <2>4. QED
    BY <2>2, <2>3
<1>2. \A T \in SUBSET S : T \in Good
  <2> HIDE DEF Good
  <2>1. QED
    BY <1>1, SubsetInduction
<1>3. QED
  BY <1>2

\* Two sets' sums cover the sum over both.
LEMMA SumOfUnion ==
  ASSUME NEW X, NEW f \in [X -> Nat], NEW S \in SUBSET X, IsFiniteSet(S),
         NEW T \in SUBSET X, IsFiniteSet(T)
  PROVE  /\ SumFunctionOnSet(f, S \cup T) <= SumFunctionOnSet(f, S) + SumFunctionOnSet(f, T)
         /\ SumFunctionOnSet(f, S) <= SumFunctionOnSet(f, S \cup T)
<1> DEFINE F(U) == SumFunctionOnSet(f, U)
           Good == {U \in SUBSET T : F(S \cup U) <= F(S) + F(U) /\ F(S) <= F(S \cup U)}
<1>1. ASSUME NEW U \in SUBSET T, \A V \in SUBSET U : V # U => V \in Good
      PROVE  U \in Good
  <2>1. IsFiniteSet(U) /\ U \in SUBSET X /\ f \in [X -> Int]
    BY FS_Subset
  <2>2. CASE U = {}
    <3>1. F(U) = 0 /\ S \cup U = S /\ F(S) \in Nat
      BY <2>2, SumOfNone, SumIsNat
    <3>2. F(S \cup U) = F(S)
      BY <3>1
    <3>3. F(S \cup U) <= F(S) + F(U) /\ F(S) <= F(S \cup U)
      BY <3>1, <3>2
    <3>4. QED
      BY <3>3
  <2>3. CASE U # {}
    <3>1. PICK x \in U : TRUE
      BY <2>3
    <3> DEFINE V == U \ {x}
    <3>2. V \in Good /\ IsFiniteSet(V) /\ V \in SUBSET X
      BY <1>1, <2>1, <3>1, FS_RemoveElement
    <3>3. F(U) = f[x] + F(V) /\ f[x] \in Nat /\ F(V) \in Nat /\ F(S) \in Nat
      BY <2>1, <3>1, <3>2, SumTakesOut, SumIsNat
    <3>4. IsFiniteSet(S \cup V) /\ S \cup V \in SUBSET X
      BY <3>2, FS_Union
    <3>5. F(S \cup V) \in Nat
      BY <3>4, SumIsNat
    <3>6. F(S \cup V) <= F(S) + F(V) /\ F(S) <= F(S \cup V)
      BY <3>2
    <3>7. F(S \cup U) = F(S \cup V) \/ F(S \cup U) = F(S \cup V) + f[x]
      <4>1. CASE x \in S
        <5>1. S \cup U = S \cup V
          BY <4>1
        <5>2. QED
          BY <5>1
      <4>2. CASE x \notin S
        <5>1. S \cup U = (S \cup V) \cup {x} /\ x \in X \ (S \cup V)
          BY <3>1, <4>2
        <5>2. QED
          BY <2>1, <3>4, <5>1, SumAddsOne
      <4>3. QED
        BY <4>1, <4>2
    <3>8. F(S \cup U) <= F(S) + F(U) /\ F(S) <= F(S \cup U)
      BY <3>3, <3>5, <3>6, <3>7
    <3>9. QED
      BY <3>8
  <2>4. QED
    BY <2>2, <2>3
<1>2. \A U \in SUBSET T : U \in Good
  <2> HIDE DEF Good
  <2>1. QED
    BY <1>1, SubsetInduction
<1>3. QED
  BY <1>2

LEMMA SumIsMonotone ==
  ASSUME NEW X, NEW f \in [X -> Nat], NEW S \in SUBSET X, IsFiniteSet(S), NEW T \in SUBSET S
  PROVE  SumFunctionOnSet(f, T) <= SumFunctionOnSet(f, S)
<1>1. IsFiniteSet(T) /\ T \in SUBSET X /\ T \cup S = S
  BY FS_Subset
<1>2. QED
  BY <1>1, SumOfUnion

LEMMA Distributes ==
  ASSUME NEW a \in Int, NEW b \in Int, NEW c \in Int
  PROVE  a * (b + c) = a * b + a * c
OBVIOUS

\* A bound on the proportion of each value is one on the proportion of the sums.
LEMMA SumScales ==
  ASSUME NEW X, NEW f \in [X -> Nat], NEW g \in [X -> Nat], NEW S \in SUBSET X, IsFiniteSet(S),
         NEW a \in Nat, NEW b \in Nat, \A x \in S : a * f[x] <= b * g[x]
  PROVE  a * SumFunctionOnSet(f, S) <= b * SumFunctionOnSet(g, S)
<1> DEFINE F(T) == SumFunctionOnSet(f, T)
           G(T) == SumFunctionOnSet(g, T)
           Good == {T \in SUBSET S : a * F(T) <= b * G(T)}
<1>1. ASSUME NEW T \in SUBSET S, \A U \in SUBSET T : U # T => U \in Good
      PROVE  T \in Good
  <2>1. IsFiniteSet(T) /\ T \in SUBSET X /\ f \in [X -> Int] /\ g \in [X -> Int]
    BY FS_Subset
  <2>2. CASE T = {}
    <3>1. F(T) = 0 /\ G(T) = 0
      BY <2>2, SumOfNone
    <3>2. a * F(T) <= b * G(T)
      BY <3>1
    <3>3. QED
      BY <3>2
  <2>3. CASE T # {}
    <3>1. PICK x \in T : TRUE
      BY <2>3
    <3>2. F(T) = f[x] + F(T \ {x}) /\ G(T) = g[x] + G(T \ {x})
      BY <2>1, <3>1, SumTakesOut
    <3>3. T \ {x} \in Good /\ IsFiniteSet(T \ {x}) /\ T \ {x} \in SUBSET X
      BY <1>1, <2>1, <3>1, FS_RemoveElement
    <3>4. F(T \ {x}) \in Nat /\ G(T \ {x}) \in Nat
      BY <3>3, SumIsNat
    <3>5. a * F(T \ {x}) <= b * G(T \ {x}) /\ a * f[x] <= b * g[x] /\ f[x] \in Nat /\ g[x] \in Nat
      BY <3>1, <3>3
    <3>6. /\ a * (f[x] + F(T \ {x})) = a * f[x] + a * F(T \ {x})
          /\ b * (g[x] + G(T \ {x})) = b * g[x] + b * G(T \ {x})
      BY <3>4, <3>5, Distributes
    <3>7. /\ a * F(T) = a * f[x] + a * F(T \ {x}) /\ b * G(T) = b * g[x] + b * G(T \ {x})
      BY <3>2, <3>6
    <3>8. /\ a * f[x] \in Int /\ a * F(T \ {x}) \in Int
          /\ b * g[x] \in Int /\ b * G(T \ {x}) \in Int
      BY <3>4, <3>5
    <3>9. a * F(T) <= b * G(T)
      BY <3>5, <3>7, <3>8
    <3>10. QED
      BY <3>9
  <2>4. QED
    BY <2>2, <2>3
<1>2. \A T \in SUBSET S : T \in Good
  <2> HIDE DEF Good
  <2>1. QED
    BY <1>1, SubsetInduction
<1>3. QED
  BY <1>2

LEMMA SumOfZeros ==
  ASSUME NEW X, NEW f \in [X -> Nat], NEW S \in SUBSET X, IsFiniteSet(S), \A x \in S : f[x] = 0
  PROVE  SumFunctionOnSet(f, S) = 0
<1>1. SumFunctionOnSet(f, S) \in Nat
  BY SumIsNat
<1>2. 1 * SumFunctionOnSet(f, S) <= 0 * SumFunctionOnSet(f, S)
  <2>1. \A x \in S : 1 * f[x] <= 0 * f[x]
    OBVIOUS
  <2>2. 1 \in Nat /\ 0 \in Nat
    OBVIOUS
  <2>3. QED
    BY <2>1, <2>2, SumScales
<1>3. QED
  BY <1>1, <1>2
=============================================================================
