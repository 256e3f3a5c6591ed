------------------------------ MODULE SumLemmas ------------------------------
(****************************************************************************)
(* Lemmas about finite sets of numbers and about the sums of                *)
(* FiniteSetsExt: how the balances of a ledger, the holds of a journal and  *)
(* the connections of a pool add up.  A fold is a recursive function over   *)
(* the subsets of a set; what it computes is shown for a smallest subset    *)
(* that would violate it.                                                   *)
(****************************************************************************)
EXTENDS Integers, FiniteSets, FiniteSetsExt, FiniteSetTheorems, WellFoundedInduction, TLAPS

\* A set of subsets that is not empty has one none of whose proper subsets is in it.
LEMMA SmallestSubset ==
  ASSUME NEW S, IsFiniteSet(S), NEW C \in SUBSET (SUBSET S), C # {}
  PROVE  \E X \in C : IsFiniteSet(X) /\ \A x \in X : X \ {x} \notin C
<1>1. FiniteSubsetsOf(S) = SUBSET S
  BY FS_FiniteSubsetsOfFinite
<1>2. PICK X \in C : \A Y \in C : <<Y, X>> \notin StrictSubsetOrdering(S)
  <2>1. IsWellFoundedOn(StrictSubsetOrdering(S), SUBSET S)
    BY <1>1, FS_StrictSubsetOrderingWellFounded
  <2> QED
    BY <2>1, WFMin, ZenonT(30)
<1>3. ASSUME NEW x \in X PROVE X \ {x} \notin C
  BY <1>2 DEF StrictSubsetOrdering
<1> QED
  BY <1>2, <1>3, FS_Subset

\* Of finitely many things one scores highest.
LEMMA HighestScore ==
  ASSUME NEW S, IsFiniteSet(S), S # {}, NEW score \in [S -> Int]
  PROVE  \E m \in S : \A n \in S : score[n] <= score[m]
<1> DEFINE Tops(X) == \E m \in X : \A n \in X : score[n] <= score[m]
           Topless == {X \in SUBSET S : X # {} /\ ~Tops(X)}
<1> SUFFICES ASSUME ~Tops(S) PROVE FALSE
  OBVIOUS
<1>1. Topless \in SUBSET (SUBSET S) /\ Topless # {}
  OBVIOUS
<1> HIDE DEF Topless
<1>2. PICK X \in Topless : \A x \in X : X \ {x} \notin Topless
  BY <1>1, SmallestSubset
<1>3. PICK x \in X : TRUE
  BY <1>2 DEF Topless
<1> DEFINE Y == X \ {x}
<1>4. Y = {} \/ Tops(Y)
  BY <1>2 DEF Topless
<1>5. X \subseteq S /\ \A n \in X : score[n] \in Int
  BY <1>2 DEF Topless
<1>6. Tops(X)
  <2>1. CASE Y = {}
    BY <1>3, <1>5, <2>1
  <2>2. CASE Tops(Y)
    <3>1. PICK m \in Y : \A n \in Y : score[n] <= score[m]
      BY <2>2
    <3>2. CASE score[x] <= score[m]
      BY <1>3, <1>5, <3>1, <3>2
    <3>3. CASE score[m] < score[x]
      BY <1>3, <1>5, <3>1, <3>3
    <3> QED
      BY <1>3, <1>5, <3>2, <3>3
  <2> QED
    BY <1>4, <2>1, <2>2
<1> QED
  BY <1>2, <1>6 DEF Topless

------------------------------------------------------------------------------
\* The recursive function behind a sum.
Pick(s) == CHOOSE x \in s : TRUE
Adds(g, f, S) == g = [s \in SUBSET S |-> IF s = {} THEN 0 ELSE f[Pick(s)] + g[s \ {Pick(s)}]]
Adder(f, S) == CHOOSE g : Adds(g, f, S)

LEMMA SumIsAdder ==
  ASSUME NEW f, NEW S
  PROVE  SumFunctionOnSet(f, S) = Adder(f, S)[S]
BY DEF SumFunctionOnSet, FoldFunctionOnSet, MapThenFoldSet, Adder, Adds, Pick

\* There is such a function: it is right on the empty set, and one that is right
\* on the sets of a size can be made right on the sets of the next size.
LEMMA AdderExists ==
  ASSUME NEW f, NEW S, IsFiniteSet(S)
  PROVE  Adds(Adder(f, S), f, S)
<1> DEFINE Body(g, s) == IF s = {} THEN 0 ELSE f[Pick(s)] + g[s \ {Pick(s)}]
           Right(g, n) == /\ DOMAIN g = SUBSET S /\ g = [s \in SUBSET S |-> g[s]]
                          /\ \A s \in SUBSET S : Cardinality(s) <= n => g[s] = Body(g, s)
           Wrong == {n \in Nat : ~\E g : Right(g, n)}
<1>1. \A s \in SUBSET S : /\ IsFiniteSet(s) /\ Cardinality(s) \in Nat /\ Cardinality(s) <= Cardinality(S)
                          /\ s # {} => /\ Pick(s) \in s /\ s \ {Pick(s)} \in SUBSET S
                                       /\ Cardinality(s \ {Pick(s)}) = Cardinality(s) - 1
                          /\ Cardinality(s) = 0 <=> s = {}
  BY FS_Subset, FS_CardinalityType, FS_RemoveElement, FS_EmptySet DEF Pick
<1>2. Wrong = {}
  <2> SUFFICES ASSUME Wrong # {} PROVE FALSE
    OBVIOUS
  <2>1. PICK n \in Wrong : \A m \in Wrong : <<m, n>> \notin OpToRel(<, Nat)
    BY WFMin, NatLessThanWellFounded, Zenon
  <2>2. n \in Nat /\ ~\E g : Right(g, n)
    BY <2>1
  <2>3. CASE n = 0
    <3> DEFINE g == [s \in SUBSET S |-> 0]
    <3>1. ASSUME NEW s \in SUBSET S, Cardinality(s) <= 0 PROVE s = {}
      <4>1. Cardinality(s) \in Nat
        BY <1>1
      <4>2. Cardinality(s) = 0
        BY <3>1, <4>1
      <4> QED
        BY <1>1, <4>2
    <3>2. Right(g, 0)
      BY <3>1
    <3> QED
      BY <2>2, <2>3, <3>2
  <2>4. CASE n # 0
    <3>1. n - 1 \in Nat /\ <<n - 1, n>> \in OpToRel(<, Nat)
      BY <2>2, <2>4 DEF OpToRel
    <3>2. PICK g : Right(g, n - 1)
      BY <2>1, <3>1
    <3> DEFINE h == [s \in SUBSET S |-> IF Cardinality(s) <= n - 1 THEN g[s] ELSE Body(g, s)]
    <3>3. \A s \in SUBSET S : /\ Cardinality(s) <= n - 1 => h[s] = g[s]
                              /\ h[s] = Body(g, s)
      BY <3>2
    <3>4. \A s \in SUBSET S : Cardinality(s) <= n /\ s # {} => Cardinality(s \ {Pick(s)}) <= n - 1
      BY <1>1, <2>2
    <3> HIDE DEF h
    <3>5. \A s \in SUBSET S : Cardinality(s) <= n => h[s] = Body(h, s)
      <4> SUFFICES ASSUME NEW s \in SUBSET S, Cardinality(s) <= n PROVE h[s] = Body(h, s)
        OBVIOUS
      <4>1. s # {} => h[s \ {Pick(s)}] = g[s \ {Pick(s)}]
        BY <1>1, <3>3, <3>4
      <4> QED
        BY <3>3, <4>1
    <3>6. Right(h, n)
      BY <3>5 DEF h
    <3> QED
      BY <2>2, <3>6
  <2> QED
    BY <2>3, <2>4
<1>3. PICK g : Right(g, Cardinality(S))
  BY <1>2, FS_CardinalityType
<1>4. \A s \in SUBSET S : g[s] = Body(g, s)
  BY <1>1, <1>3
<1>5. Adds(g, f, S)
  BY <1>3, <1>4 DEF Adds
<1> QED
  BY <1>5 DEF Adder

\* The adders of two sets agree where both are defined.
LEMMA AddersAgree ==
  ASSUME NEW f, NEW S, NEW T \in SUBSET S, IsFiniteSet(S)
  PROVE  Adder(f, S)[T] = Adder(f, T)[T]
<1> DEFINE g == Adder(f, S)
           h == Adder(f, T)
           Differ == {X \in SUBSET T : g[X] # h[X]}
<1>1. IsFiniteSet(T) /\ Adds(g, f, S) /\ Adds(h, f, T)
  BY AdderExists, FS_Subset
<1> HIDE DEF g, h
<1>2. \A X \in SUBSET T : /\ g[X] = IF X = {} THEN 0 ELSE f[Pick(X)] + g[X \ {Pick(X)}]
                          /\ h[X] = IF X = {} THEN 0 ELSE f[Pick(X)] + h[X \ {Pick(X)}]
  BY <1>1 DEF Adds
<1> SUFFICES ASSUME Differ # {} PROVE FALSE
  BY DEF g, h
<1>3. PICK X \in Differ : \A x \in X : X \ {x} \notin Differ
  BY <1>1, SmallestSubset
<1>4. X # {}
  BY <1>2, <1>3
<1>5. Pick(X) \in X
  BY <1>4 DEF Pick
<1>6. g[X \ {Pick(X)}] = h[X \ {Pick(X)}]
  BY <1>3, <1>5
<1> QED
  BY <1>2, <1>3, <1>6

\* A sum is what the fold says, one element after another.
LEMMA SumStep ==
  ASSUME NEW f, NEW S, IsFiniteSet(S)
  PROVE  SumFunctionOnSet(f, S) = IF S = {} THEN 0 ELSE f[Pick(S)] + SumFunctionOnSet(f, S \ {Pick(S)})
<1> DEFINE g == Adder(f, S)
<1>1. Adds(g, f, S)
  BY AdderExists
<1>2. \A T \in SUBSET S : g[T] = SumFunctionOnSet(f, T)
  BY AddersAgree, SumIsAdder
<1> HIDE DEF g
<1>3. g[S] = IF S = {} THEN 0 ELSE f[Pick(S)] + g[S \ {Pick(S)}]
  BY <1>1 DEF Adds
<1> QED
  BY <1>2, <1>3

LEMMA SumEmpty == ASSUME NEW f PROVE SumFunctionOnSet(f, {}) = 0
BY SumStep, FS_EmptySet

\* The sum of integers is one.
LEMMA SumType ==
  ASSUME NEW f, NEW S, IsFiniteSet(S), \A x \in S : f[x] \in Int
  PROVE  SumFunctionOnSet(f, S) \in Int
<1> DEFINE Bad == {X \in SUBSET S : SumFunctionOnSet(f, X) \notin Int}
<1> SUFFICES ASSUME Bad # {} PROVE FALSE
  OBVIOUS
<1>1. PICK X \in Bad : IsFiniteSet(X) /\ \A x \in X : X \ {x} \notin Bad
  BY SmallestSubset
<1>2. SumFunctionOnSet(f, X) = IF X = {} THEN 0 ELSE f[Pick(X)] + SumFunctionOnSet(f, X \ {Pick(X)})
  BY <1>1, SumStep
<1>3. X # {} => Pick(X) \in X
  BY DEF Pick
<1>4. X # {} => f[Pick(X)] \in Int /\ SumFunctionOnSet(f, X \ {Pick(X)}) \in Int
  BY <1>1, <1>3
<1> QED
  BY <1>1, <1>2, <1>4

\* Any element may be taken out of a sum, not only the one the fold picks.
LEMMA SumSplit ==
  ASSUME NEW f, NEW S, IsFiniteSet(S), \A x \in S : f[x] \in Int, NEW x \in S
  PROVE  SumFunctionOnSet(f, S) = f[x] + SumFunctionOnSet(f, S \ {x})
<1> DEFINE Sum(X) == SumFunctionOnSet(f, X)
           Bad == {X \in SUBSET S : \E y \in X : Sum(X) # f[y] + Sum(X \ {y})}
<1> SUFFICES ASSUME Bad # {} PROVE FALSE
  OBVIOUS
<1>1. PICK X \in Bad : IsFiniteSet(X) /\ \A y \in X : X \ {y} \notin Bad
  BY SmallestSubset
<1>2. PICK y \in X : Sum(X) # f[y] + Sum(X \ {y})
  BY <1>1
<1> DEFINE p == Pick(X)
<1>3. p \in X /\ Sum(X) = f[p] + Sum(X \ {p})
  BY <1>1, SumStep DEF Pick
<1> HIDE DEF p
<1>4. p # y
  BY <1>2, <1>3
<1>5. Sum(X \ {p}) = f[y] + Sum((X \ {p}) \ {y})
  BY <1>1, <1>2, <1>3, <1>4
<1>6. Sum(X \ {y}) = f[p] + Sum((X \ {y}) \ {p})
  BY <1>1, <1>2, <1>3, <1>4
<1>7. (X \ {p}) \ {y} = (X \ {y}) \ {p}
  OBVIOUS
<1>8. Sum((X \ {y}) \ {p}) \in Int /\ f[p] \in Int /\ f[y] \in Int
  <2>1. (X \ {y}) \ {p} \in SUBSET S /\ IsFiniteSet((X \ {y}) \ {p})
    BY <1>1, FS_Subset
  <2> QED
    BY <1>1, <1>2, <1>3, <2>1, SumType
<1> DEFINE r == Sum((X \ {y}) \ {p})
<1>9. /\ r \in Int /\ f[p] \in Int /\ f[y] \in Int
      /\ Sum(X) = f[p] + Sum(X \ {p}) /\ Sum(X \ {p}) = f[y] + r
      /\ Sum(X \ {y}) = f[p] + r /\ Sum(X) # f[y] + Sum(X \ {y})
  BY <1>2, <1>3, <1>5, <1>6, <1>7, <1>8
<1> HIDE DEF Sum, r
<1>10. Sum(X) = f[p] + (f[y] + r) /\ Sum(X) # f[y] + (f[p] + r)
  BY <1>9
<1> QED
  BY <1>9, <1>10

\* A sum depends on the summands alone.
LEMMA SumSame ==
  ASSUME NEW f, NEW g, NEW S, IsFiniteSet(S), \A x \in S : f[x] = g[x]
  PROVE  SumFunctionOnSet(f, S) = SumFunctionOnSet(g, S)
<1> DEFINE Bad == {X \in SUBSET S : SumFunctionOnSet(f, X) # SumFunctionOnSet(g, X)}
<1> SUFFICES ASSUME Bad # {} PROVE FALSE
  OBVIOUS
<1>1. PICK X \in Bad : IsFiniteSet(X) /\ \A x \in X : X \ {x} \notin Bad
  BY SmallestSubset
<1>2. /\ SumFunctionOnSet(f, X) = IF X = {} THEN 0 ELSE f[Pick(X)] + SumFunctionOnSet(f, X \ {Pick(X)})
      /\ SumFunctionOnSet(g, X) = IF X = {} THEN 0 ELSE g[Pick(X)] + SumFunctionOnSet(g, X \ {Pick(X)})
  BY <1>1, SumStep
<1>3. X # {} => Pick(X) \in X
  BY DEF Pick
<1> QED
  BY <1>1, <1>2, <1>3

\* One summand changes: the sum changes by as much.
LEMMA SumChange ==
  ASSUME NEW f, NEW g, NEW S, IsFiniteSet(S), \A x \in S : f[x] \in Int /\ g[x] \in Int,
         NEW y \in S, \A x \in S \ {y} : f[x] = g[x]
  PROVE  SumFunctionOnSet(g, S) = SumFunctionOnSet(f, S) - f[y] + g[y]
<1>1. IsFiniteSet(S \ {y})
  BY FS_Subset
<1>2. SumFunctionOnSet(f, S \ {y}) = SumFunctionOnSet(g, S \ {y})
  BY <1>1, SumSame
<1>3. /\ SumFunctionOnSet(f, S) = f[y] + SumFunctionOnSet(f, S \ {y})
      /\ SumFunctionOnSet(g, S) = g[y] + SumFunctionOnSet(g, S \ {y})
  BY SumSplit
<1>4. SumFunctionOnSet(f, S \ {y}) \in Int
  BY <1>1, SumType
<1> QED
  BY <1>2, <1>3, <1>4

\* Larger summands, a larger sum.
LEMMA SumMonotone ==
  ASSUME NEW f, NEW g, NEW S, IsFiniteSet(S), \A x \in S : f[x] \in Int /\ g[x] \in Int /\ f[x] <= g[x]
  PROVE  SumFunctionOnSet(f, S) <= SumFunctionOnSet(g, S)
<1> DEFINE Bad == {X \in SUBSET S : ~(SumFunctionOnSet(f, X) <= SumFunctionOnSet(g, X))}
<1> SUFFICES ASSUME Bad # {} PROVE FALSE
  OBVIOUS
<1>1. PICK X \in Bad : IsFiniteSet(X) /\ \A x \in X : X \ {x} \notin Bad
  BY SmallestSubset
<1> DEFINE p == Pick(X)
           F == SumFunctionOnSet(f, X \ {p})
           G == SumFunctionOnSet(g, X \ {p})
<1>2. /\ SumFunctionOnSet(f, X) = IF X = {} THEN 0 ELSE f[p] + F
      /\ SumFunctionOnSet(g, X) = IF X = {} THEN 0 ELSE g[p] + G
  BY <1>1, SumStep
<1>3. X # {} => p \in X
  BY DEF Pick
<1>4. F \in Int /\ G \in Int
  <2>1. IsFiniteSet(X \ {p}) /\ X \ {p} \subseteq S
    BY <1>1, FS_Subset
  <2> QED
    BY <2>1, SumType
<1> HIDE DEF p
<1>5. X # {} => F <= G /\ f[p] \in Int /\ g[p] \in Int /\ f[p] <= g[p]
  BY <1>1, <1>3
<1>6. X \in Bad
  BY <1>1
<1> HIDE DEF F, G
<1> QED
  BY <1>2, <1>4, <1>5, <1>6

\* The sum of zeros.
LEMMA SumZero ==
  ASSUME NEW f, NEW S, IsFiniteSet(S), \A x \in S : f[x] = 0
  PROVE  SumFunctionOnSet(f, S) = 0
<1> DEFINE Bad == {X \in SUBSET S : SumFunctionOnSet(f, X) # 0}
<1> SUFFICES ASSUME Bad # {} PROVE FALSE
  OBVIOUS
<1>1. PICK X \in Bad : IsFiniteSet(X) /\ \A x \in X : X \ {x} \notin Bad
  BY SmallestSubset
<1>2. SumFunctionOnSet(f, X) = IF X = {} THEN 0 ELSE f[Pick(X)] + SumFunctionOnSet(f, X \ {Pick(X)})
  BY <1>1, SumStep
<1>3. X # {} => Pick(X) \in X
  BY DEF Pick
<1> QED
  BY <1>1, <1>2, <1>3

\* Without negative summands the sum is at least 0, and no summand exceeds it.
LEMMA SumBounds ==
  ASSUME NEW f, NEW S, IsFiniteSet(S), \A x \in S : f[x] \in Nat
  PROVE  SumFunctionOnSet(f, S) \in Nat /\ \A x \in S : f[x] <= SumFunctionOnSet(f, S)
<1> DEFINE zero == [x \in S |-> 0]
<1>1. ASSUME NEW T \in SUBSET S PROVE SumFunctionOnSet(f, T) \in Nat
  <2>1. IsFiniteSet(T)
    BY FS_Subset
  <2>2. SumFunctionOnSet(zero, T) = 0
    BY <2>1, SumZero
  <2>3. SumFunctionOnSet(zero, T) <= SumFunctionOnSet(f, T)
    BY <2>1, SumMonotone
  <2>4. SumFunctionOnSet(f, T) \in Int
    BY <2>1, SumType
  <2> HIDE DEF zero
  <2> QED
    BY <2>2, <2>3, <2>4
<1>2. ASSUME NEW x \in S PROVE f[x] <= SumFunctionOnSet(f, S)
  <2>1. SumFunctionOnSet(f, S) = f[x] + SumFunctionOnSet(f, S \ {x})
    BY SumSplit
  <2>2. SumFunctionOnSet(f, S \ {x}) \in Nat
    BY <1>1
  <2> QED
    BY <2>1, <2>2
<1> QED
  BY <1>1, <1>2

\* Over more elements, and with summands that are greater and not negative, the sum
\* is no smaller.
LEMMA SumCovered ==
  ASSUME NEW f, NEW g, NEW S, IsFiniteSet(S), NEW T \in SUBSET S,
         \A x \in S : g[x] \in Nat, \A x \in T : f[x] \in Int /\ f[x] <= g[x]
  PROVE  SumFunctionOnSet(f, T) <= SumFunctionOnSet(g, S)
<1> DEFINE Bad == {X \in SUBSET S : T \subseteq X /\ ~(SumFunctionOnSet(f, T) <= SumFunctionOnSet(g, X))}
<1> SUFFICES ASSUME Bad # {} PROVE FALSE
  OBVIOUS
<1>1. PICK X \in Bad : IsFiniteSet(X) /\ \A x \in X : X \ {x} \notin Bad
  <2>1. Bad \in SUBSET (SUBSET S)
    OBVIOUS
  <2> HIDE DEF Bad
  <2> QED
    BY <2>1, SmallestSubset
<1>2. IsFiniteSet(T) /\ SumFunctionOnSet(f, T) \in Int
  BY FS_Subset, SumType
<1>3. SumFunctionOnSet(f, T) <= SumFunctionOnSet(g, T)
  BY <1>2, SumMonotone
<1>4. PICK x \in X : x \notin T
  BY <1>1, <1>3
<1>5. SumFunctionOnSet(g, X) = g[x] + SumFunctionOnSet(g, X \ {x})
  BY <1>1, <1>4, SumSplit
<1>6. SumFunctionOnSet(g, X \ {x}) \in Int /\ g[x] \in Nat
  <2>1. IsFiniteSet(X \ {x})
    BY <1>1, FS_Subset
  <2> QED
    BY <1>1, <1>4, <2>1, SumType
<1>7. SumFunctionOnSet(f, T) <= SumFunctionOnSet(g, X \ {x})
  BY <1>1, <1>4
<1>8. ~(SumFunctionOnSet(f, T) <= SumFunctionOnSet(g, X))
  BY <1>1
<1> HIDE DEF Bad
<1> QED
  BY <1>2, <1>5, <1>6, <1>7, <1>8

\* A posting of n to one account of a ledger raises the sum of its balances by n.
Posted(f, y, n) == [f EXCEPT ![y] = @ + n]

LEMMA SumPost ==
  ASSUME NEW S, IsFiniteSet(S), NEW f \in [S -> Int], NEW y \in S, NEW n \in Int
  PROVE  SumFunction(Posted(f, y, n)) = SumFunction(f) + n
<1> DEFINE g == Posted(f, y, n)
<1>1. ASSUME NEW e, NEW h, DOMAIN e = S, DOMAIN h = S, \A x \in S : e[x] \in Int,
             h[y] = e[y] + n, \A x \in S \ {y} : h[x] = e[x]
      PROVE  SumFunction(h) = SumFunction(e) + n
  <2>1. (\A x \in S : e[x] \in Int /\ h[x] \in Int) /\ (\A x \in S \ {y} : e[x] = h[x])
    BY <1>1
  <2>2. SumFunctionOnSet(h, S) = SumFunctionOnSet(e, S) - e[y] + h[y]
    BY <2>1, SumChange
  <2>3. SumFunctionOnSet(e, S) \in Int
    BY <2>1, SumType
  <2> QED
    BY <1>1, <2>1, <2>2, <2>3 DEF SumFunction
<1>2. /\ DOMAIN f = S /\ DOMAIN g = S /\ \A x \in S : f[x] \in Int
      /\ g[y] = f[y] + n /\ \A x \in S \ {y} : g[x] = f[x]
  BY DEF Posted
<1> QED
  BY <1>1, <1>2
=============================================================================
