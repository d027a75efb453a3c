----------------------------- MODULE SumTheorems -----------------------------
(***************************************************************************)
(* The sum of an integer function over a finite set, for proofs.  It is    *)
(* characterised by what a step does to it: the sum of zeros is zero, and  *)
(* a new value at one place changes the sum by the difference, and larger  *)
(* values have a larger sum.  Finite sets and numbers are gone through by  *)
(* inductions over the set of those that have a property.                  *)
(***************************************************************************)
EXTENDS Integers, FiniteSets, FiniteSetTheorems, TLAPS

Zeros(S) == [x \in S |-> 0]

IsSum(S, total) ==
    /\ total \in [[S -> Int] -> Int]
    /\ total[Zeros(S)] = 0
    /\ \A f \in [S -> Int], x \in S, n \in Int :
          total[[f EXCEPT ![x] = n]] = (total[f] - f[x]) + n
    /\ \A f, g \in [S -> Int] :
          (\A x \in S : f[x] <= g[x]) => total[f] <= total[g]

Total(S) == CHOOSE total : IsSum(S, total)

\* A property of the empty set that goes from a set to the set with one element
\* more holds of every finite set.  The property is given by the sets that have it.
THEOREM SubsetInduction ==
    ASSUME NEW S, IsFiniteSet(S), NEW Good,
           {} \in Good,
           \A T \in SUBSET S : \A x \in S \ T :
              T \in Good => T \union {x} \in Good
    PROVE  S \in Good
<1> SUFFICES ASSUME S \notin Good PROVE FALSE
  OBVIOUS
<1> DEFINE Bad == {T \in SUBSET S : T \notin Good}
           R == StrictSubsetOrdering(S)
<1>1. IsWellFoundedOn(R, SUBSET S)
  BY FS_StrictSubsetOrderingWellFounded, FS_FiniteSubsetsOfFinite
<1>2. Bad \subseteq SUBSET S /\ Bad # {}
  OBVIOUS
<1> HIDE DEF Bad, R
<1>3. PICK T \in Bad : \A U \in Bad : ~(<<U, T>> \in R)
  BY <1>1, <1>2, WFMin
<1>4. T \in SUBSET S /\ T \notin Good
  BY <1>3 DEF Bad
<1>5. PICK x \in T : TRUE
  BY <1>4
<1> DEFINE U == T \ {x}
<1>6. U \in SUBSET S /\ x \in S \ U /\ U \union {x} = T
  BY <1>4, <1>5
<1>7. U \notin Good
  BY <1>4, <1>6
<1>8. U \in Bad /\ <<U, T>> \in R
  BY <1>4, <1>5, <1>6, <1>7 DEF Bad, R, StrictSubsetOrdering
<1> QED BY <1>3, <1>8

\* The sum over a set with one element more is the sum over the rest and the
\* value there.
LEMMA SumOfOneMore ==
    ASSUME NEW T, NEW x, x \notin T, NEW total, IsSum(T, total)
    PROVE  \E more : IsSum(T \union {x}, more)
<1> DEFINE U == T \union {x}
           Rest(f) == [t \in T |-> f[t]]
           more == [f \in [U -> Int] |-> total[Rest(f)] + f[x]]
<1>1. \A f \in [U -> Int] : Rest(f) \in [T -> Int] /\ f[x] \in Int
  OBVIOUS
<1>2. more \in [[U -> Int] -> Int]
  BY <1>1 DEF IsSum
<1>3. more[Zeros(U)] = 0
  <2>1. Zeros(U) \in [U -> Int] /\ Rest(Zeros(U)) = Zeros(T) /\ Zeros(U)[x] = 0
    BY DEF Zeros
  <2>2. more[Zeros(U)] = total[Rest(Zeros(U))] + Zeros(U)[x]
    BY <2>1
  <2>3. total[Zeros(T)] = 0
    BY DEF IsSum
  <2> HIDE DEF more, Rest, U
  <2> QED BY <2>1, <2>2, <2>3
<1>4. ASSUME NEW f \in [U -> Int], NEW y \in U, NEW n \in Int
      PROVE  more[[f EXCEPT ![y] = n]] = (more[f] - f[y]) + n
  <2> DEFINE g == [f EXCEPT ![y] = n]
  <2>1. g \in [U -> Int] /\ Rest(f) \in [T -> Int] /\ f[x] \in Int
    OBVIOUS
  <2>2. more[g] = total[Rest(g)] + g[x] /\ more[f] = total[Rest(f)] + f[x]
    BY <2>1
  <2>3. CASE y = x
    <3>1. Rest(g) = Rest(f) /\ g[x] = n
      BY <2>3
    <3> QED BY <2>1, <2>2, <2>3, <3>1 DEF IsSum
  <2>4. CASE y # x
    <3>1. y \in T /\ g[x] = f[x] /\ Rest(f)[y] = f[y]
      BY <2>4
    <3>2. Rest(g) = [Rest(f) EXCEPT ![y] = n]
      BY <2>4
    <3>3. total[Rest(g)] = (total[Rest(f)] - f[y]) + n
      BY <2>1, <3>1, <3>2 DEF IsSum
    <3>4. total[Rest(f)] \in Int /\ f[y] \in Int
      BY <2>1 DEF IsSum
    <3> QED BY <2>1, <2>2, <3>1, <3>3, <3>4
  <2> QED BY <2>3, <2>4
<1>5. ASSUME NEW f \in [U -> Int], NEW g \in [U -> Int],
             \A y \in U : f[y] <= g[y]
      PROVE  more[f] <= more[g]
  <2>1. /\ Rest(f) \in [T -> Int] /\ Rest(g) \in [T -> Int]
        /\ f[x] \in Int /\ g[x] \in Int /\ f[x] <= g[x]
        /\ \A y \in T : Rest(f)[y] <= Rest(g)[y]
    BY <1>5
  <2>2. more[f] = total[Rest(f)] + f[x] /\ more[g] = total[Rest(g)] + g[x]
    BY <2>1
  <2>3. /\ total[Rest(f)] <= total[Rest(g)]
        /\ total[Rest(f)] \in Int /\ total[Rest(g)] \in Int
    BY <2>1 DEF IsSum
  <2> QED BY <2>1, <2>2, <2>3
<1> HIDE DEF more, U
<1>6. IsSum(U, more)
  BY <1>2, <1>3, <1>4, <1>5 DEF IsSum
<1> QED BY <1>6 DEF U

\* Every finite set has a sum.
THEOREM SumExists ==
    ASSUME NEW S, IsFiniteSet(S)
    PROVE  IsSum(S, Total(S))
<1> DEFINE Good == {T \in SUBSET S : \E total : IsSum(T, total)}
<1>1. {} \in Good
  <2> DEFINE none == [f \in [{} -> Int] |-> 0]
  <2>1. IsSum({}, none)
    BY DEF IsSum, Zeros
  <2> QED BY <2>1
<1>2. ASSUME NEW T \in SUBSET S, NEW x \in S \ T, T \in Good
      PROVE  T \union {x} \in Good
  BY <1>2, SumOfOneMore
<1> HIDE DEF Good
<1>3. S \in Good
  BY <1>1, <1>2, SubsetInduction
<1> QED BY <1>3 DEF Good, Total

\* What a proof needs of a sum: its type, its value for zeros, and what a new
\* value at one place does to it.
THEOREM SumFacts ==
    ASSUME NEW S, IsFiniteSet(S)
    PROVE  /\ \A f \in [S -> Int] : Total(S)[f] \in Int
           /\ \A f \in [S -> Int] :
                 (\A x \in S : f[x] = 0) => Total(S)[f] = 0
           /\ \A f \in [S -> Int] :
                 (\A x \in S : f[x] >= 0) => Total(S)[f] >= 0
           /\ \A f, g \in [S -> Int] :
                 (\A x \in S : f[x] <= g[x]) => Total(S)[f] <= Total(S)[g]
<1>1. IsSum(S, Total(S))
  BY SumExists
<1>2. Zeros(S) \in [S -> Int] /\ \A x \in S : Zeros(S)[x] = 0
  BY DEF Zeros
<1>3. ASSUME NEW f \in [S -> Int], \A x \in S : f[x] = 0
      PROVE  f = Zeros(S)
  BY <1>3 DEF Zeros
<1>4. Total(S)[Zeros(S)] = 0
  BY <1>1 DEF IsSum
<1> QED BY <1>1, <1>2, <1>3, <1>4 DEF IsSum

\* Two functions that differ at one place at most.
THEOREM SumOfUpdate ==
    ASSUME NEW S, IsFiniteSet(S), NEW f \in [S -> Int], NEW g \in [S -> Int],
           NEW x \in S, \A y \in S \ {x} : g[y] = f[y]
    PROVE  Total(S)[g] = (Total(S)[f] - f[x]) + g[x]
<1>1. g = [f EXCEPT ![x] = g[x]] /\ g[x] \in Int
  OBVIOUS
<1>2. IsSum(S, Total(S))
  BY SumExists
<1>3. Total(S)[[f EXCEPT ![x] = g[x]]] = (Total(S)[f] - f[x]) + g[x]
  BY <1>1, <1>2 DEF IsSum
<1> QED BY <1>1, <1>3

\* A set of numbers that has 0, and with each number the next, has them all.
THEOREM CountingInduction ==
    ASSUME NEW K, 0 \in K, \A n \in Nat : n \in K => n + 1 \in K
    PROVE  \A n \in Nat : n \in K
<1> SUFFICES ASSUME NEW n \in Nat PROVE n \in K
  OBVIOUS
<1> DEFINE S == 1..n
           Good == {T \in SUBSET S : Cardinality(T) \in K}
<1>1. IsFiniteSet(S) /\ Cardinality(S) = n
  BY FS_Interval
<1>2. {} \in Good
  BY FS_EmptySet
<1>3. ASSUME NEW T \in SUBSET S, NEW x \in S \ T, T \in Good
      PROVE  T \union {x} \in Good
  <2>1. IsFiniteSet(T) /\ Cardinality(T) \in Nat
    BY <1>1, FS_Subset, FS_CardinalityType
  <2>2. Cardinality(T \union {x}) = Cardinality(T) + 1
    BY <2>1, FS_AddElement
  <2> QED BY <1>3, <2>1, <2>2
<1> HIDE DEF S, Good
<1>4. S \in Good
  BY <1>1, <1>2, <1>3, SubsetInduction
<1> QED BY <1>1, <1>4 DEF Good

\* A set of natural numbers that is not empty has a least one.
THEOREM LeastNumber ==
    ASSUME NEW T \in SUBSET Nat, T # {}
    PROVE  \E x \in T : \A y \in T : x <= y
<1> SUFFICES ASSUME \A x \in T : \E y \in T : y < x PROVE FALSE
  OBVIOUS
<1> DEFINE K == {n \in Nat : \A x \in T : x > n}
<1>1. 0 \in K
  OBVIOUS
<1>2. \A n \in Nat : n \in K => n + 1 \in K
  <2> SUFFICES ASSUME NEW n \in Nat, n \in K, NEW x \in T PROVE x > n + 1
    OBVIOUS
  <2>1. PICK y \in T : y < x
    OBVIOUS
  <2>2. y > n
    OBVIOUS
  <2> QED BY <2>1, <2>2
<1> HIDE DEF K
<1>3. \A n \in Nat : n \in K
  BY <1>1, <1>2, CountingInduction
<1>4. PICK x \in T : TRUE
  OBVIOUS
<1> QED BY <1>3, <1>4 DEF K

\* What a fold that takes the elements of a set one by one computes.
IsFold(f, S, iter) ==
    iter = [s \in SUBSET S |->
              IF s = {} THEN 0
              ELSE f[CHOOSE x \in s : TRUE] + iter[s \ {CHOOSE x \in s : TRUE}]]

\* The summands of a part of the set.
Part(U, f, s) == [y \in U |-> IF y \in s THEN f[y] ELSE 0]

\* A part with one element less has its summand less.
LEMMA PartSum ==
    ASSUME NEW U, IsFiniteSet(U), NEW f \in [U -> Int], NEW s \in SUBSET U,
           NEW x \in s
    PROVE  /\ Total(U)[Part(U, f, s)] = f[x] + Total(U)[Part(U, f, s \ {x})]
           /\ Total(U)[Part(U, f, s \ {x})] \in Int
<1> DEFINE g == Part(U, f, s)
           h == Part(U, f, s \ {x})
<1>1. g \in [U -> Int] /\ h \in [U -> Int] /\ h[x] = 0 /\ g[x] = f[x]
  BY DEF Part
<1>2. \A y \in U \ {x} : g[y] = h[y]
  BY DEF Part
<1>3. f[x] \in Int
  OBVIOUS
<1> HIDE DEF g, h
<1>4. Total(U)[g] = (Total(U)[h] - h[x]) + g[x]
  BY <1>1, <1>2, SumOfUpdate
<1>5. Total(U)[h] \in Int
  BY <1>1, SumFacts
<1>6. Total(U)[g] = f[x] + Total(U)[h]
  BY <1>1, <1>3, <1>4, <1>5
<1> QED BY <1>5, <1>6 DEF g, h

\* There is such a fold,
THEOREM FoldExists ==
    ASSUME NEW U, IsFiniteSet(U), NEW f \in [U -> Int], NEW S \in SUBSET U
    PROVE  \E iter : IsFold(f, S, iter)
<1> DEFINE iter == [s \in SUBSET S |-> Total(U)[Part(U, f, s)]]
<1>1. ASSUME NEW s \in SUBSET S
      PROVE  iter[s] = IF s = {} THEN 0
                       ELSE f[CHOOSE x \in s : TRUE]
                              + iter[s \ {CHOOSE x \in s : TRUE}]
  <2>1. CASE s = {}
    <3>1. Part(U, f, s) \in [U -> Int] /\ \A y \in U : Part(U, f, s)[y] = 0
      BY <2>1 DEF Part
    <3> QED BY <2>1, <3>1, SumFacts
  <2>2. CASE s # {}
    <3> DEFINE x == CHOOSE x \in s : TRUE
    <3>1. x \in s
      BY <2>2
    <3> HIDE DEF x
    <3>2. s \ {x} \in SUBSET S /\ s \in SUBSET U
      OBVIOUS
    <3>3. iter[s] = f[x] + iter[s \ {x}]
      BY <3>1, <3>2, PartSum
    <3> QED BY <2>2, <3>3 DEF x
  <2> QED BY <2>1, <2>2
<1>2. iter = [s \in SUBSET S |-> iter[s]]
  OBVIOUS
<1> HIDE DEF iter
<1> QED BY <1>1, <1>2 DEF IsFold

\* and every one comes to the sum.
THEOREM FoldIsSum ==
    ASSUME NEW U, IsFiniteSet(U), NEW f \in [U -> Int], NEW S \in SUBSET U,
           \A y \in U \ S : f[y] = 0, NEW iter, IsFold(f, S, iter)
    PROVE  iter[S] = Total(U)[f]
<1> DEFINE Right(s) == iter[s] = Total(U)[Part(U, f, s)]
           K == {n \in Nat : \A s \in SUBSET S : Cardinality(s) = n => Right(s)}
<1>1. \A s \in SUBSET S : IsFiniteSet(s) /\ Cardinality(s) \in Nat
  <2>1. \A s \in SUBSET S : s \subseteq U
    OBVIOUS
  <2> QED BY <2>1, FS_Subset, FS_CardinalityType
<1>2. \A s \in SUBSET S :
         iter[s] = IF s = {} THEN 0
                   ELSE f[CHOOSE x \in s : TRUE]
                          + iter[s \ {CHOOSE x \in s : TRUE}]
  BY DEF IsFold
<1>3. Right({})
  <2>1. iter[{}] = 0
    BY <1>2
  <2>2. Part(U, f, {}) \in [U -> Int] /\ \A y \in U : Part(U, f, {})[y] = 0
    BY DEF Part
  <2> QED BY <2>1, <2>2, SumFacts
<1>4. ASSUME NEW s \in SUBSET S, s # {},
             \A t \in SUBSET S : Cardinality(t) = Cardinality(s) - 1 => Right(t)
      PROVE  Right(s)
  <2> DEFINE x == CHOOSE x \in s : TRUE
  <2>1. x \in s
    BY <1>4
  <2>2. iter[s] = f[x] + iter[s \ {x}]
    BY <1>2, <1>4
  <2> HIDE DEF x
  <2>3. Cardinality(s \ {x}) = Cardinality(s) - 1
    BY <1>1, <2>1, FS_RemoveElement
  <2>4. s \ {x} \in SUBSET S /\ s \in SUBSET U
    OBVIOUS
  <2>5. Right(s \ {x})
    BY <1>4, <2>3, <2>4
  <2> QED BY <2>1, <2>2, <2>4, <2>5, PartSum
<1> HIDE DEF Right
<1>5. 0 \in K
  <2>1. \A s \in SUBSET S : Cardinality(s) = 0 => s = {}
    BY <1>1, FS_EmptySet
  <2> QED BY <1>3, <2>1
<1>6. ASSUME NEW n \in Nat, n \in K PROVE n + 1 \in K
  <2> SUFFICES ASSUME NEW s \in SUBSET S, Cardinality(s) = n + 1
               PROVE  Right(s)
    OBVIOUS
  <2>1. s # {}
    BY FS_EmptySet
  <2>2. \A t \in SUBSET S : Cardinality(t) = Cardinality(s) - 1 => Right(t)
    BY <1>6
  <2> QED BY <1>4, <2>1, <2>2
<1> HIDE DEF K
<1>7. \A n \in Nat : n \in K
  BY <1>5, <1>6, CountingInduction
<1>8. Right(S)
  <2>1. Cardinality(S) \in K /\ S \in SUBSET S
    BY <1>1, <1>7
  <2> QED BY <2>1 DEF K
<1>9. Part(U, f, S) = f
  BY DEF Part
<1> QED BY <1>8, <1>9 DEF Right
===============================================================================
