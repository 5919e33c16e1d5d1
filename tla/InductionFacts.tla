--------------------------- MODULE InductionFacts ----------------------------
(***************************************************************************)
(* Induction over numbers and finite sets, recursion, sums and folds.  The *)
(* principles speak of a set P of the numbers, or of the sets, that have a *)
(* property, so that a proof can cite them for any property.               *)
(***************************************************************************)
EXTENDS Integers, Sequences, FiniteSets, Functions, SequencesExt, FiniteSetTheorems, WellFoundedInduction, TLAPS

\* Every set of numbers that has a member has a least one.
LEMMA LeastNumber ==
    ASSUME NEW T \in SUBSET Nat, T # {}
    PROVE  \E m \in T : \A k \in T : m <= k
<1>1. IsWellFoundedOn(OpToRel(<, Nat), Nat)
  BY NatLessThanWellFounded
<1>2. PICK m \in T : \A k \in T : ~(<<k, m>> \in OpToRel(<, Nat))
  BY <1>1, WFMin
<1>3. \A k \in T : k < m => <<k, m>> \in OpToRel(<, Nat)
  BY DEF OpToRel
<1>4. \A k \in T : ~(k < m)
  BY <1>2, <1>3, Zenon
<1>5. \A k \in T : m <= k
  BY <1>4
<1> QED BY <1>5

\* What holds of 0, and of the number after any of which it holds, holds of all.
LEMMA NumberInduction ==
    ASSUME NEW P, 0 \in P, \A n \in Nat : n \in P => n + 1 \in P
    PROVE  Nat \subseteq P
<1> DEFINE T == Nat \ P
<1> SUFFICES ASSUME T # {} PROVE FALSE
  OBVIOUS
<1>1. PICK m \in T : \A k \in T : m <= k
  BY LeastNumber
<1>2. m \in Nat /\ m \notin P
  OBVIOUS
<1>3. m # 0
  BY <1>2
<1>4. m - 1 \in Nat /\ m = (m - 1) + 1 /\ ~(m <= m - 1)
  BY <1>2, <1>3
<1>5. m - 1 \in P
  BY <1>1, <1>4
<1> QED BY <1>2, <1>4, <1>5

\* What holds of {}, and of a set with one more member than any of which it holds, holds of S.
LEMMA SetInduction ==
    ASSUME NEW S, IsFiniteSet(S), NEW P, {} \in P,
           \A T \in SUBSET S : \A x \in S \ T : T \in P => T \union {x} \in P
    PROVE  S \in P
<1> DEFINE Q == {n \in Nat : \A T \in SUBSET S : Cardinality(T) = n => T \in P}
<1>1. \A T \in SUBSET S : IsFiniteSet(T) /\ Cardinality(T) \in Nat
  BY FS_Subset, FS_CardinalityType
<1>2. 0 \in Q
  BY <1>1, FS_EmptySet
<1>3. ASSUME NEW n \in Nat, n \in Q PROVE n + 1 \in Q
  <2> SUFFICES ASSUME NEW T \in SUBSET S, Cardinality(T) = n + 1 PROVE T \in P
    OBVIOUS
  <2>1. T # {}
    BY <1>1, FS_EmptySet
  <2>2. PICK x \in T : TRUE
    BY <2>1
  <2>3. Cardinality(T \ {x}) = n
    <3>1. Cardinality(T \ {x}) = Cardinality(T) - 1
      BY <1>1, FS_RemoveElement
    <3> QED BY <3>1
  <2>4. T \ {x} \in P
    BY <1>3, <2>3
  <2>5. (T \ {x}) \union {x} = T
    OBVIOUS
  <2> QED BY <2>4, <2>5
<1>4. Nat \subseteq Q
  <2> HIDE DEF Q
  <2> QED BY <1>2, <1>3, NumberInduction
<1>5. Cardinality(S) \in Q
  BY <1>1, <1>4
<1> QED BY <1>5

(***************************************************************************)
(* Recursion: where each value depends on that of a predecessor of smaller *)
(* rank, there is a function that satisfies the equation.                  *)
(***************************************************************************)
Ranked(D, V, rank, pred, base, step) ==
    /\ \E N \in Nat : rank \in [D -> 0..N]
    /\ base \in V
    /\ \A d \in D : rank[d] # 0 => /\ pred[d] \in D /\ rank[pred[d]] < rank[d]
                                   /\ \A v \in V : step[<<d, v>>] \in V
Solution(h, D, rank, pred, base, step) ==
    \A d \in D : h[d] = IF rank[d] = 0 THEN base ELSE step[<<d, h[pred[d]]>>]

LEMMA Recursion ==
    ASSUME NEW D, NEW V, NEW rank, NEW pred, NEW base, NEW step, Ranked(D, V, rank, pred, base, step)
    PROVE  \E h \in [D -> V] : Solution(h, D, rank, pred, base, step)
<1> PICK N \in Nat : rank \in [D -> 0..N]
  BY DEF Ranked
<1>0. base \in V /\ \A d \in D : rank[d] # 0 => /\ pred[d] \in D /\ rank[pred[d]] < rank[d]
                                               /\ \A v \in V : step[<<d, v>>] \in V
  BY DEF Ranked
<1> DEFINE Below(n) == {d \in D : rank[d] <= n}
           Solves(h, n) == \A d \in Below(n) :
                              h[d] = IF rank[d] = 0 THEN base ELSE step[<<d, h[pred[d]]>>]
           Q == {n \in Nat : \E h \in [Below(n) -> V] : Solves(h, n)}
<1>1. 0 \in Q
  <2> DEFINE h == [d \in Below(0) |-> base]
  <2>1. \A d \in Below(0) : rank[d] = 0 /\ h[d] = base
    OBVIOUS
  <2>2. h \in [Below(0) -> V] /\ Solves(h, 0)
    BY <1>0, <2>1
  <2> HIDE DEF h, Solves
  <2> QED BY <2>2
<1>2. ASSUME NEW n \in Nat, n \in Q PROVE n + 1 \in Q
  <2>1. PICK g \in [Below(n) -> V] : Solves(g, n)
    BY <1>2
  <2> DEFINE h == [d \in Below(n + 1) |-> IF d \in Below(n) THEN g[d] ELSE step[<<d, g[pred[d]]>>]]
  <2>2. \A d \in Below(n + 1) : rank[d] # 0 => pred[d] \in Below(n)
    BY <1>0
  <2>3. \A d \in Below(n + 1) : d \notin Below(n) => rank[d] # 0
    OBVIOUS
  <2>4. Below(n) \subseteq Below(n + 1)
    OBVIOUS
  <2>5. \A d \in Below(n) : g[d] \in V /\ h[d] = g[d]
    BY <2>4
  <2>6. \A d \in Below(n + 1) : d \in D
    OBVIOUS
  <2>7. h \in [Below(n + 1) -> V]
    <3> SUFFICES ASSUME NEW d \in Below(n + 1)
                 PROVE  (IF d \in Below(n) THEN g[d] ELSE step[<<d, g[pred[d]]>>]) \in V
      OBVIOUS
    <3> HIDE DEF h, Below, Solves
    <3> QED BY <1>0, <2>2, <2>3, <2>5, <2>6
  <2>8. Solves(h, n + 1)
    <3> SUFFICES ASSUME NEW d \in Below(n + 1)
                 PROVE  h[d] = IF rank[d] = 0 THEN base ELSE step[<<d, h[pred[d]]>>]
      OBVIOUS
    <3>1. CASE d \in Below(n)
      <4>1. g[d] = IF rank[d] = 0 THEN base ELSE step[<<d, g[pred[d]]>>]
        BY <2>1, <3>1
      <4> HIDE DEF h, Below, Solves
      <4> QED BY <2>2, <2>5, <3>1, <4>1
    <3>2. CASE d \notin Below(n)
      <4>1. h[d] = step[<<d, g[pred[d]]>>]
        BY <3>2
      <4> HIDE DEF h, Below, Solves
      <4> QED BY <2>2, <2>3, <2>5, <3>2, <4>1
    <3> QED BY <3>1, <3>2
  <2> HIDE DEF h, Solves, Below
  <2> QED BY <2>7, <2>8
<1>3. Nat \subseteq Q
  <2> HIDE DEF Q
  <2> QED BY <1>1, <1>2, NumberInduction
<1>4. N \in Q
  BY <1>3
<1>5. Below(N) = D
  OBVIOUS
<1> QED BY <1>4, <1>5 DEF Solution

\* The function is the only one.
LEMMA RecursionIsUnique ==
    ASSUME NEW D, NEW V, NEW rank, NEW pred, NEW base, NEW step, Ranked(D, V, rank, pred, base, step),
           NEW g, Solution(g, D, rank, pred, base, step),
           NEW h, Solution(h, D, rank, pred, base, step)
    PROVE  \A d \in D : g[d] = h[d]
<1> PICK N \in Nat : rank \in [D -> 0..N]
  BY DEF Ranked
<1>0. \A d \in D : rank[d] # 0 => pred[d] \in D /\ rank[pred[d]] < rank[d]
  BY DEF Ranked
<1> DEFINE Q == {n \in Nat : \A d \in D : rank[d] <= n => g[d] = h[d]}
<1>1. 0 \in Q
  <2> SUFFICES ASSUME NEW d \in D, rank[d] <= 0 PROVE g[d] = h[d]
    OBVIOUS
  <2>1. rank[d] = 0
    OBVIOUS
  <2> QED BY <2>1 DEF Solution
<1>2. ASSUME NEW n \in Nat, n \in Q PROVE n + 1 \in Q
  <2> SUFFICES ASSUME NEW d \in D, rank[d] <= n + 1 PROVE g[d] = h[d]
    OBVIOUS
  <2>1. CASE rank[d] = 0
    BY <2>1 DEF Solution
  <2>2. CASE rank[d] # 0
    <3>1. pred[d] \in D /\ rank[pred[d]] < rank[d]
      BY <1>0, <2>2
    <3>2. rank[pred[d]] <= n
      BY <3>1
    <3>3. g[pred[d]] = h[pred[d]]
      BY <1>2, <3>1, <3>2
    <3> QED BY <2>2, <3>3 DEF Solution
  <2> QED BY <2>1, <2>2
<1>3. Nat \subseteq Q
  <2> HIDE DEF Q
  <2> QED BY <1>1, <1>2, NumberInduction
<1>4. N \in Q
  BY <1>3
<1> QED BY <1>4

-----------------------------------------------------------------------------
(***************************************************************************)
(* Sums.                                                                   *)
(***************************************************************************)
Some(T) == CHOOSE x \in T : TRUE
Summable(f, S) == IsFiniteSet(S) /\ \A x \in S : f[x] \in Nat
IsSum(f, S, h) ==
    \A T \in SUBSET S : h[T] = IF T = {} THEN 0 ELSE f[Some(T)] + h[T \ {Some(T)}]

CountingSum(f, S, h) == h \in [SUBSET S -> Nat] /\ IsSum(f, S, h)

LEMMA SomeIsTaken ==
    ASSUME NEW S, IsFiniteSet(S), NEW T \in SUBSET S
    PROVE  /\ IsFiniteSet(T) /\ Cardinality(T) \in 0..Cardinality(S)
           /\ Cardinality(T) = 0 <=> T = {}
           /\ \A x \in T : Cardinality(T \ {x}) = Cardinality(T) - 1
           /\ T # {} => Some(T) \in T
<1>1. IsFiniteSet(T) /\ Cardinality(T) <= Cardinality(S)
  BY FS_Subset
<1>2. Cardinality(T) \in Nat /\ Cardinality(S) \in Nat
  BY <1>1, FS_CardinalityType
<1>3. T # {} => Some(T) \in T
  BY DEF Some
<1> QED BY <1>1, <1>2, <1>3, FS_EmptySet, FS_RemoveElement

LEMMA SumsExist ==
    ASSUME NEW S, NEW f, Summable(f, S)
    PROVE  \E h \in [SUBSET S -> Nat] : IsSum(f, S, h)
<1> DEFINE D == SUBSET S
           rank == [T \in D |-> Cardinality(T)]
           pred == [T \in D |-> T \ {Some(T)}]
           step == [p \in D \X Nat |-> f[Some(p[1])] + p[2]]
<1>1. IsFiniteSet(S) /\ \A x \in S : f[x] \in Nat
  BY DEF Summable
<1>2. \E N \in Nat : rank \in [D -> 0..N]
  BY <1>1, SomeIsTaken, FS_CardinalityType
<1>3. \A T \in D : rank[T] = 0 <=> T = {}
  BY <1>1, SomeIsTaken
<1>4. ASSUME NEW T \in D, T # {}
      PROVE  /\ pred[T] \in D /\ pred[T] = T \ {Some(T)} /\ rank[pred[T]] < rank[T]
             /\ \A v \in Nat : step[<<T, v>>] = f[Some(T)] + v
             /\ f[Some(T)] \in Nat
  <2>1. Some(T) \in T /\ T \ {Some(T)} \in D
    BY <1>1, <1>4, SomeIsTaken
  <2>2. Cardinality(T \ {Some(T)}) = Cardinality(T) - 1 /\ Cardinality(T) \in 0..Cardinality(S)
    BY <1>1, <2>1, SomeIsTaken
  <2>3. rank[T] = Cardinality(T) /\ rank[T \ {Some(T)}] = Cardinality(T \ {Some(T)})
    BY <2>1
  <2>4. rank[pred[T]] < rank[T]
    <3>1. rank[pred[T]] = rank[T] - 1 /\ rank[T] \in Int
      BY <2>2, <2>3, FS_CardinalityType, <1>1
    <3> HIDE DEF rank
    <3> QED BY <3>1
  <2> QED BY <1>1, <2>1, <2>4
<1> HIDE DEF D, rank, pred, step
<1>5. Ranked(D, Nat, rank, pred, 0, step)
  BY <1>2, <1>3, <1>4 DEF Ranked
<1>6. ASSUME NEW h \in [D -> Nat], Solution(h, D, rank, pred, 0, step)
      PROVE  IsSum(f, S, h)
  <2> SUFFICES ASSUME NEW T \in D
               PROVE  h[T] = IF T = {} THEN 0 ELSE f[Some(T)] + h[T \ {Some(T)}]
    BY DEF IsSum, D
  <2>1. h[T] = IF rank[T] = 0 THEN 0 ELSE step[<<T, h[pred[T]]>>]
    BY <1>6 DEF Solution
  <2>2. T # {} => h[pred[T]] \in Nat
    BY <1>4, <1>6
  <2>3. T # {} => h[T] = f[Some(T)] + h[pred[T]]
    BY <1>3, <1>4, <2>1, <2>2
  <2> QED BY <1>3, <1>4, <2>1, <2>3
<1>7. PICK h \in [D -> Nat] : IsSum(f, S, h)
  <2>1. PICK h \in [D -> Nat] : Solution(h, D, rank, pred, 0, step)
    BY <1>5, Recursion
  <2> QED BY <1>6, <2>1
<1> QED BY <1>7 DEF D

LEMMA SumsAgree ==
    ASSUME NEW S, NEW f, Summable(f, S), NEW g, IsSum(f, S, g), NEW h, IsSum(f, S, h),
           NEW T \in SUBSET S
    PROVE  g[T] = h[T]
<1> DEFINE D == SUBSET S
           Q == {n \in Nat : \A R \in D : Cardinality(R) <= n => g[R] = h[R]}
<1>1. IsFiniteSet(S) /\ \A x \in S : f[x] \in Nat
  BY DEF Summable
<1>2. 0 \in Q
  <2> SUFFICES ASSUME NEW R \in D, Cardinality(R) <= 0 PROVE g[R] = h[R]
    OBVIOUS
  <2>1. R = {}
    BY <1>1, SomeIsTaken
  <2> QED BY <2>1 DEF IsSum
<1>3. ASSUME NEW n \in Nat, n \in Q PROVE n + 1 \in Q
  <2> SUFFICES ASSUME NEW R \in D, Cardinality(R) <= n + 1 PROVE g[R] = h[R]
    OBVIOUS
  <2>1. CASE R = {}
    BY <2>1 DEF IsSum
  <2>2. CASE R # {}
    <3>1. Some(R) \in R /\ Cardinality(R) \in Nat /\ Cardinality(R \ {Some(R)}) = Cardinality(R) - 1
      BY <1>1, <2>2, SomeIsTaken, FS_CardinalityType
    <3>2. R \ {Some(R)} \in D /\ Cardinality(R \ {Some(R)}) <= n
      BY <3>1
    <3>3. g[R \ {Some(R)}] = h[R \ {Some(R)}]
      BY <1>3, <3>2
    <3> QED BY <2>2, <3>3 DEF IsSum
  <2> QED BY <2>1, <2>2
<1>4. Nat \subseteq Q
  <2> HIDE DEF Q
  <2> QED BY <1>2, <1>3, NumberInduction
<1>5. Cardinality(T) \in Nat
  BY <1>1, SomeIsTaken, FS_CardinalityType
<1>6. Cardinality(T) \in Q /\ Cardinality(T) <= Cardinality(T)
  BY <1>4, <1>5
<1> QED BY <1>6

\* A sum is the value of any such function.
LEMMA SumIsSum ==
    ASSUME NEW S, NEW f, Summable(f, S), NEW h, IsSum(f, S, h)
    PROVE  SumFunctionOnSet(f, S) = h[S] /\ h[S] \in Nat
<1> DEFINE F(k) == [T \in SUBSET S |-> IF T = {} THEN 0 ELSE f[Some(T)] + k[T \ {Some(T)}]]
           iter == CHOOSE k : k = F(k)
<1>1. SumFunctionOnSet(f, S) = iter[S]
  BY Zenon DEF SumFunctionOnSet, FoldFunctionOnSet, MapThenFoldSet, Some
<1>2. PICK g \in [SUBSET S -> Nat] : IsSum(f, S, g)
  BY SumsExist
<1>3. g = F(g)
  BY <1>2 DEF IsSum
<1>4. iter = F(iter)
  <2> HIDE DEF F
  <2> QED BY <1>3, Zenon
<1>5. IsSum(f, S, iter)
  <2> HIDE DEF iter
  <2>1. \A T \in SUBSET S : F(iter)[T] = IF T = {} THEN 0 ELSE f[Some(T)] + iter[T \ {Some(T)}]
    OBVIOUS
  <2> HIDE DEF F
  <2> QED BY <1>4, <2>1 DEF IsSum
<1>6. S \in SUBSET S
  OBVIOUS
<1>7. iter[S] = g[S] /\ h[S] = g[S]
  <2> HIDE DEF iter
  <2> QED BY <1>2, <1>5, <1>6, SumsAgree
<1>8. g[S] \in Nat
  BY <1>2
<1> HIDE DEF iter
<1> QED BY <1>1, <1>7, <1>8

\* Any member may be taken out first.
LEMMA AnyFirst ==
    ASSUME NEW S, NEW f, Summable(f, S),
           NEW h, CountingSum(f, S, h), NEW R \in SUBSET S, NEW z \in R
    PROVE  h[R] = f[z] + h[R \ {z}]
<1>1. \A T \in SUBSET S : IsFiniteSet(T) /\ Cardinality(T) \in Nat
  BY FS_Subset, FS_CardinalityType DEF Summable
<1> DEFINE Q == {n \in Nat : \A T \in SUBSET S : Cardinality(T) <= n =>
                                 \A x \in T : h[T] = f[x] + h[T \ {x}]}
<1>2. 0 \in Q
  <2> SUFFICES ASSUME NEW T \in SUBSET S, Cardinality(T) <= 0 PROVE T = {}
    OBVIOUS
  <2>1. Cardinality(T) = 0
    BY <1>1
  <2> QED BY <1>1, <2>1, FS_EmptySet
<1>3. ASSUME NEW n \in Nat, n \in Q PROVE n + 1 \in Q
  <2> SUFFICES ASSUME NEW T \in SUBSET S, Cardinality(T) <= n + 1, NEW x \in T
               PROVE  h[T] = f[x] + h[T \ {x}]
    OBVIOUS
  <2> DEFINE y == Some(T)
             Without(w) == T \ {w}
             Rest == T \ {x, y}
  <2>1. y \in T
    BY DEF Some
  <2> HIDE DEF y
  <2>2. h[T] = f[y] + h[Without(y)]
    <3>1. T # {}
      OBVIOUS
    <3> QED BY <3>1 DEF CountingSum, IsSum, y
  <2>3. CASE x = y
    BY <2>2, <2>3
  <2>4. CASE x # y
    <3>1. Cardinality(Without(x)) <= n /\ Cardinality(Without(y)) <= n
      <4>1. /\ Cardinality(Without(x)) = Cardinality(T) - 1
            /\ Cardinality(Without(y)) = Cardinality(T) - 1
        BY <1>1, <2>1, FS_RemoveElement
      <4> QED BY <1>1, <4>1
    <3>2. /\ x \in Without(y) /\ y \in Without(x)
          /\ Without(y) \ {x} = Rest /\ Without(x) \ {y} = Rest
          /\ Without(x) \in SUBSET S /\ Without(y) \in SUBSET S /\ Rest \in SUBSET S
      BY <2>1, <2>4
    <3> HIDE DEF Without, Rest
    <3>3. h[Without(y)] = f[x] + h[Rest] /\ h[Without(x)] = f[y] + h[Rest]
      BY <1>3, <3>1, <3>2
    <3>4. f[x] \in Nat /\ f[y] \in Nat /\ h[Rest] \in Nat
      BY <2>1, <3>2 DEF Summable, CountingSum
    <3>5. h[T] = f[x] + h[Without(x)]
      BY <2>2, <3>3, <3>4
    <3> QED BY <3>5 DEF Without
  <2> QED BY <2>3, <2>4
<1>4. Nat \subseteq Q
  <2> HIDE DEF Q
  <2> QED BY <1>2, <1>3, NumberInduction
<1>5. Cardinality(R) \in Q /\ Cardinality(R) <= Cardinality(R)
  BY <1>1, <1>4
<1> QED BY <1>5

\* The sum of nothing, and of one thing more.
LEMMA SumFacts ==
    ASSUME NEW S, NEW f, Summable(f, S)
    PROVE  /\ SumFunctionOnSet(f, S) \in Nat
           /\ S = {} => SumFunctionOnSet(f, S) = 0
           /\ \A x \in S : SumFunctionOnSet(f, S) = f[x] + SumFunctionOnSet(f, S \ {x})
<1>1. PICK h \in [SUBSET S -> Nat] : IsSum(f, S, h)
  BY SumsExist
<1>2. SumFunctionOnSet(f, S) = h[S] /\ h[S] \in Nat
  BY <1>1, SumIsSum
<1>3. S = {} => h[S] = 0
  BY <1>1 DEF IsSum
<1>4. ASSUME NEW x \in S PROVE h[S] = f[x] + SumFunctionOnSet(f, S \ {x})
  <2>1. IsSum(f, S \ {x}, h)
    BY <1>1 DEF IsSum
  <2>2. SumFunctionOnSet(f, S \ {x}) = h[S \ {x}]
    <3>1. Summable(f, S \ {x})
      BY FS_Subset DEF Summable
    <3> QED BY <2>1, <3>1, SumIsSum
  <2>3. S \in SUBSET S
    OBVIOUS
  <2>4. h[S] = f[x] + h[S \ {x}]
    <3>1. CountingSum(f, S, h)
      BY <1>1 DEF CountingSum
    <3> QED BY <2>3, <3>1, AnyFirst
  <2> QED BY <2>2, <2>4
<1> QED BY <1>2, <1>3, <1>4

\* A sum is no smaller for terms that are no smaller.
LEMMA SumMonotone ==
    ASSUME NEW S, NEW f, Summable(f, S), NEW g, Summable(g, S), \A x \in S : f[x] <= g[x]
    PROVE  SumFunctionOnSet(f, S) <= SumFunctionOnSet(g, S)
<1> DEFINE P == {T \in SUBSET S : SumFunctionOnSet(f, T) <= SumFunctionOnSet(g, T)}
<1>1. \A T \in SUBSET S : Summable(f, T) /\ Summable(g, T)
  BY FS_Subset DEF Summable
<1>2. {} \in P
  BY <1>1, SumFacts
<1>3. ASSUME NEW T \in SUBSET S, NEW x \in S \ T, T \in P PROVE T \union {x} \in P
  <2>1. (T \union {x}) \ {x} = T /\ T \union {x} \in SUBSET S /\ x \in T \union {x}
    OBVIOUS
  <2>2. /\ SumFunctionOnSet(f, T \union {x}) = f[x] + SumFunctionOnSet(f, T)
        /\ SumFunctionOnSet(g, T \union {x}) = g[x] + SumFunctionOnSet(g, T)
    BY <1>1, <2>1, SumFacts
  <2>3. /\ SumFunctionOnSet(f, T) \in Nat /\ SumFunctionOnSet(g, T) \in Nat
        /\ f[x] \in Nat /\ g[x] \in Nat
    BY <1>1, SumFacts DEF Summable
  <2> QED BY <1>3, <2>1, <2>2, <2>3
<1>4. S \in P
  <2> HIDE DEF P
  <2> QED BY <1>2, <1>3, SetInduction DEF Summable
<1> QED BY <1>4

\* Two disjoint sets have as many members as both together.
LEMMA DisjointCardinality ==
    ASSUME NEW S, IsFiniteSet(S), NEW T, IsFiniteSet(T), S \cap T = {}
    PROVE  IsFiniteSet(S \union T) /\ Cardinality(S \union T) = Cardinality(S) + Cardinality(T)
<1>1. Cardinality(S \cap T) = 0 /\ Cardinality(S) \in Nat /\ Cardinality(T) \in Nat
  BY FS_EmptySet, FS_CardinalityType
<1>2. IsFiniteSet(S \union T) /\
      Cardinality(S \union T) = Cardinality(S) + Cardinality(T) - Cardinality(S \cap T)
  BY FS_Union
<1> QED BY <1>1, <1>2

\* The classes of a set, by key, have as many members in all as the set.
CountsByKey(f, S, C, key) ==
    /\ \A x \in S : key[x] \in C
    /\ \A c \in C : f[c] = Cardinality({x \in S : key[x] = c})

LEMMA SumOfClasses ==
    ASSUME NEW S, IsFiniteSet(S), NEW C, IsFiniteSet(C), NEW key, NEW f, CountsByKey(f, S, C, key)
    PROVE  SumFunctionOnSet(f, C) = Cardinality(S)
<1> DEFINE Keyed(T) == {x \in S : key[x] \in T}
           P == {T \in SUBSET C : SumFunctionOnSet(f, T) = Cardinality(Keyed(T))}
<1>0. /\ \A x \in S : key[x] \in C
      /\ \A c \in C : f[c] = Cardinality({x \in S : key[x] = c})
  BY DEF CountsByKey
<1>1. \A T : IsFiniteSet(Keyed(T)) /\ Cardinality(Keyed(T)) \in Nat
  BY FS_Subset, FS_CardinalityType
<1>2. \A c \in C : f[c] = Cardinality(Keyed({c}))
  <2> SUFFICES ASSUME NEW c \in C PROVE {x \in S : key[x] = c} = Keyed({c})
    BY <1>0
  <2> QED OBVIOUS
<1>3. \A T \in SUBSET C : Summable(f, T)
  <2>1. \A c \in C : f[c] \in Nat
    <3> HIDE DEF Keyed
    <3> QED BY <1>1, <1>2
  <2>2. \A T \in SUBSET C : IsFiniteSet(T)
    BY FS_Subset
  <2> HIDE DEF Keyed
  <2> QED BY <2>1, <2>2 DEF Summable
<1>4. {} \in P
  <2>1. Keyed({}) = {}
    OBVIOUS
  <2>2. Cardinality(Keyed({})) = 0
    BY <2>1, FS_EmptySet
  <2>3. SumFunctionOnSet(f, {}) = 0
    BY <1>3, SumFacts
  <2> QED BY <2>2, <2>3
<1>5. ASSUME NEW T \in SUBSET C, NEW c \in C \ T, T \in P PROVE T \union {c} \in P
  <2>1. (T \union {c}) \ {c} = T /\ T \union {c} \in SUBSET C /\ c \in T \union {c}
    OBVIOUS
  <2>2. SumFunctionOnSet(f, T \union {c}) = f[c] + SumFunctionOnSet(f, T)
    BY <1>3, <2>1, SumFacts
  <2>3. Keyed(T \union {c}) = Keyed(T) \union Keyed({c}) /\ Keyed(T) \cap Keyed({c}) = {}
    OBVIOUS
  <2> HIDE DEF Keyed
  <2>4. Cardinality(Keyed(T \union {c})) = Cardinality(Keyed(T)) + Cardinality(Keyed({c}))
    BY <1>1, <2>3, DisjointCardinality
  <2>5. SumFunctionOnSet(f, T) = Cardinality(Keyed(T))
    BY <1>5
  <2>6. f[c] = Cardinality(Keyed({c})) /\ f[c] \in Nat /\ Cardinality(Keyed(T)) \in Nat
    BY <1>1, <1>2
  <2>7. SumFunctionOnSet(f, T \union {c}) = Cardinality(Keyed(T \union {c}))
    BY <2>2, <2>4, <2>5, <2>6
  <2> QED BY <2>1, <2>7
<1>6. C \in P
  <2> HIDE DEF P
  <2> QED BY <1>4, <1>5, SetInduction
<1>7. Keyed(C) = S
  BY <1>0
<1> QED BY <1>6, <1>7

-----------------------------------------------------------------------------
\* A product has as many members as the product of the numbers of its factors' members.
LEMMA ProductCardinality ==
    ASSUME NEW S, IsFiniteSet(S), NEW K, IsFiniteSet(K)
    PROVE  IsFiniteSet(S \X K) /\ Cardinality(S \X K) = Cardinality(S) * Cardinality(K)
<1> DEFINE P == {T \in SUBSET S : /\ IsFiniteSet(T \X K)
                                  /\ Cardinality(T \X K) = Cardinality(T) * Cardinality(K)}
<1>1. Cardinality(K) \in Nat /\ \A T \in SUBSET S : IsFiniteSet(T) /\ Cardinality(T) \in Nat
  BY FS_Subset, FS_CardinalityType
<1>2. {} \in P
  <2>1. {} \X K = {}
    OBVIOUS
  <2>2. Cardinality({}) = 0 /\ IsFiniteSet({})
    BY FS_EmptySet
  <2>3. 0 = 0 * Cardinality(K)
    BY <1>1
  <2> QED BY <2>1, <2>2, <2>3
<1>3. ASSUME NEW T \in SUBSET S, NEW x \in S \ T, T \in P PROVE T \union {x} \in P
  <2> DEFINE row == {x} \X K
             pair == [k \in K |-> <<x, k>>]
  <2>1. pair \in Bijection(K, row)
    <3>1. pair \in [K -> row]
      OBVIOUS
    <3>2. \A a, b \in K : pair[a] = pair[b] => a = b
      OBVIOUS
    <3>3. \A t \in row : \E k \in K : pair[k] = t
      <4> SUFFICES ASSUME NEW t \in row PROVE \E k \in K : pair[k] = t
        OBVIOUS
      <4>1. t = <<x, t[2]>> /\ t[2] \in K
        OBVIOUS
      <4>2. pair[t[2]] = t
        BY <4>1
      <4> QED BY <4>1, <4>2
    <3> HIDE DEF pair, row
    <3>4. pair \in Injection(K, row)
      BY <3>1, <3>2 DEF Injection, IsInjective
    <3>5. pair \in Surjection(K, row)
      BY <3>1, <3>3 DEF Surjection
    <3> QED BY <3>4, <3>5 DEF Bijection
  <2>2. ExistsBijection(K, row)
    BY <2>1 DEF ExistsBijection
  <2>3. IsFiniteSet(row) /\ Cardinality(row) = Cardinality(K)
    BY <2>2, FS_Bijection
  <2>4. (T \union {x}) \X K = (T \X K) \union row /\ (T \X K) \cap row = {}
    <3>1. x \notin T
      OBVIOUS
    <3> QED BY <3>1, Zenon
  <2> HIDE DEF row
  <2>5. /\ IsFiniteSet((T \union {x}) \X K)
        /\ Cardinality((T \union {x}) \X K) = Cardinality(T \X K) + Cardinality(K)
    BY <1>3, <2>3, <2>4, DisjointCardinality
  <2>6. Cardinality(T \union {x}) = Cardinality(T) + 1
    BY <1>1, FS_AddElement
  <2>7. Cardinality(T) * Cardinality(K) + Cardinality(K) = (Cardinality(T) + 1) * Cardinality(K)
    BY <1>1
  <2>8. Cardinality(T \X K) = Cardinality(T) * Cardinality(K)
    BY <1>3
  <2> QED BY <2>5, <2>6, <2>7, <2>8
<1>4. S \in P
  <2> HIDE DEF P
  <2> QED BY <1>2, <1>3, SetInduction
<1> QED BY <1>4

-----------------------------------------------------------------------------
(***************************************************************************)
(* Recursion along the first n numbers, as a loop over a sequence does it. *)
(***************************************************************************)
Loop(n, V, base, step) ==
    n \in Nat /\ base \in V /\ \A i \in 1..n : \A v \in V : step[<<i, v>>] \in V
LoopSolution(h, n, base, step) ==
    h[0] = base /\ \A i \in 1..n : h[i] = step[<<i, h[i - 1]>>]

LEMMA LoopRecursion ==
    ASSUME NEW n, NEW V, NEW base, NEW step, Loop(n, V, base, step)
    PROVE  \E h \in [0..n -> V] : LoopSolution(h, n, base, step)
<1> DEFINE D == 0..n
           rank == [i \in D |-> i]
           pred == [i \in D |-> i - 1]
<1>0. n \in Nat
  BY DEF Loop
<1>1. rank \in [D -> 0..n]
  OBVIOUS
<1>2. \A i \in D : rank[i] = i /\ (i # 0 => pred[i] = i - 1 /\ pred[i] \in D /\ pred[i] < i /\ i \in 1..n)
  BY <1>0
<1> HIDE DEF rank, pred, D
<1>3. Ranked(D, V, rank, pred, base, step)
  BY <1>0, <1>1, <1>2 DEF Ranked, Loop
<1>4. PICK h \in [D -> V] : Solution(h, D, rank, pred, base, step)
  BY <1>3, Recursion
<1>5. \A i \in D : h[i] = IF i = 0 THEN base ELSE step[<<i, h[i - 1]>>]
  BY <1>2, <1>4 DEF Solution
<1>6. 0 \in D /\ \A i \in 1..n : i \in D /\ i # 0
  BY <1>0 DEF D
<1>7. LoopSolution(h, n, base, step)
  BY <1>5, <1>6 DEF LoopSolution
<1> QED BY <1>4, <1>7 DEF D

-----------------------------------------------------------------------------
(***************************************************************************)
(* Sequences that grow at their end.                                       *)
(***************************************************************************)
IsSeq(s) == s \in Seq(Range(s))

LEMMA SeqOfAnything == ASSUME NEW S, NEW s \in Seq(S) PROVE IsSeq(s)
<1>1. \A i \in DOMAIN s : s[i] \in Range(s)
  BY DEF Range
<1> QED BY <1>1 DEF IsSeq

LEMMA SeqShape ==
    ASSUME NEW s, IsSeq(s)
    PROVE  Len(s) \in Nat /\ DOMAIN s = 1..Len(s)
BY DEF IsSeq

LEMMA AppendIsSeq ==
    ASSUME NEW s, NEW e, IsSeq(s)
    PROVE  /\ IsSeq(Append(s, e))
           /\ Len(Append(s, e)) = Len(s) + 1
           /\ Append(s, e)[Len(s) + 1] = e
           /\ \A i \in 1..Len(s) : Append(s, e)[i] = s[i]
<1>1. s \in Seq(Range(s) \union {e})
  BY DEF IsSeq
<1>2. Append(s, e) \in Seq(Range(s) \union {e})
  BY <1>1
<1>3. IsSeq(Append(s, e))
  BY <1>2, SeqOfAnything
<1> QED BY <1>1, <1>3

LEMMA ConcatIsSeq ==
    ASSUME NEW s, NEW t, IsSeq(s), IsSeq(t)
    PROVE  /\ IsSeq(s \o t)
           /\ Len(s \o t) = Len(s) + Len(t)
           /\ \A i \in 1..Len(s) : (s \o t)[i] = s[i]
           /\ \A i \in 1..Len(t) : (s \o t)[Len(s) + i] = t[i]
<1> DEFINE S == Range(s) \union Range(t)
<1>1. s \in Seq(S) /\ t \in Seq(S)
  BY DEF IsSeq
<1>2. s \o t \in Seq(S)
  BY <1>1
<1>3. IsSeq(s \o t)
  BY <1>2, SeqOfAnything
<1> HIDE DEF S
<1> QED BY <1>1, <1>3

LEMMA FunctionIsSeq ==
    ASSUME NEW n \in Nat, NEW f, DOMAIN f = 1..n, f = [i \in 1..n |-> f[i]]
    PROVE  IsSeq(f)
<1> DEFINE S == {f[i] : i \in 1..n}
<1>1. f \in [1..n -> S]
  OBVIOUS
<1>2. f \in Seq(S)
  BY <1>1
<1> QED BY <1>2, SeqOfAnything

\* What is in a sequence put after another.
LEMMA RangeOfConcat ==
    ASSUME NEW V, NEW s \in Seq(V), NEW t \in Seq(V)
    PROVE  Range(s \o t) = Range(s) \union Range(t)
<1> DEFINE u == s \o t
<1>1. /\ Len(s) \in Nat /\ Len(t) \in Nat
      /\ DOMAIN s = 1..Len(s) /\ DOMAIN t = 1..Len(t) /\ DOMAIN u = 1..(Len(s) + Len(t))
      /\ \A i \in 1..Len(s) : u[i] = s[i]
      /\ \A i \in 1..Len(t) : u[Len(s) + i] = t[i]
  OBVIOUS
<1> HIDE DEF u
<1>2. ASSUME NEW x \in Range(u) PROVE x \in Range(s) \/ x \in Range(t)
  <2>1. PICK i \in DOMAIN u : x = u[i]
    BY DEF Range
  <2>2. CASE i \in 1..Len(s)
    BY <1>1, <2>1, <2>2 DEF Range
  <2>3. CASE i \notin 1..Len(s)
    <3>1. i - Len(s) \in 1..Len(t) /\ Len(s) + (i - Len(s)) = i
      BY <1>1, <2>3
    <3> QED BY <1>1, <2>1, <3>1 DEF Range
  <2> QED BY <2>2, <2>3
<1>3. ASSUME NEW x \in Range(s) PROVE x \in Range(u)
  <2>1. PICK i \in 1..Len(s) : x = s[i]
    BY <1>1 DEF Range
  <2>2. i \in DOMAIN u
    BY <1>1
  <2> QED BY <1>1, <2>1, <2>2 DEF Range
<1>4. ASSUME NEW x \in Range(t) PROVE x \in Range(u)
  <2>1. PICK i \in 1..Len(t) : x = t[i]
    BY <1>1 DEF Range
  <2>2. Len(s) + i \in DOMAIN u
    BY <1>1
  <2> QED BY <1>1, <2>1, <2>2 DEF Range
<1> QED BY <1>2, <1>3, <1>4 DEF u

(***************************************************************************)
(* Sequences of sequences, one after the other (FlattenSeq).               *)
(***************************************************************************)
SequenceOf(ss, V) == IsSeq(ss) /\ \A i \in 1..Len(ss) : ss[i] \in Seq(V)
\* h[i] is what the first i of the sequences make.
PrefixesOf(h, ss, V) ==
    /\ h \in [0..Len(ss) -> Seq(V)] /\ h[0] = <<>>
    /\ \A i \in 1..Len(ss) : h[i] = h[i - 1] \o ss[i]

LEMMA PrefixesExist ==
    ASSUME NEW V, NEW ss, SequenceOf(ss, V)
    PROVE  \E h : PrefixesOf(h, ss, V)
<1> DEFINE n == Len(ss)
           step == [p \in (0..n) \X Seq(V) |-> p[2] \o ss[p[1]]]
<1>0. n \in Nat
  BY SeqShape DEF SequenceOf
<1>1. Loop(n, Seq(V), <<>>, step)
  <2>1. ASSUME NEW i \in 1..n, NEW v \in Seq(V) PROVE step[<<i, v>>] \in Seq(V)
    <3>1. ss[i] \in Seq(V)
      BY DEF SequenceOf
    <3>2. v \o ss[i] \in Seq(V)
      BY <3>1
    <3>3. i \in 0..n
      BY <1>0
    <3>4. step[<<i, v>>] = v \o ss[i]
      BY <3>3
    <3> QED BY <3>2, <3>4
  <2>2. <<>> \in Seq(V)
    OBVIOUS
  <2> HIDE DEF step, n
  <2> QED BY <1>0, <2>1, <2>2 DEF Loop
<1>2. PICK h \in [0..n -> Seq(V)] : LoopSolution(h, n, <<>>, step)
  BY <1>1, LoopRecursion
<1>3. ASSUME NEW i \in 1..n PROVE h[i] = h[i - 1] \o ss[i]
  <2>1. i \in 0..n /\ i - 1 \in 0..n
    BY <1>0
  <2>2. h[i] = step[<<i, h[i - 1]>>] /\ h[i - 1] \in Seq(V)
    <3> HIDE DEF step
    <3> QED BY <1>2, <2>1 DEF LoopSolution
  <2> QED BY <2>1, <2>2
<1>4. h[0] = <<>>
  BY <1>2 DEF LoopSolution
<1> QED BY <1>2, <1>3, <1>4 DEF PrefixesOf

\* All of them together are the last of the prefixes.
LEMMA FlattenIsLast ==
    ASSUME NEW V, NEW ss, SequenceOf(ss, V), NEW h, PrefixesOf(h, ss, V)
    PROVE  FlattenSeq(ss) = h[Len(ss)]
<1> DEFINE n == Len(ss)
           F(k) == [i \in 1..n |-> IF i = 1 THEN ss[i] ELSE k[i - 1] \o ss[i]]
           flat == CHOOSE k : k = F(k)
           g == [i \in 1..n |-> h[i]]
<1>0. n \in Nat /\ h \in [0..n -> Seq(V)] /\ h[0] = <<>>
      /\ \A i \in 1..n : h[i] = h[i - 1] \o ss[i] /\ ss[i] \in Seq(V)
  BY SeqShape DEF SequenceOf, PrefixesOf
<1>1. CASE n = 0
  <2>1. ss = <<>>
    BY <1>1 DEF SequenceOf, IsSeq
  <2> QED BY <1>0, <1>1, <2>1 DEF FlattenSeq
<1>2. CASE n # 0
  <2>1. FlattenSeq(ss) = flat[n]
    BY <1>2 DEF FlattenSeq
  <2>2. ASSUME NEW i \in 1..n PROVE g[i] = IF i = 1 THEN ss[i] ELSE g[i - 1] \o ss[i]
    <3>1. CASE i = 1
      <4>1. 1 \in 1..n /\ 1 - 1 = 0
        BY <3>1
      <4>2. h[1] = h[0] \o ss[1] /\ ss[1] \in Seq(V)
        BY <1>0, <4>1
      <4>3. <<>> \o ss[1] = ss[1]
        BY <4>2
      <4> QED BY <1>0, <3>1, <4>2, <4>3
    <3>2. CASE i # 1
      <4>1. i - 1 \in 1..n
        BY <1>0, <3>2
      <4> QED BY <1>0, <3>2, <4>1
    <3> QED BY <3>1, <3>2
  <2>3. g = F(g)
    BY <2>2
  <2>4. flat = F(flat)
    <3> HIDE DEF F
    <3> QED BY <2>3, Zenon
  <2>5. \A i \in 1..n : flat[i] = IF i = 1 THEN ss[i] ELSE flat[i - 1] \o ss[i]
    <3> HIDE DEF flat
    <3>1. \A i \in 1..n : F(flat)[i] = IF i = 1 THEN ss[i] ELSE flat[i - 1] \o ss[i]
      OBVIOUS
    <3> HIDE DEF F
    <3> QED BY <2>4, <3>1, Zenon
  <2> HIDE DEF flat, F
  <2> DEFINE Q == {i \in Nat : i + 1 <= n => flat[i + 1] = g[i + 1]}
  <2>6. 0 \in Q
    <3>1. 1 \in 1..n
      BY <1>0, <1>2
    <3> HIDE DEF g
    <3>2. flat[1] = g[1]
      BY <2>2, <2>5, <3>1
    <3> QED BY <3>2
  <2>7. ASSUME NEW i \in Nat, i \in Q PROVE i + 1 \in Q
    <3> SUFFICES ASSUME (i + 1) + 1 <= n PROVE flat[(i + 1) + 1] = g[(i + 1) + 1]
      OBVIOUS
    <3> DEFINE j == (i + 1) + 1
    <3>1. j \in 1..n /\ j # 1 /\ j - 1 = i + 1 /\ i + 1 <= n
      BY <1>0
    <3>2. flat[j - 1] = g[j - 1]
      BY <2>7, <3>1
    <3> HIDE DEF j, g
    <3>3. flat[j] = g[j]
      BY <2>2, <2>5, <3>1, <3>2
    <3> QED BY <3>3 DEF j
  <2>8. Nat \subseteq Q
    <3> HIDE DEF Q
    <3> QED BY <2>6, <2>7, NumberInduction
  <2>9. n - 1 \in Nat /\ (n - 1) + 1 = n /\ n <= n /\ n \in 1..n
    BY <1>0, <1>2
  <2>10. flat[n] = g[n]
    <3>1. n - 1 \in Q
      <4> HIDE DEF Q
      <4> QED BY <2>8, <2>9
    <3> HIDE DEF g
    <3> QED BY <2>9, <3>1
  <2> QED BY <2>1, <2>9, <2>10
<1> QED BY <1>1, <1>2

\* What is in them together is what is in any of them.
LEMMA FlattenFacts ==
    ASSUME NEW V, NEW ss, SequenceOf(ss, V)
    PROVE  /\ FlattenSeq(ss) \in Seq(V)
           /\ Range(FlattenSeq(ss)) = UNION {Range(ss[i]) : i \in 1..Len(ss)}
<1> DEFINE n == Len(ss)
<1>0. n \in Nat
  BY SeqShape DEF SequenceOf
<1>1. PICK h : PrefixesOf(h, ss, V)
  BY PrefixesExist
<1>2. h \in [0..n -> Seq(V)] /\ h[0] = <<>>
      /\ \A i \in 1..n : h[i] = h[i - 1] \o ss[i] /\ ss[i] \in Seq(V)
  BY <1>1 DEF SequenceOf, PrefixesOf
<1>3. FlattenSeq(ss) = h[n]
  BY <1>1, FlattenIsLast
<1> DEFINE All(m) == UNION {Range(ss[i]) : i \in 1..m}
           Q == {m \in Nat : m <= n => Range(h[m]) = All(m)}
<1>4. 0 \in Q
  <2>1. Range(<<>>) = {} /\ All(0) = {}
    BY DEF Range
  <2> HIDE DEF All
  <2> QED BY <1>2, <2>1
<1>5. ASSUME NEW m \in Nat, m \in Q PROVE m + 1 \in Q
  <2> SUFFICES ASSUME m + 1 <= n PROVE Range(h[m + 1]) = All(m + 1)
    OBVIOUS
  <2>1. m + 1 \in 1..n /\ (m + 1) - 1 = m /\ m \in 0..n /\ m <= n
    BY <1>0
  <2>2. h[m + 1] = h[m] \o ss[m + 1] /\ h[m] \in Seq(V) /\ ss[m + 1] \in Seq(V)
    BY <1>2, <2>1
  <2>3. Range(h[m + 1]) = Range(h[m]) \union Range(ss[m + 1])
    BY <2>2, RangeOfConcat
  <2>4. All(m + 1) = All(m) \union Range(ss[m + 1])
    <3>1. \A i \in 1..(m + 1) : i \in 1..m \/ i = m + 1
      OBVIOUS
    <3>2. 1..m \subseteq 1..(m + 1) /\ m + 1 \in 1..(m + 1)
      OBVIOUS
    <3> DEFINE R(i) == Range(ss[i])
    <3> HIDE DEF R
    <3>3. UNION {R(i) : i \in 1..(m + 1)} = (UNION {R(i) : i \in 1..m}) \union R(m + 1)
      BY <3>1, <3>2
    <3> QED BY <3>3 DEF R
  <2>5. Range(h[m]) = All(m)
    BY <1>5, <2>1
  <2> HIDE DEF All
  <2> QED BY <2>3, <2>4, <2>5
<1>6. Nat \subseteq Q
  <2> HIDE DEF Q
  <2> QED BY <1>4, <1>5, NumberInduction
<1>7. n \in Q /\ n <= n /\ n \in 0..n
  BY <1>0, <1>6
<1>8. FlattenSeq(ss) \in Seq(V)
  BY <1>2, <1>3, <1>7
<1> QED BY <1>3, <1>7, <1>8
=============================================================================
