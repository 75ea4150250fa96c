------------------------------ MODULE SumFacts ------------------------------
(***************************************************************************)
(* What the folds of the community modules add up to, of numbers and of    *)
(* sequences, and counting against a limit with a credit.  The least       *)
(* element of a set of numbers does what an induction would do.            *)
(***************************************************************************)
EXTENDS Integers, SequencesExt, FiniteSetTheorems, SequenceTheorems, WellFoundedInduction, TLAPS

\* A set with 0 and with the successors of its numbers has them all.
LEMMA AllNumbers ==
    ASSUME NEW S, 0 \in S, \A n \in Nat : n \in S => n + 1 \in S
    PROVE  Nat \subseteq S
<1> DEFINE R == {p \in Nat \X Nat : p[1] < p[2]}
           T == Nat \ S
<1>1. IsWellFoundedOn(R, Nat)
  BY NatLessThanWellFounded DEF OpToRel
<1> SUFFICES ASSUME T # {} PROVE FALSE
  OBVIOUS
<1>2. PICK x \in T : \A y \in T : ~ (<<y, x>> \in R)
  <2> HIDE DEF R, T
  <2>1. T \subseteq Nat
    BY DEF T
  <2> QED BY <1>1, <2>1, WFMin
<1>3. x \in Nat /\ x # 0
  OBVIOUS
<1>4. x - 1 \in Nat /\ <<x - 1, x>> \in R
  BY <1>3
<1>5. x - 1 \in S
  BY <1>2, <1>4
<1> QED BY <1>3, <1>4, <1>5

\* A set of subsets with the empty one that can be extended by any element has
\* the whole set.
LEMMA AllSubsets ==
    ASSUME NEW S, IsFiniteSet(S), NEW Q, {} \in Q,
           \A s \in SUBSET S, x \in S : s \in Q /\ x \notin s => s \union {x} \in Q
    PROVE  \A s \in SUBSET S : s \in Q
<1> DEFINE Small(n) == \A s \in SUBSET S : Cardinality(s) = n => s \in Q
           N == {n \in Nat : Small(n)}
<1>c. \A s \in SUBSET S : IsFiniteSet(s) /\ Cardinality(s) \in Nat
  BY FS_Subset, FS_CardinalityType
<1>0. 0 \in N
  <2>1. \A s \in SUBSET S : Cardinality(s) = 0 => s = {}
    BY <1>c, FS_EmptySet
  <2> QED BY <2>1
<1>1. ASSUME NEW n \in Nat, n \in N
      PROVE  n + 1 \in N
  <2> SUFFICES ASSUME NEW s \in SUBSET S, Cardinality(s) = n + 1
               PROVE  s \in Q
    OBVIOUS
  <2>1. PICK x : x \in s
    <3>1. Cardinality({}) = 0
      BY FS_EmptySet
    <3>2. s # {}
      BY <3>1
    <3> QED BY <3>2
  <2>2. s \ {x} \in SUBSET S /\ Cardinality(s \ {x}) = n
    <3>1. IsFiniteSet(s)
      BY <1>c
    <3>2. Cardinality(s \ {x}) = Cardinality(s) - 1
      BY <2>1, <3>1, FS_RemoveElement
    <3> QED BY <3>2
  <2>3. s \ {x} \in Q
    BY <1>1, <2>2
  <2>4. s = (s \ {x}) \union {x} /\ x \in S /\ x \notin s \ {x}
    BY <2>1
  <2> QED BY <2>2, <2>3, <2>4
<1>2. Nat \subseteq N
  <2> HIDE DEF N
  <2> QED BY <1>0, <1>1, AllNumbers
<1> QED BY <1>c, <1>2

\* g says what the values of e on each subset of S add up to.
IsSum(g, e, S) ==
    /\ g \in [SUBSET S -> Int]
    /\ g[{}] = 0
    /\ \A s \in SUBSET S, x \in S : x \notin s => g[s \union {x}] = e[x] + g[s]

\* How folds define sums: an element is chosen, the rest is added up before.
Folded(g, e, c, s) == IF s = {} THEN 0 ELSE e[c[s]] + g[s \ {c[s]}]

IsFold(g, e, c, S) == \A s \in SUBSET S : g[s] = Folded(g, e, c, s)

\* c chooses an element of each subset.
Chooses(c, S) == \A t \in SUBSET S : t # {} => c[t] \in t

\* Without the element that is chosen a set is smaller.
Shrinks(c, S) ==
    \A s \in SUBSET S :
        /\ Cardinality(s) \in Nat /\ Cardinality(s) <= Cardinality(S)
        /\ Cardinality(s) = 0 <=> s = {}
        /\ s # {} => /\ c[s] \in s /\ c[s] \in S /\ s \ {c[s]} \in SUBSET S
                     /\ Cardinality(s \ {c[s]}) = Cardinality(s) - 1

\* Without its chosen element a set is smaller.
LEMMA Smaller ==
    ASSUME NEW S, IsFiniteSet(S), NEW c, Chooses(c, S)
    PROVE  Shrinks(c, S)
<1> SUFFICES ASSUME NEW s \in SUBSET S
             PROVE  /\ Cardinality(s) \in Nat /\ Cardinality(s) <= Cardinality(S)
                    /\ Cardinality(s) = 0 <=> s = {}
                    /\ s # {} => /\ c[s] \in s /\ c[s] \in S /\ s \ {c[s]} \in SUBSET S
                                 /\ Cardinality(s \ {c[s]}) = Cardinality(s) - 1
  BY DEF Shrinks
<1>1. IsFiniteSet(s) /\ Cardinality(s) <= Cardinality(S)
  BY FS_Subset
<1>2. Cardinality(s) \in Nat
  BY <1>1, FS_CardinalityType
<1>3. Cardinality(s) = 0 <=> s = {}
  BY <1>1, FS_EmptySet
<1>4. s # {} => Cardinality(s \ {c[s]}) = Cardinality(s) - 1
  BY <1>1, FS_RemoveElement DEF Chooses
<1> QED BY <1>1, <1>2, <1>3, <1>4 DEF Chooses

\* Whatever is chosen, the fold over a finite set is defined.
LEMMA FoldExists ==
    ASSUME NEW S, IsFiniteSet(S), NEW e \in [S -> Int],
           NEW c, Chooses(c, S)
    PROVE  \E g \in [SUBSET S -> Int] : IsFold(g, e, c, S)
<1> DEFINE Good(g, n) == \A s \in SUBSET S : Cardinality(s) <= n => g[s] = Folded(g, e, c, s)
           N == {n \in Nat : \E g \in [SUBSET S -> Int] : Good(g, n)}
<1>c. Shrinks(c, S)
  BY Smaller
<1>n. Cardinality(S) \in Nat
  BY FS_CardinalityType
<1>0. 0 \in N
  <2> DEFINE g == [s \in SUBSET S |-> 0]
  <2>1. g \in [SUBSET S -> Int]
    OBVIOUS
  <2>2. Good(g, 0)
    <3> SUFFICES ASSUME NEW s \in SUBSET S, Cardinality(s) <= 0
                 PROVE  g[s] = Folded(g, e, c, s)
      OBVIOUS
    <3>c. Cardinality(s) \in Nat /\ (Cardinality(s) = 0 <=> s = {})
      BY <1>c, Zenon DEF Shrinks
    <3>1. s = {}
      BY <3>c
    <3> QED BY <3>1 DEF Folded
  <2> HIDE DEF g, Good
  <2> QED BY <2>1, <2>2
<1>1. ASSUME NEW n \in Nat, n \in N
      PROVE  n + 1 \in N
  <2>1. PICK g \in [SUBSET S -> Int] : Good(g, n)
    <3> HIDE DEF Good
    <3> QED BY <1>1
  <2> DEFINE h == [s \in SUBSET S |-> IF Cardinality(s) <= n THEN g[s] ELSE Folded(g, e, c, s)]
  <2>2. ASSUME NEW s \in SUBSET S PROVE Folded(g, e, c, s) \in Int
    <3>1. s # {} => c[s] \in S /\ s \ {c[s]} \in SUBSET S
      BY <1>c, Zenon DEF Shrinks
    <3> QED BY <3>1 DEF Folded
  <2>3. h \in [SUBSET S -> Int]
    BY <2>2
  <2>4. ASSUME NEW s \in SUBSET S, Cardinality(s) <= n + 1
        PROVE  h[s] = Folded(h, e, c, s)
    <3>1. Folded(h, e, c, s) = Folded(g, e, c, s)
      <4>1. CASE s # {}
        <5> DEFINE t == s \ {c[s]}
        <5>1. t \in SUBSET S /\ Cardinality(t) <= n
          BY <2>4, <4>1, <1>c DEF Shrinks
        <5>2. h[t] = g[t]
          <6> HIDE DEF t
          <6> QED BY <5>1
        <5> QED BY <4>1, <5>2 DEF Folded
      <4>2. CASE s = {}
        BY <4>2 DEF Folded
      <4> QED BY <4>1, <4>2
    <3>2. h[s] = Folded(g, e, c, s)
      BY <2>1
    <3> QED BY <3>1, <3>2
  <2>5. Good(h, n + 1)
    <3> HIDE DEF h
    <3> QED BY <2>4
  <2> HIDE DEF h, Good
  <2> QED BY <2>3, <2>5
<1>2. Cardinality(S) \in N
  <2> HIDE DEF N
  <2>1. Nat \subseteq N
    BY <1>0, <1>1, AllNumbers
  <2> QED BY <1>n, <2>1
<1>3. PICK g \in [SUBSET S -> Int] : Good(g, Cardinality(S))
  <2> HIDE DEF Good
  <2> QED BY <1>2
<1>4. \A s \in SUBSET S : g[s] = Folded(g, e, c, s)
  <2>1. \A s \in SUBSET S : Cardinality(s) <= Cardinality(S)
    BY <1>c DEF Shrinks
  <2> QED BY <1>3, <2>1
<1> QED BY <1>4 DEF IsFold

\* The order in which elements are chosen does not matter.
LEMMA FoldIsSum ==
    ASSUME NEW S, IsFiniteSet(S), NEW e \in [S -> Int], NEW c, Chooses(c, S),
           NEW g \in [SUBSET S -> Int], IsFold(g, e, c, S)
    PROVE  IsSum(g, e, S)
<1> DEFINE Adds(s) == \A x \in S : x \notin s => g[s \union {x}] = e[x] + g[s]
           N == {n \in Nat : \A s \in SUBSET S : Cardinality(s) = n => Adds(s)}
<1>c. \A s \in SUBSET S : IsFiniteSet(s) /\ Cardinality(s) \in Nat
  BY FS_Subset, FS_CardinalityType
<1>f. ASSUME NEW s \in SUBSET S, NEW x \in S, x \notin s
      PROVE  \/ g[s \union {x}] = e[x] + g[s]
             \/ \E z \in s : g[s \union {x}] = e[z] + g[(s \ {z}) \union {x}]
  <2> DEFINE t == s \union {x}
  <2>1. t \in SUBSET S /\ t # {}
    OBVIOUS
  <2>2. c[t] \in t /\ g[t] = e[c[t]] + g[t \ {c[t]}]
    <3> HIDE DEF t
    <3>1. c[t] \in t
      BY <2>1 DEF Chooses
    <3> QED BY <2>1, <3>1 DEF Folded, IsFold
  <2>3. CASE c[t] = x
    <3>1. t \ {x} = s
      BY <1>f
    <3> QED BY <2>2, <2>3, <3>1
  <2>4. CASE c[t] # x
    <3>1. c[t] \in s /\ t \ {c[t]} = (s \ {c[t]}) \union {x}
      BY <2>2, <2>4
    <3> QED BY <2>2, <3>1
  <2> QED BY <2>3, <2>4
<1>0. 0 \in N
  <2> SUFFICES ASSUME NEW s \in SUBSET S, Cardinality(s) = 0, NEW x \in S
               PROVE  g[s \union {x}] = e[x] + g[s]
    OBVIOUS
  <2>1. s = {}
    BY <1>c, FS_EmptySet
  <2> QED BY <1>f, <2>1
<1>1. ASSUME NEW n \in Nat, n \in N
      PROVE  n + 1 \in N
  <2> SUFFICES ASSUME NEW s \in SUBSET S, Cardinality(s) = n + 1, NEW x \in S, x \notin s
               PROVE  g[s \union {x}] = e[x] + g[s]
    OBVIOUS
  <2>1. CASE \E z \in s : g[s \union {x}] = e[z] + g[(s \ {z}) \union {x}]
    <3>1. PICK z \in s : g[s \union {x}] = e[z] + g[(s \ {z}) \union {x}]
      BY <2>1
    <3> DEFINE t == s \ {z}
    <3>2. t \in SUBSET S /\ Cardinality(t) = n
      <4>1. IsFiniteSet(s)
        BY <1>c
      <4>2. Cardinality(s \ {z}) = Cardinality(s) - 1
        BY <4>1, FS_RemoveElement
      <4> QED BY <4>2
    <3>3. Adds(t)
      <4> HIDE DEF Adds, t
      <4> QED BY <1>1, <3>2
    <3>4. z \in S /\ z \notin t /\ x \notin t /\ t \union {z} = s
      OBVIOUS
    <3>5. g[t \union {x}] = e[x] + g[t] /\ g[t \union {z}] = e[z] + g[t]
      <4> HIDE DEF t
      <4> QED BY <3>3, <3>4
    <3>6. e[x] \in Int /\ e[z] \in Int /\ g[t] \in Int
      <4> HIDE DEF t
      <4> QED BY <3>2, <3>4
    <3>7. g[s \union {x}] = e[z] + g[t \union {x}] /\ g[s] = g[t \union {z}]
      BY <3>1, <3>4
    <3> HIDE DEF t
    <3> QED BY <3>5, <3>6, <3>7
  <2> QED BY <1>f, <2>1
<1>2. Nat \subseteq N
  <2> HIDE DEF N
  <2> QED BY <1>0, <1>1, AllNumbers
<1>3. ASSUME NEW s \in SUBSET S PROVE Adds(s)
  <2> HIDE DEF Adds
  <2>1. Cardinality(s) \in N
    <3> HIDE DEF N
    <3> QED BY <1>c, <1>2
  <2> QED BY <2>1
<1>4. g[{}] = 0
  BY DEF Folded, IsFold
<1> QED BY <1>3, <1>4 DEF IsSum

\* Sums of the same values are the same.
LEMMA SumsAgree ==
    ASSUME NEW S, NEW T, T \subseteq S, IsFiniteSet(T), NEW e, NEW f, NEW g, NEW h,
           IsSum(g, e, S), IsSum(h, f, T), \A x \in T : e[x] = f[x]
    PROVE  \A s \in SUBSET T : g[s] = h[s]
<1> DEFINE Q == {s \in SUBSET T : g[s] = h[s]}
<1>1. {} \in Q
  BY DEF IsSum
<1>2. ASSUME NEW s \in SUBSET T, NEW x \in T, s \in Q, x \notin s
      PROVE  s \union {x} \in Q
  <2>1. g[s \union {x}] = e[x] + g[s] /\ h[s \union {x}] = f[x] + h[s]
    BY <1>2 DEF IsSum
  <2> QED BY <1>2, <2>1
<1> HIDE DEF Q
<1>3. \A s \in SUBSET T : s \in Q
  BY <1>1, <1>2, AllSubsets
<1> QED BY <1>3 DEF Q

\* A fold has one value only.
LEMMA FoldUnique ==
    ASSUME NEW S, IsFiniteSet(S), NEW e \in [S -> Int], NEW c, Chooses(c, S),
           NEW g, IsFold(g, e, c, S),
           NEW h, IsFold(h, e, c, S)
    PROVE  \A s \in SUBSET S : g[s] = h[s]
<1> DEFINE N == {n \in Nat : \A s \in SUBSET S : Cardinality(s) = n => g[s] = h[s]}
<1>c. Shrinks(c, S)
  BY Smaller
<1>s. ASSUME NEW s \in SUBSET S
      PROVE  /\ Cardinality(s) \in Nat /\ (Cardinality(s) = 0 <=> s = {})
             /\ s # {} => s \ {c[s]} \in SUBSET S /\ Cardinality(s \ {c[s]}) = Cardinality(s) - 1
  BY <1>c, Zenon DEF Shrinks
<1>0. 0 \in N
  <2> SUFFICES ASSUME NEW s \in SUBSET S, Cardinality(s) = 0
               PROVE  g[s] = h[s]
    OBVIOUS
  <2>1. s = {}
    BY <1>s
  <2> QED BY <2>1 DEF Folded, IsFold
<1>1. ASSUME NEW n \in Nat, n \in N
      PROVE  n + 1 \in N
  <2> SUFFICES ASSUME NEW s \in SUBSET S, Cardinality(s) = n + 1
               PROVE  g[s] = h[s]
    OBVIOUS
  <2> DEFINE t == s \ {c[s]}
  <2>1. s # {} /\ t \in SUBSET S /\ Cardinality(t) = n
    BY <1>s
  <2>2. g[t] = h[t]
    <3> HIDE DEF t
    <3> QED BY <1>1, <2>1
  <2>3. g[s] = e[c[s]] + g[t] /\ h[s] = e[c[s]] + h[t]
    BY <2>1 DEF Folded, IsFold
  <2> HIDE DEF t
  <2> QED BY <2>2, <2>3
<1>2. Nat \subseteq N
  <2> HIDE DEF N
  <2> QED BY <1>0, <1>1, AllNumbers
<1>3. ASSUME NEW s \in SUBSET S PROVE g[s] = h[s]
  <2>1. Cardinality(s) \in N
    <3> HIDE DEF N
    <3> QED BY <1>s, <1>2
  <2> QED BY <2>1
<1> QED BY <1>3

\* The fold that an operator of the community modules takes is the sum.
LEMMA FoldValue ==
    ASSUME NEW S, IsFiniteSet(S), NEW e \in [S -> Int], NEW c, Chooses(c, S),
           NEW iter, iter = CHOOSE h : h = [s \in SUBSET S |-> Folded(h, e, c, s)]
    PROVE  IsSum(iter, e, S)
<1>1. PICK g \in [SUBSET S -> Int] : IsFold(g, e, c, S)
  BY FoldExists
<1>2. g = [s \in SUBSET S |-> Folded(g, e, c, s)]
  BY <1>1 DEF IsFold
<1>3. iter = [s \in SUBSET S |-> Folded(iter, e, c, s)]
  BY <1>2
<1>4. IsFold(iter, e, c, S)
  BY <1>3 DEF IsFold
<1>5. \A s \in SUBSET S : iter[s] = g[s]
  BY <1>1, <1>4, FoldUnique
<1>6. iter \in [SUBSET S -> Int]
  BY <1>3, <1>5
<1> QED BY <1>4, <1>6, FoldIsSum

\* The choice of MapThenSumSet.
LEMMA ChooseAny ==
    ASSUME NEW S
    PROVE  Chooses([s \in SUBSET S |-> CHOOSE x \in s : TRUE], S)
BY DEF Chooses

(* ------------------------ The sum of a function ------------------------- *)

\* SumFunction adds up all the values of a function.
LEMMA FunctionSum ==
    ASSUME NEW S, IsFiniteSet(S), NEW e \in [S -> Int]
    PROVE  \E g : IsSum(g, e, S) /\ SumFunction(e) = g[S]
<1> DEFINE c == [s \in SUBSET S |-> CHOOSE x \in s : TRUE]
           Rest(h, s) ==
              IF s = {} THEN 0
              ELSE e[CHOOSE x \in s : TRUE] + h[s \ {CHOOSE x \in s : TRUE}]
           iter == CHOOSE h : h = [s \in SUBSET S |-> Rest(h, s)]
<1>1. SumFunction(e) = iter[S]
  <2>1. DOMAIN e = S
    OBVIOUS
  <2> QED BY <2>1 DEF SumFunction, SumFunctionOnSet, FoldFunctionOnSet, MapThenFoldSet
<1>2. \A h : [s \in SUBSET S |-> Rest(h, s)] = [s \in SUBSET S |-> Folded(h, e, c, s)]
  <2> SUFFICES ASSUME NEW h, NEW s \in SUBSET S
               PROVE  Rest(h, s) = Folded(h, e, c, s)
    OBVIOUS
  <2> QED BY DEF Folded
<1>3. iter = CHOOSE h : h = [s \in SUBSET S |-> Folded(h, e, c, s)]
  BY <1>2
<1>4. Chooses(c, S)
  BY ChooseAny
<1>5. IsSum(iter, e, S)
  <2> HIDE DEF c, iter
  <2> QED BY <1>3, <1>4, FoldValue
<1> QED BY <1>1, <1>5

\* A sum of integers is one, and of nothing it is 0.
LEMMA SumInteger ==
    ASSUME NEW S, IsFiniteSet(S), NEW e \in [S -> Int]
    PROVE  SumFunction(e) \in Int /\ (S = {} => SumFunction(e) = 0)
<1>1. PICK g : IsSum(g, e, S) /\ SumFunction(e) = g[S]
  BY FunctionSum
<1>2. g \in [SUBSET S -> Int] /\ g[{}] = 0 /\ S \in SUBSET S
  BY <1>1 DEF IsSum
<1> QED BY <1>1, <1>2

\* A smaller value everywhere makes a smaller sum.
LEMMA SumMonotone ==
    ASSUME NEW S, IsFiniteSet(S), NEW e \in [S -> Int], NEW f \in [S -> Int],
           \A x \in S : e[x] <= f[x]
    PROVE  SumFunction(e) <= SumFunction(f)
<1>1. PICK g : IsSum(g, e, S) /\ SumFunction(e) = g[S]
  BY FunctionSum
<1>2. PICK h : IsSum(h, f, S) /\ SumFunction(f) = h[S]
  BY FunctionSum
<1> DEFINE Q == {s \in SUBSET S : g[s] <= h[s]}
<1>3. {} \in Q
  BY <1>1, <1>2 DEF IsSum
<1>4. ASSUME NEW s \in SUBSET S, NEW x \in S, s \in Q, x \notin s
      PROVE  s \union {x} \in Q
  <2>1. g[s \union {x}] = e[x] + g[s] /\ g[s] \in Int
    BY <1>1, <1>4 DEF IsSum
  <2>2. h[s \union {x}] = f[x] + h[s] /\ h[s] \in Int
    BY <1>2, <1>4 DEF IsSum
  <2>3. g[s] <= h[s] /\ e[x] <= f[x] /\ e[x] \in Int /\ f[x] \in Int
    BY <1>4
  <2>4. g[s \union {x}] <= h[s \union {x}]
    BY <2>1, <2>2, <2>3
  <2> QED BY <2>4
<1> HIDE DEF Q
<1>5. S \in Q
  BY <1>3, <1>4, AllSubsets
<1> QED BY <1>1, <1>2, <1>5 DEF Q

\* If k * e[x] is never further from f[x] than h[x], then k times the sum of e is
\* no further from the sum of f than the sum of h.
LEMMA SumNear ==
    ASSUME NEW S, IsFiniteSet(S), NEW k \in Nat,
           NEW e \in [S -> Int], NEW f \in [S -> Int], NEW h \in [S -> Int],
           \A x \in S : k * e[x] - f[x] <= h[x] /\ f[x] - k * e[x] <= h[x]
    PROVE  /\ k * SumFunction(e) - SumFunction(f) <= SumFunction(h)
           /\ SumFunction(f) - k * SumFunction(e) <= SumFunction(h)
<1>1. PICK g : IsSum(g, e, S) /\ SumFunction(e) = g[S]
  BY FunctionSum
<1>2. PICK i : IsSum(i, f, S) /\ SumFunction(f) = i[S]
  BY FunctionSum
<1>3. PICK j : IsSum(j, h, S) /\ SumFunction(h) = j[S]
  BY FunctionSum
<1> DEFINE Near(s) == k * g[s] - i[s] <= j[s] /\ i[s] - k * g[s] <= j[s]
           Q == {s \in SUBSET S : Near(s)}
<1>4. {} \in Q
  <2>1. g[{}] = 0 /\ i[{}] = 0 /\ j[{}] = 0
    BY <1>1, <1>2, <1>3 DEF IsSum
  <2> QED BY <2>1
<1>5. ASSUME NEW s \in SUBSET S, NEW x \in S, s \in Q, x \notin s
      PROVE  s \union {x} \in Q
  <2>1. g[s \union {x}] = e[x] + g[s] /\ g[s] \in Int /\ e[x] \in Int
    BY <1>1, <1>5 DEF IsSum
  <2>2. i[s \union {x}] = f[x] + i[s] /\ i[s] \in Int /\ f[x] \in Int
    BY <1>2, <1>5 DEF IsSum
  <2>3. j[s \union {x}] = h[x] + j[s] /\ j[s] \in Int /\ h[x] \in Int
    BY <1>3, <1>5 DEF IsSum
  <2>4. k * (e[x] + g[s]) = k * e[x] + k * g[s] /\ k * e[x] \in Int /\ k * g[s] \in Int
    BY <2>1
  <2>5. Near(s)
    BY <1>5
  <2>6. Near(s \union {x})
    <3>1. PICK a, b : a = k * e[x] /\ b = k * g[s]
      OBVIOUS
    <3>2. k * g[s \union {x}] = a + b /\ a \in Int /\ b \in Int
      BY <2>1, <2>4, <3>1
    <3>3. /\ a - f[x] <= h[x] /\ f[x] - a <= h[x]
          /\ b - i[s] <= j[s] /\ i[s] - b <= j[s]
      BY <2>5, <3>1
    <3> QED BY <2>2, <2>3, <3>2, <3>3
  <2> HIDE DEF Near
  <2> QED BY <2>6
<1> HIDE DEF Q
<1>6. S \in Q
  BY <1>4, <1>5, AllSubsets
<1> QED BY <1>1, <1>2, <1>3, <1>6 DEF Q

\* A common factor can be taken out of a sum.
LEMMA SumScaled ==
    ASSUME NEW S, IsFiniteSet(S), NEW k \in Nat, NEW e \in [S -> Int], NEW f \in [S -> Int],
           \A x \in S : f[x] = k * e[x]
    PROVE  SumFunction(f) = k * SumFunction(e)
<1> DEFINE z == [x \in S |-> 0]
<1>1. z \in [S -> Int] /\ \A x \in S : z[x] = 0
  OBVIOUS
<1> HIDE DEF z
<1>2. \A x \in S : k * e[x] \in Int
  OBVIOUS
<1>3. \A x \in S : k * e[x] - f[x] <= z[x] /\ f[x] - k * e[x] <= z[x]
  BY <1>1, <1>2
<1>4. /\ k * SumFunction(e) - SumFunction(f) <= SumFunction(z)
      /\ SumFunction(f) - k * SumFunction(e) <= SumFunction(z)
  BY <1>1, <1>3, SumNear
<1>5. SumFunction(z) = 0
  <2>1. PICK g : IsSum(g, z, S) /\ SumFunction(z) = g[S]
    BY <1>1, FunctionSum
  <2> DEFINE Q == {s \in SUBSET S : g[s] = 0}
  <2>2. {} \in Q
    BY <2>1 DEF IsSum
  <2>3. ASSUME NEW s \in SUBSET S, NEW x \in S, s \in Q, x \notin s
        PROVE  s \union {x} \in Q
    BY <1>1, <2>1, <2>3 DEF IsSum
  <2> HIDE DEF Q
  <2>4. S \in Q
    BY <2>2, <2>3, AllSubsets
  <2> QED BY <2>1, <2>4 DEF Q
<1>6. SumFunction(e) \in Int /\ SumFunction(f) \in Int
  BY SumInteger
<1>7. PICK m : m = k * SumFunction(e)
  OBVIOUS
<1>8. m \in Int
  BY <1>6, <1>7
<1> QED BY <1>4, <1>5, <1>6, <1>7, <1>8

\* A sum of natural numbers is one.
LEMMA SumNatural ==
    ASSUME NEW S, IsFiniteSet(S), NEW e \in [S -> Nat]
    PROVE  SumFunction(e) \in Nat
<1>1. PICK g : IsSum(g, e, S) /\ SumFunction(e) = g[S]
  <2>1. e \in [S -> Int]
    OBVIOUS
  <2> QED BY <2>1, FunctionSum
<1> DEFINE Q == {s \in SUBSET S : g[s] \in Nat}
<1>2. {} \in Q
  BY <1>1 DEF IsSum
<1>3. ASSUME NEW s \in SUBSET S, NEW x \in S, s \in Q, x \notin s
      PROVE  s \union {x} \in Q
  <2>1. g[s \union {x}] = e[x] + g[s]
    BY <1>1, <1>3 DEF IsSum
  <2> QED BY <2>1, <1>3
<1> HIDE DEF Q
<1>4. S \in Q
  BY <1>2, <1>3, AllSubsets
<1> QED BY <1>1, <1>4 DEF Q

\* One more value is added to the sum.
LEMMA SumExtended ==
    ASSUME NEW S, IsFiniteSet(S), NEW f \in [S -> Int], NEW x, x \notin S,
           NEW e \in [S \union {x} -> Int], \A y \in S : e[y] = f[y]
    PROVE  SumFunction(e) = SumFunction(f) + e[x]
<1> DEFINE T == S \union {x}
<1>1. IsFiniteSet(T) /\ e \in [T -> Int] /\ S \subseteq T /\ x \in T /\ S \in SUBSET T
  BY FS_AddElement
<1> HIDE DEF T
<1>2. PICK g : IsSum(g, e, T) /\ SumFunction(e) = g[T]
  BY <1>1, FunctionSum
<1>3. PICK h : IsSum(h, f, S) /\ SumFunction(f) = h[S]
  BY FunctionSum
<1>4. g[S] = h[S]
  BY <1>1, <1>2, <1>3, SumsAgree
<1>5. g[T] = e[x] + g[S]
  BY <1>1, <1>2 DEF IsSum, T
<1>6. e[x] \in Int /\ h[S] \in Int
  BY <1>1, <1>3 DEF IsSum
<1> QED BY <1>2, <1>3, <1>4, <1>5, <1>6

\* Values that are matched one to one have the same sum.
LEMMA SumMatched ==
    ASSUME NEW S, IsFiniteSet(S), NEW e \in [S -> Int],
           NEW T, IsFiniteSet(T), NEW f \in [T -> Int],
           NEW b \in Bijection(S, T), \A x \in S : e[x] = f[b[x]]
    PROVE  SumFunction(e) = SumFunction(f)
<1>1. PICK g : IsSum(g, e, S) /\ SumFunction(e) = g[S]
  BY FunctionSum
<1>2. PICK h : IsSum(h, f, T) /\ SumFunction(f) = h[T]
  BY FunctionSum
<1> DEFINE Image(s) == {b[x] : x \in s}
           Q == {s \in SUBSET S : g[s] = h[Image(s)]}
<1>b. /\ b \in [S -> T] /\ \A x, y \in S : b[x] = b[y] => x = y
      /\ \A t \in T : \E x \in S : b[x] = t
  BY DEF Bijection, Injection, Surjection, IsInjective
<1>3. {} \in Q
  <2>1. Image({}) = {}
    OBVIOUS
  <2> QED BY <1>1, <1>2, <2>1 DEF IsSum
<1>4. ASSUME NEW s \in SUBSET S, NEW x \in S, s \in Q, x \notin s
      PROVE  s \union {x} \in Q
  <2>1. g[s \union {x}] = e[x] + g[s]
    BY <1>1, <1>4 DEF IsSum
  <2>2. Image(s \union {x}) = Image(s) \union {b[x]}
    OBVIOUS
  <2>3. Image(s) \in SUBSET T /\ b[x] \in T /\ b[x] \notin Image(s)
    BY <1>4, <1>b
  <2>4. h[Image(s) \union {b[x]}] = f[b[x]] + h[Image(s)]
    <3> HIDE DEF Image
    <3> QED BY <1>2, <2>3 DEF IsSum
  <2> QED BY <1>4, <2>1, <2>2, <2>4
<1>5. S \in Q
  <2> HIDE DEF Q, Image
  <2>1. \A s \in SUBSET S, x \in S : s \in Q /\ x \notin s => s \union {x} \in Q
    BY <1>4
  <2>2. \A s \in SUBSET S : s \in Q
    BY <1>3, <2>1, AllSubsets, Zenon
  <2> QED BY <2>2
<1>6. Image(S) = T
  BY <1>b
<1> QED BY <1>1, <1>2, <1>5, <1>6

(* ------------------------ Sequences of sequences ------------------------ *)

\* A set with 1 and with the successors of its numbers up to n has all up to n.
LEMMA NumbersUpTo ==
    ASSUME NEW n \in Nat, NEW S, n # 0 => 1 \in S, \A i \in 1..n : i \in S /\ i + 1 <= n => i + 1 \in S
    PROVE  1..n \subseteq S
<1> DEFINE N == {m \in Nat : m + 1 <= n => m + 1 \in S}
<1>1. 0 \in N
  OBVIOUS
<1>2. ASSUME NEW m \in Nat, m \in N PROVE m + 1 \in N
  <2> SUFFICES ASSUME (m + 1) + 1 <= n PROVE (m + 1) + 1 \in S
    OBVIOUS
  <2>1. m + 1 \in 1..n /\ m + 1 \in S
    BY <1>2
  <2> QED BY <2>1
<1>3. Nat \subseteq N
  <2> HIDE DEF N
  <2> QED BY <1>1, <1>2, AllNumbers
<1> SUFFICES ASSUME NEW i \in 1..n PROVE i \in S
  OBVIOUS
<1>4. i - 1 \in N /\ (i - 1) + 1 = i
  BY <1>3
<1> QED BY <1>4

\* f holds what FlattenSeq has joined after each of the first n sequences of s.
JoinsTo(f, s, n, U) ==
    /\ f \in [1..n -> Seq(U)]
    /\ n # 0 => f[1] = s[1]
    /\ \A i \in 1..n : i + 1 <= n => f[i + 1] = f[i] \o s[i + 1]

\* The sequences can be joined one after the other.
LEMMA JoinExists ==
    ASSUME NEW U, NEW s \in Seq(Seq(U)), Len(s) # 0
    PROVE  \E f : JoinsTo(f, s, Len(s), U)
<1> DEFINE N == {n \in Nat : \E f : JoinsTo(f, s, n, U)}
<1>m. Len(s) \in Nat
  OBVIOUS
<1>k. \A i \in 1..Len(s) : s[i] \in Seq(U)
  OBVIOUS
<1>l. Len(s) \in Nat /\ \A i \in 1..Len(s) : s[i] \in Seq(U)
  BY <1>m, <1>k
<1>0. 1 \in N
  <2> DEFINE f == [i \in 1..1 |-> s[1]]
  <2>1. f \in [1..1 -> Seq(U)] /\ f[1] = s[1]
    BY <1>l
  <2> HIDE DEF f
  <2>2. JoinsTo(f, s, 1, U)
    BY <2>1 DEF JoinsTo
  <2> QED BY <2>2
<1>1. ASSUME NEW n \in 1..Len(s), n \in N, n + 1 <= Len(s) PROVE n + 1 \in N
  <2>1. PICK f : JoinsTo(f, s, n, U)
    BY <1>1
  <2>2. PICK last : last = f[n] \o s[n + 1]
    OBVIOUS
  <2>3. f[n] \in Seq(U) /\ s[n + 1] \in Seq(U) /\ n + 1 # 0
    BY <2>1, <1>l, <1>1 DEF JoinsTo
  <2>4. last \in Seq(U)
    BY <2>2, <2>3
  <2> DEFINE h == [i \in 1..n + 1 |-> IF i <= n THEN f[i] ELSE last]
  <2>5. \A i \in 1..n : h[i] = f[i]
    OBVIOUS
  <2>6. h[n + 1] = last
    OBVIOUS
  <2>7. h \in [1..n + 1 -> Seq(U)]
    BY <2>1, <2>4 DEF JoinsTo
  <2> HIDE DEF h
  <2>8. h[1] = s[1]
    BY <2>5, <2>1 DEF JoinsTo
  <2>9. ASSUME NEW i \in 1..n + 1, i + 1 <= n + 1 PROVE h[i + 1] = h[i] \o s[i + 1]
    <3>0. i \in 1..n
      BY <2>9
    <3>1. CASE i = n
      BY <3>0, <3>1, <2>2, <2>5, <2>6
    <3>2. CASE i # n
      <4>1. i + 1 \in 1..n /\ i + 1 <= n
        BY <3>0, <3>2
      <4>2. f[i + 1] = f[i] \o s[i + 1]
        BY <3>0, <4>1, <2>1 DEF JoinsTo
      <4> QED BY <4>1, <4>2, <3>0, <2>5
    <3> QED BY <3>1, <3>2
  <2>10. JoinsTo(h, s, n + 1, U)
    BY <2>7, <2>8, <2>9 DEF JoinsTo
  <2> QED BY <2>10
<1>2. Len(s) \in N
  <2>1. 1..Len(s) \subseteq N
    <3> HIDE DEF N
    <3> QED BY <1>0, <1>1, <1>l, NumbersUpTo
  <2> HIDE DEF N
  <2> QED BY SMTT(30), <2>1, <1>l
<1> QED BY <1>2

\* FlattenSeq is what has been joined after the last sequence.
LEMMA FlattenJoins ==
    ASSUME NEW U, NEW s \in Seq(Seq(U)), Len(s) # 0
    PROVE  \E f : JoinsTo(f, s, Len(s), U) /\ FlattenSeq(s) = f[Len(s)]
<1> DEFINE Step(f) == f = [i \in 1..Len(s) |-> IF i = 1 THEN s[i] ELSE f[i - 1] \o s[i]]
<1>m. Len(s) \in Nat
  OBVIOUS
<1>k. \A i \in 1..Len(s) : s[i] \in Seq(U)
  OBVIOUS
<1>l. Len(s) \in Nat /\ \A i \in 1..Len(s) : s[i] \in Seq(U)
  BY <1>m, <1>k
<1>1. PICK f : JoinsTo(f, s, Len(s), U)
  BY JoinExists
<1>2. Step(f)
  <2> DEFINE g == [i \in 1..Len(s) |-> IF i = 1 THEN s[i] ELSE f[i - 1] \o s[i]]
  <2>1. ASSUME NEW i \in 1..Len(s) PROVE f[i] = g[i]
    <3>1. CASE i = 1
      BY <3>1, <1>1, <1>l DEF JoinsTo
    <3>2. CASE i # 1
      <4>1. i - 1 \in 1..Len(s) /\ (i - 1) + 1 = i /\ (i - 1) + 1 <= Len(s)
        BY <3>2, <1>l
      <4>2. f[(i - 1) + 1] = f[i - 1] \o s[(i - 1) + 1]
        BY <4>1, <1>1 DEF JoinsTo
      <4> QED BY <4>1, <4>2, <3>2
    <3> QED BY <3>1, <3>2
  <2>2. f = g
    <3>1. f \in [1..Len(s) -> Seq(U)] /\ DOMAIN g = 1..Len(s) /\ g = [i \in 1..Len(s) |-> g[i]]
      BY <1>1 DEF JoinsTo
    <3> HIDE DEF g
    <3> QED BY <3>1, <2>1
  <2> QED BY <2>2
<1>3. PICK g : g = (CHOOSE h : Step(h))
  OBVIOUS
<1>4. Step(g)
  <2> HIDE DEF Step
  <2> QED BY <1>2, <1>3
<1>5. FlattenSeq(s) = g[Len(s)]
  BY <1>3 DEF FlattenSeq
<1>6. g[1] = s[1]
  BY <1>4, <1>l
<1>7. ASSUME NEW i \in 1..Len(s), i + 1 <= Len(s) PROVE g[i + 1] = g[i] \o s[i + 1]
  <2>1. i + 1 \in 1..Len(s) /\ (i + 1) - 1 = i /\ i + 1 # 1
    BY <1>7, <1>l
  <2>2. g[i + 1] = g[(i + 1) - 1] \o s[i + 1]
    BY <1>4, <2>1
  <2> QED BY <2>1, <2>2
<1>8. \A i \in 1..Len(s) : g[i] \in Seq(U)
  <2> DEFINE N == {i \in 1..Len(s) : g[i] \in Seq(U)}
  <2>0. 1 \in N
    BY <1>6, <1>l
  <2>1. ASSUME NEW i \in 1..Len(s), i \in N, i + 1 <= Len(s) PROVE i + 1 \in N
    <3>1. i + 1 \in 1..Len(s)
      BY <2>1, <1>l
    <3>2. g[i] \in Seq(U) /\ s[i + 1] \in Seq(U)
      BY <2>1, <3>1, <1>l
    <3>3. g[i] \o s[i + 1] \in Seq(U)
      BY <3>2
    <3>4. g[i + 1] = g[i] \o s[i + 1]
      BY <1>7, <2>1
    <3> QED BY <3>1, <3>3, <3>4
  <2>2. 1..Len(s) \subseteq N
    <3> HIDE DEF N
    <3> QED BY <2>0, <2>1, <1>l, NumbersUpTo
  <2> QED BY <2>2
<1>9. g \in [1..Len(s) -> Seq(U)]
  <2>1. DOMAIN g = 1..Len(s) /\ g = [i \in 1..Len(s) |-> g[i]]
    BY <1>4
  <2> HIDE DEF Step
  <2> QED BY <2>1, <1>8
<1> HIDE DEF Step
<1>10. JoinsTo(g, s, Len(s), U)
  BY <1>6, <1>7, <1>9, Zenon DEF JoinsTo
<1> QED BY <1>5, <1>10

\* What holds of each sequence and of two that are joined holds of all joined.
LEMMA FlattenIn ==
    ASSUME NEW U, NEW G \in SUBSET Seq(U), << >> \in G, \A a, b \in G : a \o b \in G, NEW s \in Seq(G)
    PROVE  FlattenSeq(s) \in G
<1>1. CASE Len(s) = 0
  <2>1. s = << >> /\ FlattenSeq(s) = s
    BY <1>1 DEF FlattenSeq
  <2> QED BY <2>1
<1>2. CASE Len(s) # 0
  <2>l. Len(s) \in Nat /\ Len(s) # 0 /\ s \in Seq(Seq(U)) /\ \A i \in 1..Len(s) : s[i] \in G
    BY <1>2
  <2>1. PICK f : JoinsTo(f, s, Len(s), U) /\ FlattenSeq(s) = f[Len(s)]
    BY <2>l, FlattenJoins
  <2> DEFINE N == {i \in 1..Len(s) : f[i] \in G}
  <2>2. 1 \in N
    BY <2>1, <2>l DEF JoinsTo
  <2>3. ASSUME NEW i \in 1..Len(s), i \in N, i + 1 <= Len(s) PROVE i + 1 \in N
    <3>1. i + 1 \in 1..Len(s)
      BY <2>3, <2>l
    <3>2. f[i] \in G /\ s[i + 1] \in G
      BY <2>3, <3>1, <2>l
    <3>3. f[i + 1] = f[i] \o s[i + 1]
      BY <2>1, <2>3 DEF JoinsTo
    <3> QED BY <3>1, <3>2, <3>3
  <2>4. 1..Len(s) \subseteq N
    <3> HIDE DEF N
    <3> QED BY <2>2, <2>3, <2>l, NumbersUpTo
  <2>5. f[Len(s)] \in G
    <3>1. Len(s) \in 1..Len(s)
      BY <2>l
    <3> QED BY <3>1, <2>4
  <2> QED BY <2>1, <2>5
<1> QED BY <1>1, <1>2

\* Where each sequence begins in what all are joined to, after at[i] elements.
Begins(at, s, t) ==
    /\ at \in [1..Len(s) -> Nat]
    /\ \A i \in 1..Len(s) : i + 1 <= Len(s) => at[i + 1] = at[i] + Len(s[i])
    /\ \A i \in 1..Len(s) : \A j \in 1..Len(s[i]) : at[i] + j \in 1..Len(t) /\ t[at[i] + j] = s[i][j]
    /\ \A k \in 1..Len(t) : \E i \in 1..Len(s) : k - at[i] \in 1..Len(s[i])

\* Every element of every sequence is found in what they are joined to, at its place.
LEMMA FlattenAt ==
    ASSUME NEW U, NEW s \in Seq(Seq(U)), Len(s) # 0
    PROVE  \E at : Begins(at, s, FlattenSeq(s))
<1>l. Len(s) \in Nat /\ Len(s) # 0 /\ \A i \in 1..Len(s) : s[i] \in Seq(U) /\ Len(s[i]) \in Nat
  OBVIOUS
<1>1. PICK f : JoinsTo(f, s, Len(s), U) /\ FlattenSeq(s) = f[Len(s)]
  BY FlattenJoins
<1>f. \A i \in 1..Len(s) : f[i] \in Seq(U) /\ Len(f[i]) \in Nat
  <2>1. f \in [1..Len(s) -> Seq(U)]
    BY <1>1 DEF JoinsTo
  <2>2. \A i \in 1..Len(s) : f[i] \in Seq(U)
    BY <2>1
  <2>3. \A t \in Seq(U) : Len(t) \in Nat
    OBVIOUS
  <2> QED BY <2>2, <2>3
<1>n. ASSUME NEW i \in 1..Len(s), i + 1 <= Len(s)
      PROVE  /\ i + 1 \in 1..Len(s) /\ i + 1 # 1
             /\ f[i + 1] = f[i] \o s[i + 1] /\ Len(f[i + 1]) = Len(f[i]) + Len(s[i + 1])
             /\ \A m \in 1..Len(f[i]) : f[i + 1][m] = f[i][m]
             /\ \A m \in 1..Len(s[i + 1]) : f[i + 1][Len(f[i]) + m] = s[i + 1][m]
  <2>1. i + 1 \in 1..Len(s) /\ i + 1 # 1
    BY <1>n, <1>l
  <2>2. f[i + 1] = f[i] \o s[i + 1]
    BY <1>1, <1>n DEF JoinsTo
  <2>3. PICK a \in Seq(U), b \in Seq(U) : a = f[i] /\ b = s[i + 1]
    BY <1>f, <1>l, <2>1
  <2>4. Len(a \o b) = Len(a) + Len(b)
    OBVIOUS
  <2>5. \A m \in 1..Len(a) : (a \o b)[m] = a[m]
    OBVIOUS
  <2>6. \A m \in 1..Len(b) : (a \o b)[Len(a) + m] = b[m]
    OBVIOUS
  <2> QED BY <2>1, <2>2, <2>3, <2>4, <2>5, <2>6
<1> DEFINE at == [i \in 1..Len(s) |-> Len(f[i]) - Len(s[i])]
<1>2. \A i \in 1..Len(s) : i + 1 <= Len(s) => at[i + 1] = Len(f[i])
  <2> SUFFICES ASSUME NEW i \in 1..Len(s), i + 1 <= Len(s) PROVE at[i + 1] = Len(f[i])
    OBVIOUS
  <2>1. at[i + 1] = Len(f[i + 1]) - Len(s[i + 1])
    BY <1>n
  <2>2. Len(f[i + 1]) = Len(f[i]) + Len(s[i + 1]) /\ Len(f[i]) \in Nat /\ Len(s[i + 1]) \in Nat
    BY <1>n, <1>f, <1>l
  <2>3. PICK a \in Nat, b \in Nat : a = Len(f[i]) /\ b = Len(s[i + 1])
    BY <2>2
  <2>4. at[i + 1] = (a + b) - b
    BY <2>1, <2>2, <2>3
  <2>5. (a + b) - b = a
    OBVIOUS
  <2> QED BY <2>3, <2>4, <2>5
<1>3. 1 \in 1..Len(s) /\ at[1] = 0 /\ f[1] = s[1]
  BY <1>1, <1>l DEF JoinsTo
<1>4. \A i \in 1..Len(s) : at[i] \in Int /\ Len(f[i]) = at[i] + Len(s[i])
  BY <1>f, <1>l
<1>d. DOMAIN at = 1..Len(s) /\ at = [i \in 1..Len(s) |-> at[i]]
  OBVIOUS
<1> HIDE DEF at
<1>5. \A i \in 1..Len(s) : at[i] \in Nat
  <2> DEFINE N == {i \in 1..Len(s) : at[i] \in Nat}
  <2>1. 1 \in N
    BY <1>3
  <2>2. ASSUME NEW i \in 1..Len(s), i \in N, i + 1 <= Len(s) PROVE i + 1 \in N
    BY <2>2, <1>2, <1>n, <1>f
  <2>3. 1..Len(s) \subseteq N
    <3> HIDE DEF N
    <3> QED BY <2>1, <2>2, <1>l, NumbersUpTo
  <2> QED BY <2>3
<1> DEFINE In(n) == \A i \in 1..Len(s) : \A j \in 1..Len(s[i]) :
                       i <= n => at[i] + j \in 1..Len(f[n]) /\ f[n][at[i] + j] = s[i][j]
           Out(n) == \A k \in 1..Len(f[n]) : \E i \in 1..Len(s) : k - at[i] \in 1..Len(s[i])
           N == {n \in 1..Len(s) : In(n) /\ Out(n)}
<1>6. 1 \in N
  <2>1. In(1)
    <3> SUFFICES ASSUME NEW j \in 1..Len(s[1])
                 PROVE  at[1] + j \in 1..Len(f[1]) /\ f[1][at[1] + j] = s[1][j]
      BY <1>3, <1>l
    <3> QED BY <1>3, <1>l
  <2>2. Out(1)
    <3> SUFFICES ASSUME NEW k \in 1..Len(f[1]) PROVE k - at[1] \in 1..Len(s[1])
      BY <1>3
    <3> QED BY <1>3, <1>l
  <2> HIDE DEF In, Out
  <2> QED BY <2>1, <2>2, <1>3
<1>7. ASSUME NEW n \in 1..Len(s), n \in N, n + 1 <= Len(s) PROVE n + 1 \in N
  <2>1. In(n) /\ Out(n)
    BY <1>7
  <2>2. n + 1 \in 1..Len(s) /\ at[n + 1] = Len(f[n])
    BY <1>7, <1>l, <1>2
  <2>a. Len(f[n]) \in Nat
    BY <1>f
  <2>b. Len(s[n + 1]) \in Nat
    BY <2>2, <1>l
  <2>3. PICK a \in Nat, b \in Nat : a = Len(f[n]) /\ b = Len(s[n + 1])
    BY <2>a, <2>b
  <2>c. Len(f[n + 1]) = a + b /\ at[n + 1] = a
    BY <1>7, <1>n, <2>2, <2>3
  <2>4. \A m \in 1..a : f[n + 1][m] = f[n][m]
    BY <1>7, <1>n, <2>3
  <2>5. \A m \in 1..b : f[n + 1][a + m] = s[n + 1][m]
    BY <1>7, <1>n, <2>3
  <2>6. In(n + 1)
    <3> SUFFICES ASSUME NEW i \in 1..Len(s), NEW j \in 1..Len(s[i]), i <= n + 1
                 PROVE  at[i] + j \in 1..a + b /\ f[n + 1][at[i] + j] = s[i][j]
      BY <2>c
    <3>1. CASE i = n + 1
      <4>1. j \in 1..b /\ at[i] + j = a + j
        BY <3>1, <2>c, <2>3
      <4>2. a + j \in 1..a + b
        BY <4>1
      <4>3. f[n + 1][a + j] = s[n + 1][j]
        BY <4>1, <2>5
      <4> QED BY <4>1, <4>2, <4>3, <3>1
    <3>2. CASE i <= n
      <4>1. at[i] + j \in 1..a /\ f[n][at[i] + j] = s[i][j]
        BY <3>2, <2>1, <2>3
      <4>2. 1..a \subseteq 1..a + b
        OBVIOUS
      <4> QED BY <4>1, <4>2, <2>4
    <3> QED BY <3>1, <3>2
  <2>7. Out(n + 1)
    <3> SUFFICES ASSUME NEW k \in 1..a + b
                 PROVE  \E i \in 1..Len(s) : k - at[i] \in 1..Len(s[i])
      BY <2>c
    <3>1. CASE k <= a
      <4>1. k \in 1..Len(f[n])
        BY <3>1, <2>3
      <4> QED BY <4>1, <2>1
    <3>2. CASE k > a
      <4>1. k - a \in 1..b
        BY <3>2
      <4> QED BY <4>1, <2>2, <2>3, <2>c
    <3> QED BY <3>1, <3>2
  <2> HIDE DEF In, Out
  <2> QED BY <2>2, <2>6, <2>7
<1>8. 1..Len(s) \subseteq N
  <2> HIDE DEF N
  <2> QED BY <1>6, <1>7, <1>l, NumbersUpTo
<1>9. In(Len(s)) /\ Out(Len(s))
  <2> HIDE DEF In, Out
  <2> QED BY <1>8, <1>l
<1>10. PICK t : t = FlattenSeq(s)
  OBVIOUS
<1>11. \A i \in 1..Len(s) : \A j \in 1..Len(s[i]) : at[i] + j \in 1..Len(t) /\ t[at[i] + j] = s[i][j]
  BY <1>9, <1>10, <1>1
<1>12. \A k \in 1..Len(t) : \E i \in 1..Len(s) : k - at[i] \in 1..Len(s[i])
  BY <1>9, <1>10, <1>1
<1>13. \A i \in 1..Len(s) : i + 1 <= Len(s) => at[i + 1] = at[i] + Len(s[i])
  BY <1>2, <1>4
<1>14. at \in [1..Len(s) -> Nat]
  BY <1>d, <1>5
<1>15. Begins(at, s, t)
  BY <1>11, <1>12, <1>13, <1>14, Zenon DEF Begins
<1> QED BY <1>15, <1>10

(* ------------------------ Counting with a credit ------------------------- *)

\* What is counted may pass the limit n by one for each request of the credit
\* P.  One more may be counted when a request joins the credit, or when there
\* was room before.
LEMMA Credit ==
    ASSUME NEW n \in Nat, NEW A, NEW B, NEW P, NEW Q, IsFiniteSet(A), IsFiniteSet(Q),
           P \subseteq Q, Cardinality(A) <= n + Cardinality(P)
    PROVE  /\ B \subseteq A => Cardinality(B) <= n + Cardinality(Q)
           /\ B \subseteq A /\ Cardinality(A) + 1 <= n + Cardinality(P) =>
                 Cardinality(B) + 1 <= n + Cardinality(Q)
           /\ \A x : B \subseteq A \union {x} =>
                 /\ Cardinality(A) + 1 <= n + Cardinality(P) =>
                       Cardinality(B) <= n + Cardinality(Q)
                 /\ \A c : c \in Q /\ c \notin P => Cardinality(B) <= n + Cardinality(Q)
<1>1. IsFiniteSet(P) /\ Cardinality(P) <= Cardinality(Q)
  BY FS_Subset
<1>2. Cardinality(A) \in Nat /\ Cardinality(P) \in Nat /\ Cardinality(Q) \in Nat
  BY <1>1, FS_CardinalityType
<1>3. ASSUME B \subseteq A
      PROVE  Cardinality(B) \in Nat /\ Cardinality(B) <= Cardinality(A)
  <2>1. IsFiniteSet(B) /\ Cardinality(B) <= Cardinality(A)
    BY <1>3, FS_Subset
  <2> QED BY <2>1, FS_CardinalityType
<1>4. ASSUME NEW x, B \subseteq A \union {x}
      PROVE  Cardinality(B) \in Nat /\ Cardinality(B) <= Cardinality(A) + 1
  <2>1. /\ IsFiniteSet(A \union {x})
        /\ Cardinality(A \union {x}) =
              IF x \in A THEN Cardinality(A) ELSE Cardinality(A) + 1
    BY FS_AddElement
  <2>2. IsFiniteSet(B) /\ Cardinality(B) <= Cardinality(A \union {x})
    BY <1>4, <2>1, FS_Subset
  <2>3. Cardinality(B) \in Nat
    BY <2>2, FS_CardinalityType
  <2> QED BY <1>2, <2>1, <2>2, <2>3
<1>5. ASSUME NEW c, c \in Q, c \notin P
      PROVE  Cardinality(P) + 1 <= Cardinality(Q)
  <2>1. /\ IsFiniteSet(P \union {c})
        /\ Cardinality(P \union {c}) = Cardinality(P) + 1
    BY <1>1, <1>5, FS_AddElement
  <2>2. P \union {c} \in SUBSET Q
    BY <1>5
  <2>3. Cardinality(P \union {c}) <= Cardinality(Q)
    BY <2>2, FS_Subset
  <2> QED BY <2>1, <2>3
<1>6. B \subseteq A => Cardinality(B) <= n + Cardinality(Q)
  BY <1>1, <1>2, <1>3
<1>7. B \subseteq A /\ Cardinality(A) + 1 <= n + Cardinality(P) =>
         Cardinality(B) + 1 <= n + Cardinality(Q)
  BY <1>1, <1>2, <1>3
<1>8. ASSUME NEW x, B \subseteq A \union {x}, Cardinality(A) + 1 <= n + Cardinality(P)
      PROVE  Cardinality(B) <= n + Cardinality(Q)
  <2>1. Cardinality(B) \in Nat /\ Cardinality(B) <= Cardinality(A) + 1
    BY <1>4, <1>8
  <2> QED BY <1>1, <1>2, <1>8, <2>1
<1>9. ASSUME NEW x, B \subseteq A \union {x}, NEW c, c \in Q, c \notin P
      PROVE  Cardinality(B) <= n + Cardinality(Q)
  <2>1. Cardinality(B) \in Nat /\ Cardinality(B) <= Cardinality(A) + 1
    BY <1>4, <1>9
  <2>2. Cardinality(P) + 1 <= Cardinality(Q)
    BY <1>5, <1>9
  <2> QED BY <1>1, <1>2, <2>1, <2>2
<1> QED BY <1>6, <1>7, <1>8, <1>9
=============================================================================
