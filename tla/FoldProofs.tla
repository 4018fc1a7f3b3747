------------------------------ MODULE FoldProofs ------------------------------
(***************************************************************************)
(* Induction for the proofs about loops over a sequence or a set, which    *)
(* the model writes with the folds of the library: a non-empty set of      *)
(* naturals has a least element, and the recursive function that a fold    *)
(* chooses exists.  Both are about sets and functions and take no operator *)
(* as a parameter.                                                         *)
(***************************************************************************)
EXTENDS Integers, FiniteSetsExt, FiniteSetTheorems, TLAPS

\* The least number principle.  A proof by induction on n takes the least n
\* for which its claim fails.
LEMMA LeastNatural ==
  ASSUME NEW T, T \subseteq Nat, T # {}
  PROVE  \E x \in T : \A y \in T : x =< y
<1> DEFINE R == {ss \in Nat \X Nat : ss[1] < ss[2]}
<1>1. OpToRel(<, Nat) = R
  BY Zenon DEF OpToRel
<1>2. IsWellFoundedOn(R, Nat)
  BY <1>1, NatLessThanWellFounded
<1>3. \A a, b \in Nat : a < b => <<a, b>> \in R
  OBVIOUS
<1> HIDE DEF R
<1>4. PICK x \in T : \A y \in T : ~ (<<y, x>> \in R)
  BY <1>2, WFMin
<1>5. ASSUME NEW y \in T PROVE x =< y
  <2>1. ~ (y < x)
    BY <1>3, <1>4
  <2> QED
    BY <2>1
<1> QED
  BY <1>5

\* A non-empty bounded set of naturals has a greatest element, so that Max of
\* it is what it says.
LEMMA MaxOfBounded ==
  ASSUME NEW n \in Nat, NEW S \in SUBSET (0 .. n), S # {}
  PROVE  /\ Max(S) \in S
         /\ \A y \in S : y =< Max(S)
<1> DEFINE T == {n - x : x \in S}
<1>1. T \subseteq Nat /\ T # {}
  <2>1. \A x \in S : n - x \in Nat
    OBVIOUS
  <2> QED
    BY <2>1
<1>2. PICK t \in T : \A y \in T : t =< y
  BY <1>1, LeastNatural
<1>3. PICK x \in S : t = n - x
  OBVIOUS
<1>4. \A y \in S : x >= y
  BY <1>2, <1>3
<1>5. \E m \in S : \A y \in S : m >= y
  BY <1>4
<1>6. Max(S) \in S /\ \A y \in S : Max(S) >= y
  BY <1>5 DEF Max
<1> QED
  BY <1>6

\* g folds over the subsets of D: c says which element of a set is taken last,
\* and op[x] is what the element x does to a value.
IsFold(g, D, base, c, op) ==
    \A s \in SUBSET D :
        g[s] = IF s = {} THEN base ELSE op[c[s]][g[s \ {c[s]}]]

Chooses(c, D) == \A s \in SUBSET D : s # {} => c[s] \in s

\* A fold over a finite set D exists and has values in V.
LEMMA FoldExists ==
  ASSUME NEW D, IsFiniteSet(D), NEW V, NEW base \in V,
         NEW c, Chooses(c, D), NEW op \in [D -> [V -> V]]
  PROVE  \E g \in [SUBSET D -> V] : IsFold(g, D, base, c, op)
<1> DEFINE Upto(k) == {s \in SUBSET D : Cardinality(s) =< k}
           Fold(g, k) ==
              \A s \in Upto(k) :
                 g[s] = IF s = {} THEN base ELSE op[c[s]][g[s \ {c[s]}]]
           Missing == {k \in Nat : ~ \E g \in [Upto(k) -> V] : Fold(g, k)}
<1>1. \A s \in SUBSET D : IsFiniteSet(s) /\ Cardinality(s) \in Nat
  BY FS_Subset, FS_CardinalityType
<1>2. Upto(0) = {{}}
  BY <1>1, FS_EmptySet
<1>3. 0 \notin Missing
  <2> DEFINE g0 == [s \in Upto(0) |-> base]
  <2>1. g0 \in [Upto(0) -> V] /\ Fold(g0, 0)
    BY <1>2
  <2> QED
    BY <2>1
<1>4. ASSUME NEW k \in Nat, k \notin Missing PROVE k + 1 \notin Missing
  <2>1. PICK g \in [Upto(k) -> V] : Fold(g, k)
    BY <1>4
  <2> DEFINE h == [s \in Upto(k + 1) |->
                      IF s = {} THEN base ELSE op[c[s]][g[s \ {c[s]}]]]
  <2>2. ASSUME NEW s \in Upto(k + 1), s # {}
        PROVE  c[s] \in D /\ s \ {c[s]} \in Upto(k)
    <3>1. s \in SUBSET D /\ c[s] \in s /\ c[s] \in D
      BY <2>2 DEF Chooses
    <3>2. Cardinality(s) \in Nat /\ Cardinality(s) =< k + 1
      BY <1>1
    <3>3. Cardinality(s \ {c[s]}) = Cardinality(s) - 1
      BY <1>1, <3>1, FS_RemoveElement
    <3>4. s \ {c[s]} \in SUBSET D
      BY <3>1
    <3> QED
      BY <3>1, <3>2, <3>3, <3>4
  <2>3. h \in [Upto(k + 1) -> V]
    <3> SUFFICES ASSUME NEW s \in Upto(k + 1)
                 PROVE  (IF s = {} THEN base ELSE op[c[s]][g[s \ {c[s]}]]) \in V
      OBVIOUS
    <3>1. CASE s = {}
      BY <3>1
    <3>2. CASE s # {}
      <4>1. op[c[s]] \in [V -> V] /\ g[s \ {c[s]}] \in V
        BY <2>1, <2>2, <3>2
      <4> QED
        BY <3>2, <4>1
    <3> QED
      BY <3>1, <3>2
  <2>4. ASSUME NEW s \in Upto(k) PROVE s \in Upto(k + 1) /\ h[s] = g[s]
    <3>1. s \in Upto(k + 1)
      BY <1>1
    <3>2. h[s] = IF s = {} THEN base ELSE op[c[s]][g[s \ {c[s]}]]
      BY <3>1
    <3>3. g[s] = IF s = {} THEN base ELSE op[c[s]][g[s \ {c[s]}]]
      BY <2>1
    <3> QED
      BY <3>1, <3>2, <3>3
  <2>5. Fold(h, k + 1)
    BY <2>2, <2>4
  <2> QED
    BY <2>3, <2>5
<1>5. Missing = {}
  <2> SUFFICES ASSUME Missing # {} PROVE FALSE
    OBVIOUS
  <2> Missing \subseteq Nat
    OBVIOUS
  <2> HIDE DEF Missing
  <2>1. PICK k \in Missing : \A j \in Missing : k =< j
    BY LeastNatural
  <2>2. k # 0 /\ k - 1 \in Nat
    BY <1>3
  <2>3. k - 1 \notin Missing
    BY <2>1
  <2>4. (k - 1) + 1 \notin Missing
    BY <1>4, <2>2, <2>3
  <2>5. (k - 1) + 1 = k
    BY <2>1
  <2> QED
    BY <2>1, <2>4, <2>5
<1>6. Cardinality(D) \in Nat /\ Upto(Cardinality(D)) = SUBSET D
  BY <1>1, FS_Subset, FS_CardinalityType
<1>7. \E g \in [Upto(Cardinality(D)) -> V] : Fold(g, Cardinality(D))
  BY <1>5, <1>6
<1> QED
  BY <1>6, <1>7 DEF IsFold

\* The image of a finite set is finite.
LEMMA ImageFinite ==
  ASSUME NEW D, IsFiniteSet(D), NEW f
  PROVE  IsFiniteSet({f[x] : x \in D})
<1> DEFINE T == {f[x] : x \in D}
           g == [x \in D |-> f[x]]
<1>1. g \in Surjection(D, T)
  BY DEF Surjection
<1> HIDE DEF g, T
<1>2. IsFiniteSet(T)
  BY <1>1, FS_Surjection
<1> QED
  BY <1>2 DEF T

\* A non-empty finite set of integers has a greatest and a least element.
LEMMA FiniteBounds ==
  ASSUME NEW S, IsFiniteSet(S), S \subseteq Int, S # {}
  PROVE  /\ Max(S) \in S /\ \A y \in S : y =< Max(S)
         /\ Min(S) \in S /\ \A y \in S : Min(S) =< y
<1> DEFINE HasEnds(T) == /\ \E x \in T : \A y \in T : y =< x
                         /\ \E x \in T : \A y \in T : x =< y
           Bad == {n \in Nat : \E T \in SUBSET S :
                      T # {} /\ Cardinality(T) = n /\ ~HasEnds(T)}
<1>1. \A T \in SUBSET S : /\ IsFiniteSet(T) /\ Cardinality(T) \in Nat
                          /\ \A x \in T : /\ T \ {x} \in SUBSET S
                                          /\ Cardinality(T \ {x}) = Cardinality(T) - 1
  BY FS_Subset, FS_CardinalityType, FS_RemoveElement
<1>2. Bad = {}
  <2> SUFFICES ASSUME Bad # {} PROVE FALSE
    OBVIOUS
  <2>1. Bad \subseteq Nat
    OBVIOUS
  <2>2. PICK n \in Bad : \A m \in Bad : n =< m
    <3> HIDE DEF Bad
    <3> QED
      BY <2>1, LeastNatural
  <2>3. PICK T \in SUBSET S : T # {} /\ Cardinality(T) = n /\ ~HasEnds(T)
    BY <2>2
  <2>4. PICK z \in T : TRUE
    BY <2>3
  <2>5. T \ {z} # {}
    <3> SUFFICES ASSUME T \ {z} = {} PROVE FALSE
      OBVIOUS
    <3>1. T = {z} /\ z \in Int
      BY <2>4
    <3> QED
      BY <2>3, <3>1
  <2>6. T \ {z} \in SUBSET S /\ Cardinality(T \ {z}) = n - 1 /\ n - 1 \in Nat
    BY <1>1, <2>3, <2>4
  <2>7. HasEnds(T \ {z})
    <3> SUFFICES ASSUME ~HasEnds(T \ {z}) PROVE FALSE
      OBVIOUS
    <3>1. n - 1 \in Bad
      BY <2>5, <2>6
    <3> HIDE DEF Bad
    <3> QED
      BY <2>1, <2>2, <3>1
  <2>8. PICK hi \in T \ {z} : \A y \in T \ {z} : y =< hi
    BY <2>7
  <2>9. PICK lo \in T \ {z} : \A y \in T \ {z} : lo =< y
    BY <2>7
  <2>10. T \subseteq Int
    OBVIOUS
  <2>11. \E x \in T : \A y \in T : y =< x
    <3>1. CASE z =< hi
      BY <2>4, <2>8, <2>10, <3>1
    <3>2. CASE hi =< z
      BY <2>4, <2>8, <2>10, <3>2
    <3> QED
      BY <2>4, <2>8, <2>10, <3>1, <3>2
  <2>12. \E x \in T : \A y \in T : x =< y
    <3>1. CASE lo =< z
      BY <2>4, <2>9, <2>10, <3>1
    <3>2. CASE z =< lo
      BY <2>4, <2>9, <2>10, <3>2
    <3> QED
      BY <2>4, <2>9, <2>10, <3>1, <3>2
  <2> QED
    BY <2>3, <2>11, <2>12
<1>3. HasEnds(S)
  BY <1>1, <1>2
<1>4. \E x \in S : \A y \in S : x >= y
  BY <1>3
<1>5. \E x \in S : \A y \in S : x =< y
  BY <1>3
<1>6. Max(S) \in S /\ \A y \in S : Max(S) >= y
  BY <1>4 DEF Max
<1>7. Min(S) \in S /\ \A y \in S : Min(S) =< y
  BY <1>5 DEF Min
<1> QED
  BY <1>6, <1>7

-----------------------------------------------------------------------------
(* Sums over finite sets.                                                  *)

\* g adds up the weights w over the subsets of D, whichever element is taken
\* out first.
IsSum(g, D, w) ==
    /\ g \in [SUBSET D -> Nat]
    /\ g[{}] = 0
    /\ \A s \in SUBSET D : \A x \in s : g[s] = w[x] + g[s \ {x}]

\* g adds them up in the order in which c takes elements out.
IsSumBy(g, D, w, c) ==
    /\ g \in [SUBSET D -> Nat]
    /\ \A s \in SUBSET D : g[s] = IF s = {} THEN 0 ELSE w[c[s]] + g[s \ {c[s]}]

\* The order does not matter.
LEMMA SumOrder ==
  ASSUME NEW D, IsFiniteSet(D), NEW w \in [D -> Nat], NEW c, Chooses(c, D),
         NEW g, IsSumBy(g, D, w, c)
  PROVE  IsSum(g, D, w)
<1> DEFINE Fails(n) == \E s \in SUBSET D : /\ Cardinality(s) = n
                                           /\ \E x \in s : g[s] # w[x] + g[s \ {x}]
           Bad == {n \in Nat : Fails(n)}
<1>1. \A s \in SUBSET D : /\ IsFiniteSet(s) /\ Cardinality(s) \in Nat
                          /\ g[s] \in Nat
                          /\ \A x \in s : /\ s \ {x} \in SUBSET D
                                          /\ w[x] \in Nat
                                          /\ Cardinality(s \ {x}) = Cardinality(s) - 1
  BY FS_Subset, FS_CardinalityType, FS_RemoveElement DEF IsSumBy
<1>2. g[{}] = 0
  BY DEF IsSumBy
<1>3. Bad = {}
  <2> SUFFICES ASSUME Bad # {} PROVE FALSE
    OBVIOUS
  <2>1. Bad \subseteq Nat
    OBVIOUS
  <2>2. PICK n \in Bad : \A m \in Bad : n =< m
    <3> HIDE DEF Bad
    <3> QED
      BY <2>1, LeastNatural
  <2>a. PICK s \in SUBSET D : /\ Cardinality(s) = n
                             /\ \E x \in s : g[s] # w[x] + g[s \ {x}]
    BY <2>2
  <2>3. PICK x \in s : Cardinality(s) = n /\ g[s] # w[x] + g[s \ {x}]
    BY <2>a
  <2>4. ASSUME NEW t \in SUBSET D, NEW z \in t, Cardinality(t) = n - 1
        PROVE  g[t] = w[z] + g[t \ {z}]
    <3> SUFFICES ASSUME g[t] # w[z] + g[t \ {z}] PROVE FALSE
      OBVIOUS
    <3>1. n - 1 \in Nat
      BY <1>1, <2>4
    <3>2. n - 1 \in Bad
      BY <2>4, <3>1
    <3> QED
      BY <2>1, <2>2, <3>2
  <2> DEFINE y == c[s]
  <2>5. y \in s /\ g[s] = w[y] + g[s \ {y}]
    BY DEF Chooses, IsSumBy
  <2>6. y # x
    BY <2>3, <2>5
  <2> HIDE DEF y
  <2>7. g[s \ {y}] = w[x] + g[(s \ {y}) \ {x}]
    BY <1>1, <2>3, <2>4, <2>5, <2>6
  <2>8. g[s \ {x}] = w[y] + g[(s \ {x}) \ {y}]
    BY <1>1, <2>3, <2>4, <2>5, <2>6
  <2>9. (s \ {x}) \ {y} = (s \ {y}) \ {x}
    OBVIOUS
  <2>10. /\ (s \ {y}) \ {x} \in SUBSET D /\ g[(s \ {y}) \ {x}] \in Nat
         /\ w[x] \in Nat /\ w[y] \in Nat
    BY <1>1, <2>5
  <2>11. PICK r \in Nat : r = g[(s \ {y}) \ {x}]
    BY <2>10
  <2>12. g[s] = w[y] + (w[x] + r)
    BY <2>5, <2>7, <2>11
  <2>13. w[x] + g[s \ {x}] = w[x] + (w[y] + r)
    BY <2>8, <2>9, <2>11
  <2> QED
    BY <2>3, <2>10, <2>12, <2>13
<1>4. ASSUME NEW s \in SUBSET D, NEW x \in s PROVE g[s] = w[x] + g[s \ {x}]
  <2>1. Cardinality(s) \notin Bad
    BY <1>3
  <2> QED
    BY <1>1, <2>1
<1> QED
  BY <1>2, <1>4 DEF IsSum, IsSumBy

\* A sum over a set does not depend on the larger set it is taken in, nor on
\* the weights outside the set.
LEMMA SumUnique ==
  ASSUME NEW D, IsFiniteSet(D), NEW w, NEW g, IsSum(g, D, w),
         NEW E, NEW v, NEW h, IsSum(h, E, v),
         NEW T \in SUBSET D, T \in SUBSET E,
         \A x \in T : w[x] = v[x]
  PROVE  g[T] = h[T]
<1> DEFINE Bad == {n \in Nat : \E s \in SUBSET T : Cardinality(s) = n /\ g[s] # h[s]}
<1>1. \A s \in SUBSET T : /\ IsFiniteSet(s) /\ Cardinality(s) \in Nat
                          /\ s \in SUBSET D /\ s \in SUBSET E
                          /\ \A x \in s : /\ s \ {x} \in SUBSET T
                                          /\ Cardinality(s \ {x}) = Cardinality(s) - 1
  BY FS_Subset, FS_CardinalityType, FS_RemoveElement
<1>2. Bad = {}
  <2> SUFFICES ASSUME Bad # {} PROVE FALSE
    OBVIOUS
  <2>1. Bad \subseteq Nat
    OBVIOUS
  <2>2. PICK n \in Bad : \A m \in Bad : n =< m
    <3> HIDE DEF Bad
    <3> QED
      BY <2>1, LeastNatural
  <2>3. PICK s \in SUBSET T : Cardinality(s) = n /\ g[s] # h[s]
    BY <2>2
  <2>4. s # {}
    BY <2>3 DEF IsSum
  <2>5. PICK x \in s : TRUE
    BY <2>4
  <2>6. g[s] = w[x] + g[s \ {x}] /\ h[s] = v[x] + h[s \ {x}] /\ w[x] = v[x]
    BY <1>1, <2>5 DEF IsSum
  <2>7. g[s \ {x}] # h[s \ {x}]
    BY <2>3, <2>6
  <2>8. s \ {x} \in SUBSET T /\ Cardinality(s \ {x}) = n - 1 /\ n - 1 \in Nat
    BY <1>1, <2>3, <2>5
  <2>9. n - 1 \in Bad
    BY <2>7, <2>8
  <2> QED
    BY <2>1, <2>2, <2>9
<1> QED
  BY <1>1, <1>2
\* A sum exists, whatever the order.
LEMMA SumByExists ==
  ASSUME NEW D, IsFiniteSet(D), NEW w \in [D -> Nat], NEW c, Chooses(c, D)
  PROVE  \E g : IsSumBy(g, D, w, c)
<1> DEFINE op == [x \in D |-> [v \in Nat |-> w[x] + v]]
<1>1. op \in [D -> [Nat -> Nat]]
  OBVIOUS
<1>2. \E g \in [SUBSET D -> Nat] : IsFold(g, D, 0, c, op)
  <2> HIDE DEF op
  <2> QED
    BY <1>1, FoldExists
<1>3. PICK g \in [SUBSET D -> Nat] : \A s \in SUBSET D :
         g[s] = IF s = {} THEN 0 ELSE op[c[s]][g[s \ {c[s]}]]
  BY <1>2 DEF IsFold
<1>4. ASSUME NEW s \in SUBSET D, s # {}
      PROVE  g[s] = w[c[s]] + g[s \ {c[s]}]
  <2>1. c[s] \in D /\ s \ {c[s]} \in SUBSET D /\ g[s \ {c[s]}] \in Nat
    BY <1>4 DEF Chooses
  <2> QED
    BY <1>3, <1>4, <2>1
<1> QED
  BY <1>3, <1>4 DEF IsSumBy

\* What satisfies the equations of a sum has natural numbers as values.
LEMMA SumByValues ==
  ASSUME NEW D, IsFiniteSet(D), NEW w \in [D -> Nat], NEW c, Chooses(c, D),
         NEW g, g = [s \in SUBSET D |-> g[s]],
         \A s \in SUBSET D : g[s] = IF s = {} THEN 0 ELSE w[c[s]] + g[s \ {c[s]}]
  PROVE  IsSumBy(g, D, w, c)
<1> DEFINE Bad == {n \in Nat : \E s \in SUBSET D : Cardinality(s) = n /\ g[s] \notin Nat}
<1>1. \A s \in SUBSET D : /\ IsFiniteSet(s) /\ Cardinality(s) \in Nat
                          /\ \A x \in s : /\ s \ {x} \in SUBSET D
                                          /\ w[x] \in Nat
                                          /\ Cardinality(s \ {x}) = Cardinality(s) - 1
  BY FS_Subset, FS_CardinalityType, FS_RemoveElement
<1>2. Bad = {}
  <2> SUFFICES ASSUME Bad # {} PROVE FALSE
    OBVIOUS
  <2>1. Bad \subseteq Nat
    OBVIOUS
  <2>2. PICK n \in Bad : \A m \in Bad : n =< m
    <3> HIDE DEF Bad
    <3> QED
      BY <2>1, LeastNatural
  <2>3. PICK s \in SUBSET D : Cardinality(s) = n /\ g[s] \notin Nat
    BY <2>2
  <2>4. s # {}
    <3>1. {} \in SUBSET D
      OBVIOUS
    <3>2. g[{}] = 0
      BY <3>1
    <3>3. g[{}] \in Nat
      BY ONLY <3>2
    <3> QED
      BY ONLY <2>3, <3>3
  <2>5. PICK x \in s : x = c[s]
    BY <2>4 DEF Chooses
  <2>6. g[s] = w[x] + g[s \ {x}] /\ w[x] \in Nat
    BY <1>1, <2>4, <2>5
  <2>7. g[s \ {x}] \notin Nat
    BY <2>3, <2>6
  <2>8. s \ {x} \in SUBSET D /\ Cardinality(s \ {x}) = n - 1 /\ n - 1 \in Nat
    BY <1>1, <2>3, <2>5
  <2>9. n - 1 \in Bad
    BY <2>7, <2>8
  <2> HIDE DEF Bad
  <2> QED
    BY <2>1, <2>2, <2>9
<1>3. \A s \in SUBSET D : g[s] \in Nat
  BY <1>1, <1>2
<1>4. g \in [SUBSET D -> Nat]
  BY <1>3
<1> QED
  BY <1>4 DEF IsSumBy

-----------------------------------------------------------------------------
(* Recursion along 0 .. n.                                                 *)

\* f starts at base and step[k] leads from its value at k - 1 to that at k.
IsRun(f, n, base, step) ==
    f[0] = base /\ \A k \in 1 .. n : f[k] = step[k][f[k - 1]]

\* What holds at 0 and goes from each number to the next holds up to n.
LEMMA InductionUpTo ==
  ASSUME NEW n \in Nat, NEW S, 0 \in S, \A k \in 1 .. n : k - 1 \in S => k \in S
  PROVE  \A k \in 0 .. n : k \in S
<1> DEFINE Bad == {k \in 0 .. n : k \notin S}
<1> SUFFICES ASSUME Bad # {} PROVE FALSE
  OBVIOUS
<1>1. Bad \subseteq Nat
  OBVIOUS
<1>2. PICK m \in Bad : \A k \in Bad : m =< k
  <2> HIDE DEF Bad
  <2> QED
    BY <1>1, LeastNatural
<1>3. m \in 0 .. n /\ m \notin S /\ m # 0
  BY <1>2
<1>4. m \in 1 .. n /\ m - 1 \in 0 .. n /\ ~(m =< m - 1)
  BY <1>3
<1>5. m - 1 \in S
  <2>1. m - 1 \notin Bad
    <3> HIDE DEF Bad
    <3> QED
      BY <1>2, <1>4
  <2> QED
    BY <1>4, <2>1
<1> QED
  BY <1>3, <1>4, <1>5

\* Such a function exists.
LEMMA RunExists ==
  ASSUME NEW n \in Nat, NEW V, NEW base \in V, NEW step \in [1 .. n -> [V -> V]]
  PROVE  \E f \in [0 .. n -> V] : IsRun(f, n, base, step)
<1> DEFINE S == {m \in 0 .. n : \E f \in [0 .. m -> V] : IsRun(f, m, base, step)}
<1>1. 0 \in S
  <2> DEFINE f == [k \in 0 .. 0 |-> base]
  <2>1. f \in [0 .. 0 -> V] /\ IsRun(f, 0, base, step)
    BY DEF IsRun
  <2> QED
    BY <2>1
<1>2. ASSUME NEW m \in 1 .. n, m - 1 \in S PROVE m \in S
  <2>1. PICK f \in [0 .. m - 1 -> V] : IsRun(f, m - 1, base, step)
    BY <1>2
  <2> DEFINE g == [k \in 0 .. m |-> IF k = m THEN step[m][f[m - 1]] ELSE f[k]]
  <2>2. step[m] \in [V -> V] /\ f[m - 1] \in V
    OBVIOUS
  <2>3. g \in [0 .. m -> V]
    BY <2>2
  <2>4. g[0] = base
    BY <2>1 DEF IsRun
  <2>5. ASSUME NEW k \in 1 .. m PROVE g[k] = step[k][g[k - 1]]
    <3>1. CASE k = m
      BY <3>1
    <3>2. CASE k # m
      <4>1. k \in 1 .. m - 1 /\ k \in 0 .. m /\ k - 1 \in 0 .. m /\ k - 1 # m
        BY <3>2
      <4>2. f[k] = step[k][f[k - 1]]
        BY <2>1, <4>1 DEF IsRun
      <4> QED
        BY <3>2, <4>1, <4>2
    <3> QED
      BY <3>1, <3>2
  <2> HIDE DEF g
  <2>6. IsRun(g, m, base, step)
    BY <2>4, <2>5 DEF IsRun
  <2> QED
    BY <2>3, <2>6
<1>3. n \in S
  <2> HIDE DEF S
  <2>1. \A k \in 0 .. n : k \in S
    BY <1>1, <1>2, InductionUpTo
  <2> QED
    BY <2>1
<1> QED
  BY <1>3

\* Two functions that start alike and go on alike are alike.
LEMMA SameRun ==
  ASSUME NEW n \in Nat, NEW f, NEW g, f[0] = g[0],
         \A k \in 1 .. n : f[k - 1] = g[k - 1] => f[k] = g[k]
  PROVE  \A k \in 0 .. n : f[k] = g[k]
<1> DEFINE S == {k \in 0 .. n : f[k] = g[k]}
<1>1. 0 \in S
  OBVIOUS
<1>2. \A k \in 1 .. n : k - 1 \in S => k \in S
  OBVIOUS
<1>3. \A k \in 0 .. n : k \in S
  <2> HIDE DEF S
  <2> QED
    BY <1>1, <1>2, InductionUpTo
<1> QED
  BY <1>3

\* What never decreases from one number to the next never decreases.
LEMMA Monotone ==
  ASSUME NEW n \in Nat, NEW f \in [0 .. n -> Nat],
         \A k \in 1 .. n : f[k - 1] =< f[k],
         NEW i \in 0 .. n, NEW j \in i .. n
  PROVE  f[i] =< f[j]
<1> DEFINE S == {k \in 0 .. n : k =< i \/ f[i] =< f[k]}
<1>1. 0 \in S
  OBVIOUS
<1>2. ASSUME NEW k \in 1 .. n, k - 1 \in S PROVE k \in S
  <2>1. CASE k =< i
    BY <2>1
  <2>2. CASE ~(k =< i)
    <3>1. k - 1 \in 0 .. n /\ k \in 0 .. n /\ (k - 1 = i \/ ~(k - 1 =< i))
      BY <2>2
    <3>2. PICK x \in Nat, y \in Nat, z \in Nat : x = f[i] /\ y = f[k - 1] /\ z = f[k]
      BY <3>1
    <3>3. y =< z
      BY <3>2
    <3>4. x =< y
      <4>1. k - 1 =< i \/ f[i] =< f[k - 1]
        BY <1>2
      <4>2. CASE k - 1 = i
        <5>1. x = y
          BY <3>2, <4>2
        <5> QED
          BY <5>1
      <4>3. CASE ~(k - 1 =< i)
        BY <3>2, <4>1, <4>3
      <4> QED
        BY <3>1, <4>2, <4>3
    <3> QED
      BY <3>1, <3>2, <3>3, <3>4
  <2> QED
    BY <2>1, <2>2
<1>3. \A k \in 0 .. n : k \in S
  <2> HIDE DEF S
  <2> QED
    BY <1>1, <1>2, InductionUpTo
<1>4. j \in 0 .. n /\ (j =< i => j = i)
  OBVIOUS
<1>5. j =< i \/ f[i] =< f[j]
  BY <1>3, <1>4
<1> QED
  BY <1>4, <1>5
=============================================================================
