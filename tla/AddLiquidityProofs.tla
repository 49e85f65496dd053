------------------------- MODULE AddLiquidityProofs -------------------------
(***************************************************************************)
(* What an add hands to the router, for every range, price, amount and     *)
(* shape, however the active bin moves.  First the sums of the community   *)
(* modules, which are folds over a set; then the parts of a distribution   *)
(* in the order they are made; then the steps of an add.                   *)
(***************************************************************************)
EXTENDS AddOfPosition, FiniteSetTheorems, WellFoundedInduction, TLAPS

-----------------------------------------------------------------------------
(* In place of an induction: the least of a set of numbers, and in a set of *)
(* finite sets one that leaves it with any element taken out.               *)
LEMMA LeastNumber ==
    ASSUME NEW S \in SUBSET Nat, S # {}
    PROVE  \E x \in S : \A y \in S : x <= y
<1>1. PICK x \in S : \A y \in S : ~(<<y, x>> \in OpToRel(<, Nat))
  BY WFMin, NatLessThanWellFounded
<1>2. \A y \in S : y \in Nat /\ x \in Nat /\ ~(y < x)
  BY <1>1 DEF OpToRel
<1>3. \A y \in S : x <= y
  BY <1>2
<1> QED
  BY <1>3

LEMMA LeastSet ==
    ASSUME NEW B, B # {}, \A T \in B : IsFiniteSet(T)
    PROVE  \E T \in B : \A x \in T : T \ {x} \notin B
<1> DEFINE sizes == {Cardinality(T) : T \in B}
<1>1. sizes \in SUBSET Nat /\ sizes # {}
  BY FS_CardinalityType
<1>2. PICK n \in sizes : \A m \in sizes : n <= m
  BY <1>1, LeastNumber
<1>3. PICK T \in B : Cardinality(T) = n
  BY <1>2
<1>4. ASSUME NEW x \in T, T \ {x} \in B PROVE FALSE
  <2>1. Cardinality(T \ {x}) = n - 1 /\ Cardinality(T \ {x}) \in sizes
    BY <1>3, <1>4, FS_RemoveElement
  <2>2. n \in Nat /\ n <= n - 1
    BY <1>1, <1>2, <2>1
  <2> QED
    BY <2>2
<1> QED
  BY <1>3, <1>4

-----------------------------------------------------------------------------
(* The recursion of a sum.  It has a solution, which is found by the size   *)
(* of the sets, and one alone; so sums over a set and over its subsets are  *)
(* values of one function.                                                  *)
Picked(s) == CHOOSE x \in s : TRUE
SumStep(f, h, s) == IF s = {} THEN 0 ELSE f[Picked(s)] + h[s \ {Picked(s)}]
Sums(f, D, h) == h = [s \in SUBSET D |-> SumStep(f, h, s)]
UpTo(D, n) == {s \in SUBSET D : Cardinality(s) <= n}

LEMMA SumsExist ==
    ASSUME NEW f, NEW D, IsFiniteSet(D)
    PROVE  \E h : Sums(f, D, h)
<1> DEFINE Solved(n) == \E h : h = [s \in UpTo(D, n) |-> SumStep(f, h, s)]
           bad == {n \in Nat : ~Solved(n)}
<1>0. \A s \in SUBSET D : IsFiniteSet(s) /\ Cardinality(s) \in Nat
                          /\ Cardinality(s) <= Cardinality(D)
  BY FS_Subset, FS_CardinalityType
<1>1. ASSUME bad # {} PROVE FALSE
  <2>1. PICK n \in bad : \A m \in bad : n <= m
    BY <1>1, LeastNumber
  <2>2. CASE n = 0
    <3>1. UpTo(D, 0) = {{}}
      BY <1>0, FS_EmptySet DEF UpTo
    <3> DEFINE h == [s \in UpTo(D, 0) |-> 0]
    <3>2. h = [s \in UpTo(D, 0) |-> SumStep(f, h, s)]
      BY <3>1 DEF SumStep
    <3> HIDE DEF h
    <3> QED
      BY <2>1, <2>2, <3>2
  <2>3. CASE n # 0
    <3>1. n - 1 \in Nat /\ n - 1 \notin bad
      BY <2>1, <2>3
    <3>2. PICK g : g = [s \in UpTo(D, n - 1) |-> SumStep(f, g, s)]
      BY <3>1
    <3> DEFINE h == [s \in UpTo(D, n) |-> IF s \in UpTo(D, n - 1) THEN g[s] ELSE SumStep(f, g, s)]
    <3>3. ASSUME NEW s \in UpTo(D, n), s # {}
          PROVE  s \ {Picked(s)} \in UpTo(D, n - 1)
      <4>1. Picked(s) \in s
        BY <3>3 DEF Picked
      <4>2. s \in SUBSET D /\ IsFiniteSet(s) /\ Cardinality(s) \in Nat /\ Cardinality(s) <= n
        BY <1>0 DEF UpTo
      <4>3. Cardinality(s \ {Picked(s)}) = Cardinality(s) - 1
        BY <4>1, <4>2, FS_RemoveElement
      <4> QED
        BY <4>2, <4>3, <2>1 DEF UpTo
    <3>4. UpTo(D, n - 1) \subseteq UpTo(D, n)
      BY <1>0, <2>1 DEF UpTo
    <3>5. ASSUME NEW s \in UpTo(D, n) PROVE SumStep(f, g, s) = SumStep(f, h, s)
      <4>1. CASE s = {}
        BY <4>1 DEF SumStep
      <4>2. CASE s # {}
        <5>1. h[s \ {Picked(s)}] = g[s \ {Picked(s)}]
          BY <4>2, <3>3, <3>4
        <5> QED
          BY <4>2, <5>1 DEF SumStep
      <4> QED
        BY <4>1, <4>2
    <3>6. \A s \in UpTo(D, n) : h[s] = SumStep(f, h, s)
      <4> SUFFICES ASSUME NEW s \in UpTo(D, n) PROVE h[s] = SumStep(f, g, s)
        BY <3>5
      <4> QED
        BY <3>2
    <3>7. h = [s \in UpTo(D, n) |-> h[s]]
      OBVIOUS
    <3> HIDE DEF h
    <3>8. h = [s \in UpTo(D, n) |-> SumStep(f, h, s)]
      BY <3>6, <3>7
    <3> QED
      BY <2>1, <3>8
  <2> QED
    BY <2>2, <2>3
<1>2. Solved(Cardinality(D))
  BY <1>1, <1>0
<1>3. UpTo(D, Cardinality(D)) = SUBSET D
  BY <1>0 DEF UpTo
<1> QED
  BY <1>2, <1>3 DEF Sums

LEMMA SumIsFold ==
    ASSUME NEW f, NEW D, IsFiniteSet(D)
    PROVE  \E h : Sums(f, D, h) /\ SumFunctionOnSet(f, D) = h[D]
<1>1. PICK g : Sums(f, D, g)
  BY SumsExist
<1>2. g = [s \in SUBSET D |-> IF s = {} THEN 0
             ELSE f[CHOOSE x \in s : TRUE] + g[s \ {CHOOSE x \in s : TRUE}]]
  BY <1>1 DEF Sums, SumStep, Picked
<1>3. \E h : /\ h = [s \in SUBSET D |-> IF s = {} THEN 0
                       ELSE f[CHOOSE x \in s : TRUE] + h[s \ {CHOOSE x \in s : TRUE}]]
             /\ SumFunctionOnSet(f, D) = h[D]
  BY ONLY <1>2 DEF SumFunctionOnSet, FoldFunctionOnSet, MapThenFoldSet
<1> QED
  BY <1>3 DEF Sums, SumStep, Picked

(* Two solutions agree where both are defined.                              *)
LEMMA SumsAgree ==
    ASSUME NEW f, NEW D, IsFiniteSet(D), NEW T \in SUBSET D, NEW g, NEW h,
           Sums(f, D, g), Sums(f, T, h)
    PROVE  \A s \in SUBSET T : g[s] = h[s]
<1> DEFINE bad == {s \in SUBSET T : g[s] # h[s]}
<1> SUFFICES ASSUME bad # {} PROVE FALSE
  OBVIOUS
<1>1. \A s \in bad : IsFiniteSet(s)
  BY FS_Subset
<1>2. PICK s \in bad : \A x \in s : s \ {x} \notin bad
  BY <1>1, LeastSet
<1>3. g[s] = SumStep(f, g, s) /\ h[s] = SumStep(f, h, s)
  BY <1>2 DEF Sums
<1>4. s # {} => Picked(s) \in s /\ g[s \ {Picked(s)}] = h[s \ {Picked(s)}]
  BY <1>2 DEF Picked
<1> QED
  BY <1>2, <1>3, <1>4 DEF SumStep

(* The sum over a set, abbreviated.                                         *)
S(f, D) == SumFunctionOnSet(f, D)

LEMMA SumOfPicked ==
    ASSUME NEW f, NEW D, IsFiniteSet(D)
    PROVE  /\ S(f, {}) = 0
           /\ D # {} => S(f, D) = f[Picked(D)] + S(f, D \ {Picked(D)})
<1>1. IsFiniteSet({}) /\ \A T \in SUBSET D : IsFiniteSet(T)
  BY FS_EmptySet, FS_Subset
<1>2. PICK g : Sums(f, D, g) /\ S(f, D) = g[D]
  BY SumIsFold DEF S
<1>3. PICK e : Sums(f, {}, e) /\ S(f, {}) = e[{}]
  BY <1>1, SumIsFold DEF S
<1>4. S(f, {}) = 0
  BY <1>3 DEF Sums, SumStep
<1>5. ASSUME D # {} PROVE S(f, D) = f[Picked(D)] + S(f, D \ {Picked(D)})
  <2> DEFINE T == D \ {Picked(D)}
  <2>1. T \in SUBSET D /\ IsFiniteSet(T)
    BY <1>1
  <2>2. PICK h : Sums(f, T, h) /\ S(f, T) = h[T]
    BY <2>1, SumIsFold DEF S
  <2>3. g[T] = h[T]
    BY <1>2, <2>1, <2>2, SumsAgree
  <2>4. g[D] = f[Picked(D)] + g[T]
    BY <1>2, <1>5 DEF Sums, SumStep
  <2> QED
    BY <1>2, <2>2, <2>3, <2>4
<1> QED
  BY <1>4, <1>5

-----------------------------------------------------------------------------
(* Sums of integers: their type, one element taken out, and comparisons.    *)
Ints(f, D) == IsFiniteSet(D) /\ \A d \in D : f[d] \in Int
Nats(f, D) == IsFiniteSet(D) /\ \A d \in D : f[d] \in Nat

LEMMA SumEmpty == ASSUME NEW f PROVE S(f, {}) = 0
BY SumOfPicked, FS_EmptySet

LEMMA PartOfInts ==
    ASSUME NEW f, NEW D, Ints(f, D), NEW T \in SUBSET D
    PROVE  Ints(f, T)
BY FS_Subset DEF Ints

LEMMA SumInt ==
    ASSUME NEW f, NEW D, Ints(f, D)
    PROVE  S(f, D) \in Int
<1> DEFINE bad == {T \in SUBSET D : S(f, T) \notin Int}
<1> SUFFICES ASSUME bad # {} PROVE FALSE
  OBVIOUS
<1>1. \A T \in SUBSET D : IsFiniteSet(T) /\ \A d \in T : f[d] \in Int
  BY PartOfInts DEF Ints
<1>2. PICK T \in bad : \A x \in T : T \ {x} \notin bad
  BY <1>1, LeastSet
<1>3. T # {}
  BY <1>2, SumEmpty
<1>4. Picked(T) \in T
  BY <1>3 DEF Picked
<1>5. S(f, T) = f[Picked(T)] + S(f, T \ {Picked(T)})
  BY <1>1, <1>2, <1>3, SumOfPicked
<1>6. S(f, T \ {Picked(T)}) \in Int /\ f[Picked(T)] \in Int
  BY <1>1, <1>2, <1>4
<1> QED
  BY <1>2, <1>5, <1>6

LEMMA SumSplit ==
    ASSUME NEW f, NEW D, Ints(f, D), NEW x \in D
    PROVE  /\ S(f, D) = f[x] + S(f, D \ {x})
           /\ f[x] \in Int /\ S(f, D \ {x}) \in Int
<1> DEFINE bad == {T \in SUBSET D : \E y \in T : S(f, T) # f[y] + S(f, T \ {y})}
<1>1. \A T \in SUBSET D : /\ IsFiniteSet(T) /\ S(f, T) \in Int
                          /\ \A d \in T : f[d] \in Int
  BY PartOfInts, SumInt DEF Ints
<1>2. ASSUME bad # {} PROVE FALSE
  <2>1. PICK T \in bad : \A y \in T : T \ {y} \notin bad
    BY <1>1, <1>2, LeastSet
  <2>2. PICK y \in T : S(f, T) # f[y] + S(f, T \ {y})
    BY <2>1
  <2> DEFINE p == Picked(T)
  <2>3. p \in T
    BY <2>2 DEF Picked
  <2>4. S(f, T) = f[p] + S(f, T \ {p})
    BY <1>1, <2>1, <2>2, SumOfPicked
  <2>5. p # y
    BY <2>2, <2>4
  <2>6. S(f, T \ {p}) = f[y] + S(f, (T \ {p}) \ {y})
    BY <2>1, <2>2, <2>3, <2>5
  <2>7. S(f, T \ {y}) = f[p] + S(f, (T \ {y}) \ {p})
    BY <2>1, <2>2, <2>3, <2>5
  <2>8. (T \ {y}) \ {p} = (T \ {p}) \ {y}
    OBVIOUS
  <2> DEFINE r == S(f, (T \ {p}) \ {y})
  <2>9. f[p] \in Int /\ f[y] \in Int /\ r \in Int
    BY <1>1, <2>1, <2>2, <2>3
  <2>10. S(f, T \ {y}) = f[p] + r /\ S(f, T) = f[p] + (f[y] + r)
    BY <2>4, <2>6, <2>7, <2>8
  <2> HIDE DEF p, r
  <2>11. f[p] + (f[y] + r) = f[y] + (f[p] + r)
    BY <2>9
  <2> QED
    BY <2>2, <2>10, <2>11
<1> QED
  BY <1>1, <1>2

(* a*k <= b*m in every place gives the same of the sums: with k = m = 1 the *)
(* sums are compared, with others the rounding of a share is.               *)
LEMMA SumRatio ==
    ASSUME NEW f, NEW g, NEW D, Ints(f, D), Ints(g, D), NEW k \in Int, NEW m \in Int,
           \A d \in D : f[d] * k <= g[d] * m
    PROVE  S(f, D) * k <= S(g, D) * m
<1> DEFINE bad == {T \in SUBSET D : ~(S(f, T) * k <= S(g, T) * m)}
<1> SUFFICES ASSUME bad # {} PROVE FALSE
  OBVIOUS
<1>1. \A T \in SUBSET D : Ints(f, T) /\ Ints(g, T) /\ IsFiniteSet(T)
  BY PartOfInts DEF Ints
<1>2. PICK T \in bad : \A x \in T : T \ {x} \notin bad
  BY <1>1, LeastSet
<1>3. T # {} /\ T \in SUBSET D /\ Ints(f, T) /\ Ints(g, T)
  BY <1>1, <1>2, SumEmpty
<1>4. PICK x \in T : TRUE
  BY <1>3
<1> DEFINE a == S(f, T \ {x})
           b == S(g, T \ {x})
<1>5. /\ S(f, T) = f[x] + a /\ f[x] \in Int /\ a \in Int
      /\ S(g, T) = g[x] + b /\ g[x] \in Int /\ b \in Int
  BY <1>3, <1>4, SumSplit
<1>6. a * k <= b * m /\ f[x] * k <= g[x] * m
  BY <1>2, <1>4
<1> HIDE DEF a, b
<1>7. (f[x] + a) * k = f[x] * k + a * k /\ (g[x] + b) * m = g[x] * m + b * m
  BY <1>5
<1>8. f[x] * k \in Int /\ a * k \in Int /\ g[x] * m \in Int /\ b * m \in Int
  BY <1>5
<1>9. (f[x] + a) * k <= (g[x] + b) * m
  BY <1>6, <1>7, <1>8
<1> QED
  BY <1>2, <1>5, <1>9

LEMMA SumSame ==
    ASSUME NEW f, NEW g, NEW D, Ints(f, D), \A d \in D : f[d] = g[d]
    PROVE  S(f, D) = S(g, D)
<1>1. Ints(g, D) /\ S(f, D) \in Int /\ S(g, D) \in Int
  BY SumInt DEF Ints
<1>2. \A d \in D : f[d] * 1 <= g[d] * 1 /\ g[d] * 1 <= f[d] * 1
  BY DEF Ints
<1>3. S(f, D) * 1 <= S(g, D) * 1 /\ S(g, D) * 1 <= S(f, D) * 1
  BY <1>1, <1>2, SumRatio
<1> QED
  BY <1>1, <1>3

LEMMA SumNat ==
    ASSUME NEW f, NEW D, Nats(f, D)
    PROVE  S(f, D) \in Nat
<1>1. Ints(f, D) /\ S(f, D) \in Int
  BY SumInt DEF Ints, Nats
<1>2. \A d \in D : f[d] * 0 <= f[d] * 1
  BY DEF Nats
<1>3. S(f, D) * 0 <= S(f, D) * 1
  BY <1>1, <1>2, SumRatio
<1> QED
  BY <1>1, <1>3

LEMMA SumCovers ==
    ASSUME NEW f, NEW D, Nats(f, D), NEW x \in D
    PROVE  f[x] <= S(f, D)
<1>1. S(f, D) = f[x] + S(f, D \ {x})
  BY SumSplit DEF Ints, Nats
<1>2. Nats(f, D \ {x})
  BY FS_Subset DEF Nats
<1>3. S(f, D \ {x}) \in Nat /\ f[x] \in Nat
  BY <1>2, SumNat DEF Nats
<1> QED
  BY <1>1, <1>3

LEMMA SumZero ==
    ASSUME NEW f, NEW D, IsFiniteSet(D), \A d \in D : f[d] = 0
    PROVE  S(f, D) = 0
<1>1. Nats(f, D) /\ Ints(f, D) /\ S(f, D) \in Nat
  BY SumNat DEF Ints, Nats
<1>2. \A d \in D : f[d] * 1 <= f[d] * 0
  OBVIOUS
<1>3. S(f, D) * 1 <= S(f, D) * 0
  BY <1>1, <1>2, SumRatio
<1> QED
  BY <1>1, <1>3

(* A function changed in one place.                                         *)
LEMMA SumExcept ==
    ASSUME NEW f, NEW D, f = [d \in D |-> f[d]], Ints(f, D), NEW x \in D, NEW v \in Int
    PROVE  S([f EXCEPT ![x] = v], D) = S(f, D) - f[x] + v
<1> DEFINE g == [f EXCEPT ![x] = v]
<1>1. g[x] = v /\ \A d \in D \ {x} : g[d] = f[d]
  OBVIOUS
<1>2. Ints(g, D) /\ Ints(f, D \ {x})
  <2>1. \A d \in D : g[d] \in Int
    BY <1>1 DEF Ints
  <2> QED
    BY <2>1, PartOfInts DEF Ints
<1>3. S(f, D \ {x}) = S(g, D \ {x})
  BY <1>1, <1>2, SumSame
<1> HIDE DEF g
<1>4. S(f, D) = f[x] + S(f, D \ {x}) /\ f[x] \in Int /\ S(f, D \ {x}) \in Int
  BY SumSplit
<1>5. S(g, D) = g[x] + S(g, D \ {x})
  BY <1>2, SumSplit
<1>6. S(g, D) = S(f, D) - f[x] + v
  BY <1>1, <1>3, <1>4, <1>5
<1> QED
  BY <1>6 DEF g

(* One more in some of the places.                                          *)
LEMMA SumRaised ==
    ASSUME NEW f, NEW g, NEW D, Ints(f, D), Ints(g, D),
           \A d \in D : f[d] <= g[d] /\ g[d] <= f[d] + 1
    PROVE  S(f, D) <= S(g, D) /\ S(g, D) <= S(f, D) + Cardinality(D)
<1> DEFINE Holds(T) == S(f, T) <= S(g, T) /\ S(g, T) <= S(f, T) + Cardinality(T)
           bad == {T \in SUBSET D : ~Holds(T)}
<1>1. \A T \in SUBSET D : Ints(f, T) /\ Ints(g, T) /\ IsFiniteSet(T)
  BY PartOfInts DEF Ints
<1>2. ASSUME bad # {} PROVE FALSE
  <2>1. PICK T \in bad : \A x \in T : T \ {x} \notin bad
    BY <1>1, <1>2, LeastSet
  <2>2. T \in SUBSET D /\ Ints(f, T) /\ Ints(g, T) /\ IsFiniteSet(T) /\ ~Holds(T)
    BY <1>1, <2>1
  <2>3. T # {}
    <3>1. S(f, {}) = 0 /\ S(g, {}) = 0 /\ Cardinality({}) = 0
      BY SumEmpty, FS_EmptySet
    <3> QED
      BY <2>2, <3>1
  <2>4. PICK x \in T : TRUE
    BY <2>3
  <2> DEFINE a == S(f, T \ {x})
             b == S(g, T \ {x})
             n == Cardinality(T \ {x})
  <2>5. /\ S(f, T) = f[x] + a /\ f[x] \in Int /\ a \in Int
        /\ S(g, T) = g[x] + b /\ g[x] \in Int /\ b \in Int
    BY <2>2, <2>4, SumSplit
  <2>6. Cardinality(T) = n + 1 /\ n \in Nat
    <3>1. IsFiniteSet(T \ {x}) /\ n = Cardinality(T) - 1 /\ Cardinality(T) \in Nat
      BY <2>2, <2>4, FS_RemoveElement, FS_CardinalityType
    <3> QED
      BY <3>1, FS_CardinalityType
  <2>7. a <= b /\ b <= a + n
    BY <2>1, <2>2, <2>4
  <2>8. f[x] <= g[x] /\ g[x] <= f[x] + 1
    BY <2>2, <2>4
  <2> HIDE DEF a, b, n
  <2>9. Holds(T)
    BY <2>5, <2>6, <2>7, <2>8
  <2> QED
    BY <2>2, <2>9
<1>3. D \notin bad
  BY <1>2
<1> QED
  BY <1>3

-----------------------------------------------------------------------------
(* Arithmetic: products, quotients and the error of a quotient.             *)
LEMMA ProductNat ==
    ASSUME NEW a \in Nat, NEW b \in Nat PROVE a * b \in Nat
OBVIOUS

LEMMA QuotientNat ==
    ASSUME NEW a \in Nat, NEW b \in Nat \ {0} PROVE a \div b \in Nat
OBVIOUS

LEMMA QuotientError ==
    ASSUME NEW a \in Int, NEW b \in Nat \ {0}
    PROVE  /\ a \div b \in Int
           /\ (a \div b) * b <= a
           /\ a < (a \div b) * b + b
OBVIOUS

LEMMA QuotientIs ==
    ASSUME NEW a \in Int, NEW b \in Nat \ {0}, NEW q \in Int
    PROVE  /\ q * b <= a => q <= a \div b
           /\ a < q * b + b => a \div b <= q
<1> DEFINE d == a \div b
<1>1. d \in Int /\ d * b <= a /\ a < d * b + b
  BY QuotientError
<1> HIDE DEF d
<1>2. ASSUME q * b <= a, d < q PROVE FALSE
  <2>1. d + 1 <= q
    BY <1>1, <1>2
  <2>2. (d + 1) * b <= q * b
    BY <1>1, <2>1
  <2>3. (d + 1) * b = d * b + b
    BY <1>1
  <2> QED
    BY <1>1, <1>2, <2>2, <2>3
<1>3. ASSUME a < q * b + b, q < d PROVE FALSE
  <2>1. q + 1 <= d
    BY <1>1, <1>3
  <2>2. (q + 1) * b <= d * b
    BY <1>1, <2>1
  <2>3. (q + 1) * b = q * b + b
    BY <1>1
  <2> QED
    BY <1>1, <1>3, <2>2, <2>3
<1> QED
  BY <1>1, <1>2, <1>3 DEF d

LEMMA MinOfNats ==
    ASSUME NEW T \in SUBSET Nat, T # {}
    PROVE  Min(T) \in T /\ Min(T) \in Nat /\ \A y \in T : Min(T) <= y
<1>1. \E x \in T : \A y \in T : x =< y
  BY LeastNumber
<1> QED
  BY <1>1 DEF Min

-----------------------------------------------------------------------------
(* A range of an entry: an interval around the active bin.                  *)
IsRange(ds) == \E lo, hi \in Int : lo <= 0 /\ 0 <= hi /\ ds = lo..hi
Amounts(ds) == [ds -> Nat]

LEMMA RangesOfEntries ==
    ASSUME NEW count \in Nat \ {0}, NEW upside \in Int
    PROVE  IsRange(Range1(count, upside)) /\ Cardinality(Range1(count, upside)) = count
<1> DEFINE u == Clamp(10, 90, upside)
           hi == RightBins(count, upside)
<1>1. u \in Int /\ 10 <= u /\ u <= 90
  BY DEF Clamp, Larger, Smaller
<1>2. hi = (count * u) \div 100
  BY DEF RightBins
<1> HIDE DEF u, hi
<1>3. count * u \in Nat /\ count * u <= count * 90
  BY <1>1
<1>4. hi \in Int /\ hi * 100 <= count * u /\ count * u < hi * 100 + 100
  BY <1>2, <1>3
<1>5. 0 <= hi /\ hi + 1 <= count
  BY <1>3, <1>4
<1>6. hi + 1 - count \in Int /\ hi + 1 - count <= 0
  BY <1>4, <1>5
<1>7. Range1(count, upside) = (hi + 1 - count)..hi
  BY DEF Range1, hi
<1>8. Cardinality((hi + 1 - count)..hi) = count
  BY <1>4, <1>5, <1>6, FS_Interval
<1> QED
  BY <1>4, <1>5, <1>6, <1>7, <1>8 DEF IsRange

LEMMA RangeFacts ==
    ASSUME NEW ds, IsRange(ds)
    PROVE  /\ IsFiniteSet(ds) /\ ds \subseteq Int /\ 0 \in ds
           /\ Cardinality(ds) \in Nat /\ Min(ds) \in Int
           /\ \A d \in ds : 0 <= d - Min(ds) /\ d - Min(ds) < Cardinality(ds)
           /\ IsFiniteSet(Above(ds)) /\ IsFiniteSet(Below(ds))
           /\ Cardinality(Above(ds)) \in Nat /\ Cardinality(Below(ds)) \in Nat
           /\ (Below(ds) = {} <=> Cardinality(Below(ds)) = 0)
<1>1. PICK lo \in Int, hi \in Int : lo <= 0 /\ 0 <= hi /\ ds = lo..hi
  BY DEF IsRange
<1>2. IsFiniteSet(ds) /\ Cardinality(ds) = hi - lo + 1
  BY <1>1, FS_Interval
<1>3. Min(ds) = lo
  <2>1. lo \in ds /\ \A y \in ds : lo =< y
    BY <1>1
  <2>2. \A x \in ds : (\A y \in ds : x =< y) => x = lo
    BY <1>1
  <2> QED
    BY <2>1, <2>2 DEF Min
<1>4. Above(ds) \in SUBSET ds /\ Below(ds) \in SUBSET ds
  BY DEF Above, Below
<1>5. IsFiniteSet(Above(ds)) /\ IsFiniteSet(Below(ds))
  BY <1>2, <1>4, FS_Subset
<1>6. /\ Cardinality(Above(ds)) \in Nat /\ Cardinality(Below(ds)) \in Nat
      /\ (Below(ds) = {} <=> Cardinality(Below(ds)) = 0)
  BY <1>5, FS_EmptySet, FS_CardinalityType
<1>7. ds \subseteq Int /\ 0 \in ds /\ hi - lo + 1 \in Nat
  BY <1>1
<1>8. \A d \in ds : 0 <= d - lo /\ d - lo < hi - lo + 1
  BY <1>1
<1> QED
  BY <1>1, <1>2, <1>3, <1>5, <1>6, <1>7, <1>8

LEMMA SumOverRange ==
    ASSUME NEW ds, IsRange(ds), NEW f \in Amounts(ds)
    PROVE  /\ Nats(f, ds) /\ Ints(f, ds)
           /\ Sum1(f) = S(f, ds) /\ Sum1(f) \in Nat
           /\ \A d \in ds : f[d] <= Sum1(f)
<1>1. Nats(f, ds) /\ Ints(f, ds)
  BY RangeFacts DEF Nats, Ints, Amounts
<1>2. Sum1(f) = S(f, ds)
  BY DEF Sum1, SumFunction, S, Amounts
<1> QED
  BY <1>1, <1>2, SumNat, SumCovers

-----------------------------------------------------------------------------
(* Weights are natural numbers, in every bin of the range and every shape.  *)
LEMMA PowerOfTwo ==
    ASSUME NEW i \in Nat PROVE 2 ^ i \in Nat
<1>1. IsFiniteSet(1..i) /\ Cardinality(1..i) = i
  BY FS_Interval
<1>2. IsFiniteSet(SUBSET (1..i)) /\ Cardinality(SUBSET (1..i)) = 2 ^ Cardinality(1..i)
  BY <1>1, FS_SUBSET
<1>3. Cardinality(SUBSET (1..i)) \in Nat
  BY <1>2, FS_CardinalityType
<1> QED
  BY <1>1, <1>2, <1>3

LEMMA SlopesAreWeights ==
    ASSUME NEW ds, IsRange(ds), NEW shape \in Directions1
    PROVE  SlopeWeights(ds, shape) \in Amounts(ds)
<1> DEFINE n == Cardinality(ds)
           i(d) == d - Min(ds)
           mid == n \div 2
           w == [d \in ds |->
                  CASE shape = "ascending"  -> i(d)
                    [] shape = "descending" -> n - 1 - i(d)
                    [] shape = "peak"       -> mid - Absolute(i(d) - mid)
                    [] shape = "valley"     -> Absolute(i(d) - mid)]
<1>1. n \in Nat /\ \A d \in ds : i(d) \in Nat /\ i(d) < n
  BY RangeFacts
<1>2. ASSUME NEW d \in ds PROVE w[d] \in Nat
  <2> DEFINE k == i(d)
  <2>1. n \in Nat /\ k \in Nat /\ k < n
    BY <1>1
  <2>2. w[d] = CASE shape = "ascending"  -> k
                 [] shape = "descending" -> n - 1 - k
                 [] shape = "peak"       -> mid - Absolute(k - mid)
                 [] shape = "valley"     -> Absolute(k - mid)
    OBVIOUS
  <2> HIDE DEF n, i, w, k
  <2>3. mid \in Nat /\ n - 1 - k \in Nat
    BY <2>1
  <2>4. Absolute(k - mid) \in Nat /\ mid - Absolute(k - mid) \in Nat
    BY <2>1, <2>3 DEF Absolute
  <2> HIDE DEF mid
  <2> QED
    BY <2>1, <2>2, <2>3, <2>4 DEF Directions1
<1>3. w \in Amounts(ds) /\ [d \in ds |-> 1] \in Amounts(ds)
  BY <1>2 DEF Amounts
<1>4. SlopeWeights(ds, shape) = IF Sum1(w) > 0 THEN w ELSE [d \in ds |-> 1]
  BY DEF SlopeWeights
<1> HIDE DEF w
<1> QED
  BY <1>3, <1>4

LEMMA CurvesAreWeights ==
    ASSUME NEW ds, IsRange(ds), NEW shape \in Curves
    PROVE  CurveWeights(ds, shape) \in Amounts(ds)
<1> DEFINE n == Cardinality(ds)
           i(d) == d - Min(ds)
           far(d) == Absolute(2 * i(d) - n)
           w == [d \in ds |->
                  CASE shape = "exponential" -> 2 ^ i(d)
                    [] shape = "logarithmic" -> IF i(d) = 0 THEN 0 ELSE 1 + i(d) \div 2
                    [] shape = "bell"        -> 2 * n + 1 - far(d)
                    [] shape = "u_curve"     -> 1 + far(d)]
<1>1. n \in Nat /\ \A d \in ds : i(d) \in Nat /\ i(d) < n
  BY RangeFacts
<1>2. ASSUME NEW d \in ds PROVE w[d] \in Nat
  <2> DEFINE k == i(d)
             m == Absolute(2 * k - n)
             p == 2 ^ k
  <2>1. n \in Nat /\ k \in Nat /\ k < n
    BY <1>1
  <2>2. w[d] = CASE shape = "exponential" -> p
                 [] shape = "logarithmic" -> IF k = 0 THEN 0 ELSE 1 + k \div 2
                 [] shape = "bell"        -> 2 * n + 1 - m
                 [] shape = "u_curve"     -> 1 + m
    OBVIOUS
  <2> HIDE DEF n, i, far, w, k
  <2>3. p \in Nat
    BY <2>1, PowerOfTwo
  <2>4. m \in Nat /\ 2 * n + 1 - m \in Nat
    BY <2>1 DEF Absolute
  <2>5. 1 + k \div 2 \in Nat
    BY <2>1
  <2> HIDE DEF p, m
  <2> QED
    BY <2>2, <2>3, <2>4, <2>5 DEF Curves
<1>3. w \in Amounts(ds) /\ [d \in ds |-> 1] \in Amounts(ds)
  BY <1>2 DEF Amounts
<1>4. CurveWeights(ds, shape) = IF Sum1(w) > 0 THEN w ELSE [d \in ds |-> 1]
  BY DEF CurveWeights
<1> HIDE DEF w
<1> QED
  BY <1>3, <1>4

LEMMA WeightsAreNat ==
    ASSUME NEW ds, IsRange(ds), NEW shape \in Shapes
    PROVE  Weights(ds, shape) \in Amounts(ds)
<1>1. CASE shape = "uniform"
  <2>1. Weights(ds, shape) = [d \in ds |-> 1]
    BY <1>1 DEF Weights, Directions1
  <2> QED
    BY <2>1 DEF Amounts
<1>2. CASE shape \in Directions1
  <2>1. shape # "uniform"
    BY <1>2 DEF Directions1
  <2> QED
    BY <1>2, <2>1, SlopesAreWeights DEF Weights
<1>3. CASE shape \in Curves
  <2>1. shape # "uniform" /\ shape \notin Directions1
    BY <1>3 DEF Directions1, Curves
  <2> QED
    BY <1>3, <2>1, CurvesAreWeights DEF Weights
<1> QED
  BY <1>1, <1>2, <1>3 DEF Shapes

-----------------------------------------------------------------------------
(* Candidates.  What one hands out: nothing of X below the active bin, of Y *)
(* above it, or of a token there is none of.                                *)
Fits(c, ds, x, y) ==
  /\ c.l \in Nat /\ c.x \in Amounts(ds) /\ c.y \in Amounts(ds)
  /\ \A d \in ds : /\ d < 0 \/ x = 0 => c.x[d] = 0
                   /\ d > 0 \/ y = 0 => c.y[d] = 0

PricesAt(ds, active0) ==
  \A d \in ds : Price(active0 + d) \in {n \in Nat : 1 <= n /\ n <= Scale}

LEMMA InversesCount ==
    ASSUME NEW ds, IsRange(ds), NEW a \in Int, PricesAt(ds, a)
    PROVE  /\ InverseAbove(ds, a) \in Nat
           /\ Above(ds) # {} => InverseAbove(ds, a) > 0
           /\ Scale \div Price(a) \in Nat /\ Scale \div Price(a) > 0
<1> DEFINE f == [d \in Above(ds) |-> Scale \div Price(a + d)]
<1>1. ASSUME NEW d \in ds PROVE Scale \div Price(a + d) \in Nat /\ Scale \div Price(a + d) > 0
  <2> DEFINE p == Price(a + d)
  <2>1. p \in Nat \ {0} /\ Scale \in Nat /\ 1 * p <= Scale
    BY DistributionAssumption DEF PricesAt
  <2> HIDE DEF p
  <2>2. Scale \div p \in Nat /\ 1 <= Scale \div p
    BY <2>1, QuotientNat, QuotientIs
  <2> QED
    BY <2>2 DEF p
<1>2. Nats(f, Above(ds))
  BY <1>1, RangeFacts DEF Nats, Above
<1>3. InverseAbove(ds, a) = S(f, Above(ds))
  BY DEF InverseAbove, Sum1, SumFunction, S
<1>4. S(f, Above(ds)) \in Nat
  BY <1>2, SumNat
<1>5. ASSUME NEW d \in Above(ds) PROVE f[d] > 0 /\ f[d] <= S(f, Above(ds)) /\ f[d] \in Nat
  BY <1>1, <1>2, SumCovers DEF Above, Nats
<1> HIDE DEF f
<1>6. Above(ds) # {} => S(f, Above(ds)) > 0
  BY <1>4, <1>5
<1>7. 0 \in ds /\ a + 0 = a
  BY RangeFacts
<1> QED
  BY <1>1, <1>3, <1>4, <1>6, <1>7

LEMMA LiquidityMixed ==
    ASSUME NEW ds, IsRange(ds), NEW a \in Int, PricesAt(ds, a), NEW x \in Nat, NEW y \in Nat
    PROVE  Liquidity("mixed", ds, a, x, y) \in Nat
<1> DEFINE p == Price(a)
           inv == InverseAbove(ds, a)
           neg == Cardinality(Below(ds))
<1>1. p \in Nat
  <2>1. 0 \in ds /\ a + 0 = a
    BY RangeFacts
  <2> QED
    BY <2>1 DEF PricesAt
<1>2. inv \in Nat /\ neg \in Nat /\ Scale \in Nat \ {0}
  BY InversesCount, RangeFacts, DistributionAssumption
<1>3. Liquidity("mixed", ds, a, x, y) = ((p * x + y) * Scale) \div (Scale + p * inv + neg * Scale)
  BY DEF Liquidity
<1> HIDE DEF p, inv, neg
<1>4. p * x \in Nat /\ p * inv \in Nat /\ neg * Scale \in Nat
  BY <1>1, <1>2, ProductNat
<1>5. p * x + y \in Nat /\ Scale + p * inv + neg * Scale \in Nat \ {0}
  BY <1>2, <1>4
<1>6. (p * x + y) * Scale \in Nat
  BY <1>2, <1>5, ProductNat
<1> QED
  BY <1>3, <1>5, <1>6, QuotientNat

LEMMA LiquidityX ==
    ASSUME NEW ds, IsRange(ds), NEW a \in Int, PricesAt(ds, a), NEW x \in Nat, NEW y \in Nat
    PROVE  LET l == Liquidity("x_only", ds, a, x, y)
           IN  /\ l \in Nat /\ (x = 0 => l = 0)
               /\ y = 0 /\ Below(ds) # {} => l = 0
<1> DEFINE m == InverseAbove(ds, a) + Scale \div Price(a)
           neg == Cardinality(Below(ds))
           ofX == IF m > 0 THEN {(x * Scale) \div m} ELSE {}
           ofY == IF neg > 0 THEN {y \div neg} ELSE {}
<1>1. m \in Nat \ {0} /\ neg \in Nat /\ (Below(ds) = {} <=> neg = 0) /\ Scale \in Nat
  BY InversesCount, RangeFacts, DistributionAssumption
<1>2. Liquidity("x_only", ds, a, x, y) = Min(ofX \cup ofY)
  BY DEF Liquidity
<1> HIDE DEF m, neg
<1>3. (x * Scale) \div m \in Nat /\ (x = 0 => (x * Scale) \div m = 0)
  BY <1>1, ProductNat, QuotientNat
<1>4. neg > 0 => y \div neg \in Nat /\ (y = 0 => y \div neg = 0)
  BY <1>1, QuotientNat
<1>5. ofX = {(x * Scale) \div m} /\ ofX \cup ofY \in SUBSET Nat /\ ofX \cup ofY # {}
  BY <1>1, <1>3, <1>4
<1>6. /\ Min(ofX \cup ofY) \in Nat
      /\ \A n \in ofX \cup ofY : Min(ofX \cup ofY) <= n
  BY <1>5, MinOfNats
<1>7. Min(ofX \cup ofY) <= (x * Scale) \div m /\ (neg > 0 => Min(ofX \cup ofY) <= y \div neg)
  BY <1>5, <1>6
<1> DEFINE l == Min(ofX \cup ofY)
<1>8. l \in Nat /\ (x = 0 => l = 0) /\ (y = 0 /\ neg > 0 => l = 0)
  <2> HIDE DEF l, ofX, ofY
  <2>1. l \in Nat /\ l <= (x * Scale) \div m /\ (neg > 0 => l <= y \div neg)
    BY <1>6, <1>7 DEF l
  <2> QED
    BY <2>1, <1>3, <1>4
<1> QED
  BY <1>1, <1>2, <1>8

LEMMA LiquidityY ==
    ASSUME NEW ds, IsRange(ds), NEW a \in Int, PricesAt(ds, a), NEW x \in Nat, NEW y \in Nat
    PROVE  LET l == Liquidity("y_only", ds, a, x, y)
           IN  /\ l \in Nat /\ (y = 0 => l = 0)
               /\ x = 0 /\ Above(ds) # {} => l = 0
<1> DEFINE inv == InverseAbove(ds, a)
           m == Cardinality(Below(ds)) + 1
           ofX == IF inv > 0 THEN {(x * Scale) \div inv} ELSE {}
           ofY == IF m > 0 THEN {y \div m} ELSE {}
<1>1. m \in Nat \ {0} /\ inv \in Nat /\ (Above(ds) # {} => inv > 0) /\ Scale \in Nat
  BY InversesCount, RangeFacts, DistributionAssumption
<1>2. Liquidity("y_only", ds, a, x, y) = Min(ofX \cup ofY)
  BY DEF Liquidity
<1> HIDE DEF m, inv
<1>3. inv > 0 => (x * Scale) \div inv \in Nat /\ (x = 0 => (x * Scale) \div inv = 0)
  BY <1>1, ProductNat, QuotientNat
<1>4. y \div m \in Nat /\ (y = 0 => y \div m = 0)
  BY <1>1, QuotientNat
<1>5. ofY = {y \div m} /\ ofX \cup ofY \in SUBSET Nat
  BY <1>1, <1>3, <1>4
<1>6. /\ Min(ofX \cup ofY) \in Nat
      /\ \A n \in ofX \cup ofY : Min(ofX \cup ofY) <= n
  BY <1>5, MinOfNats
<1>7. Min(ofX \cup ofY) <= y \div m /\ (inv > 0 => Min(ofX \cup ofY) <= (x * Scale) \div inv)
  BY <1>5, <1>6
<1> DEFINE l == Min(ofX \cup ofY)
<1>8. l \in Nat /\ (y = 0 => l = 0) /\ (x = 0 /\ inv > 0 => l = 0)
  <2> HIDE DEF l, ofX, ofY
  <2>1. l \in Nat /\ l <= y \div m /\ (inv > 0 => l <= (x * Scale) \div inv)
    BY <1>6, <1>7 DEF l
  <2> QED
    BY <2>1, <1>3, <1>4
<1> QED
  BY <1>1, <1>2, <1>8

LEMMA FillingFits ==
    ASSUME NEW ds, IsRange(ds), NEW a \in Int, PricesAt(ds, a), NEW x \in Nat, NEW y \in Nat,
           NEW l \in Nat, NEW mode \in {"mixed", "x_only", "y_only"},
           mode = "mixed" => Feasible(Filling(mode, l, ds, a, x, y)),
           mode = "x_only" => (x = 0 => l = 0) /\ (y = 0 /\ Below(ds) # {} => l = 0),
           mode = "y_only" => (y = 0 => l = 0) /\ (x = 0 /\ Above(ds) # {} => l = 0)
    PROVE  Fits(Filling(mode, l, ds, a, x, y), ds, x, y)
<1> DEFINE xs == [d \in ds |-> IF d > 0 THEN l \div Price(a + d) ELSE 0]
           ys == [d \in ds |-> IF d < 0 THEN l ELSE 0]
           x0 == CASE mode = "mixed" -> x - Sum1(xs)
                   [] mode = "x_only" -> l \div Price(a) [] OTHER -> 0
           y0 == CASE mode = "mixed" -> y - Sum1(ys)
                   [] mode = "y_only" -> l [] OTHER -> 0
           c == Filling(mode, l, ds, a, x, y)
<1>1. c = [mode |-> mode, l |-> l, x |-> [xs EXCEPT ![0] = x0], y |-> [ys EXCEPT ![0] = y0]]
  BY DEF Filling
<1>2. 0 \in ds /\ ds \subseteq Int /\ a + 0 = a
  BY RangeFacts
<1>3. \A d \in ds : /\ l \div Price(a + d) \in Nat
                    /\ l = 0 => l \div Price(a + d) = 0
  <2> SUFFICES ASSUME NEW d \in ds
               PROVE  l \div Price(a + d) \in Nat /\ (l = 0 => l \div Price(a + d) = 0)
    OBVIOUS
  <2> DEFINE p == Price(a + d)
  <2>1. p \in Nat \ {0}
    BY DEF PricesAt
  <2> HIDE DEF p
  <2>2. l \div p \in Nat /\ (l = 0 => l \div p = 0)
    BY <2>1, QuotientNat
  <2> QED
    BY <2>2 DEF p
<1>4. xs \in Amounts(ds) /\ ys \in Amounts(ds)
  BY <1>2, <1>3 DEF Amounts
<1>5. /\ \A d \in ds : xs[d] \in Nat /\ (d <= 0 => xs[d] = 0) /\ (l = 0 => xs[d] = 0)
      /\ \A d \in ds : ys[d] \in Nat /\ (d >= 0 => ys[d] = 0) /\ (l = 0 => ys[d] = 0)
      /\ Above(ds) = {} => \A d \in ds : xs[d] = 0
      /\ Below(ds) = {} => \A d \in ds : ys[d] = 0
  BY <1>2, <1>3 DEF Above, Below
<1>6. /\ Sum1(xs) \in Nat /\ Sum1(ys) \in Nat
      /\ \A d \in ds : xs[d] <= Sum1(xs) /\ ys[d] <= Sum1(ys)
  BY <1>4, SumOverRange
<1>7. /\ c.l = l /\ c.mode = mode
      /\ c.x = [d \in ds |-> IF d = 0 THEN x0 ELSE xs[d]]
      /\ c.y = [d \in ds |-> IF d = 0 THEN y0 ELSE ys[d]]
  <2>1. xs = [d \in ds |-> xs[d]] /\ ys = [d \in ds |-> ys[d]]
    OBVIOUS
  <2> HIDE DEF xs, ys, x0, y0, c
  <2> QED
    BY <1>1, <2>1
<1> HIDE DEF xs, ys, c
<1>8. /\ x0 \in Nat /\ y0 \in Nat
      /\ x = 0 => x0 = 0 /\ \A d \in ds : xs[d] = 0
      /\ y = 0 => y0 = 0 /\ \A d \in ds : ys[d] = 0
  <2>1. CASE mode = "mixed"
    <3>1. x0 = x - Sum1(xs) /\ y0 = y - Sum1(ys)
      BY <2>1
    <3>2. c.x[0] >= 0 /\ c.y[0] >= 0
      BY <2>1 DEF Feasible, c
    <3>3. x0 >= 0 /\ y0 >= 0
      BY <1>2, <1>7, <3>2
    <3> HIDE DEF x0, y0
    <3>4. (x = 0 => Sum1(xs) = 0) /\ (y = 0 => Sum1(ys) = 0)
      BY <3>1, <3>3, <1>6
    <3>5. (x = 0 => \A d \in ds : xs[d] = 0) /\ (y = 0 => \A d \in ds : ys[d] = 0)
      BY <3>4, <1>5, <1>6
    <3> QED
      BY <3>1, <3>3, <3>4, <3>5, <1>6
  <2>2. CASE mode = "x_only"
    <3>1. x0 = l \div Price(a) /\ y0 = 0
      BY <2>2
    <3>2. x0 \in Nat /\ (l = 0 => x0 = 0)
      BY <3>1, <1>2, <1>3
    <3> QED
      BY <2>2, <3>1, <3>2, <1>5
  <2>3. CASE mode = "y_only"
    <3>1. x0 = 0 /\ y0 = l
      BY <2>3
    <3> QED
      BY <2>3, <3>1, <1>5
  <2> QED
    BY <2>1, <2>2, <2>3
<1> HIDE DEF x0, y0
<1>9. c.x \in Amounts(ds) /\ c.y \in Amounts(ds)
  BY <1>5, <1>7, <1>8 DEF Amounts
<1>10. \A d \in ds : /\ d < 0 \/ x = 0 => c.x[d] = 0
                     /\ d > 0 \/ y = 0 => c.y[d] = 0
  <2> SUFFICES ASSUME NEW d \in ds
               PROVE  (d < 0 \/ x = 0 => c.x[d] = 0) /\ (d > 0 \/ y = 0 => c.y[d] = 0)
    OBVIOUS
  <2>1. d \in Int /\ c.x[d] = (IF d = 0 THEN x0 ELSE xs[d]) /\ c.y[d] = (IF d = 0 THEN y0 ELSE ys[d])
    BY <1>2, <1>7
  <2> QED
    BY <2>1, <1>5, <1>8
<1> QED
  BY <1>7, <1>9, <1>10 DEF Fits, c

LEMMA UniformFits ==
    ASSUME NEW ds, IsRange(ds), NEW a \in Int, PricesAt(ds, a), NEW x \in Nat, NEW y \in Nat,
           NEW mode \in {"mixed", "x_only", "y_only"},
           mode = "mixed" => Feasible(Uniform(mode, ds, a, x, y))
    PROVE  Fits(Uniform(mode, ds, a, x, y), ds, x, y)
<1> DEFINE l == Liquidity(mode, ds, a, x, y)
<1>1. Uniform(mode, ds, a, x, y) = Filling(mode, l, ds, a, x, y)
  BY DEF Uniform
<1>2. CASE mode = "mixed"
  <2>1. l \in Nat
    BY <1>2, LiquidityMixed
  <2> QED
    BY <1>1, <1>2, <2>1, FillingFits
<1>3. CASE mode = "x_only"
  <2>1. l \in Nat /\ (x = 0 => l = 0) /\ (y = 0 /\ Below(ds) # {} => l = 0)
    BY <1>3, LiquidityX
  <2> QED
    BY <1>1, <1>3, <2>1, FillingFits
<1>4. CASE mode = "y_only"
  <2>1. l \in Nat /\ (y = 0 => l = 0) /\ (x = 0 /\ Above(ds) # {} => l = 0)
    BY <1>4, LiquidityY
  <2> QED
    BY <1>1, <1>4, <2>1, FillingFits
<1> QED
  BY <1>2, <1>3, <1>4

LEMMA OneSidedFits ==
    ASSUME NEW ds, IsRange(ds), NEW x \in Nat, NEW y \in Nat
    PROVE  Fits(OneSidedY(ds, y), ds, x, y)
<1> DEFINE bins == Below(ds) \cup {0}
           each == y \div Cardinality(bins)
           c == OneSidedY(ds, y)
<1>1. IsFiniteSet(bins) /\ Cardinality(bins) \in Nat \ {0}
  <2>1. IsFiniteSet(bins) /\ bins # {}
    BY RangeFacts, FS_AddElement
  <2> QED
    BY <2>1, FS_EmptySet, FS_CardinalityType
<1>2. each \in Nat /\ (y = 0 => each = 0)
  BY <1>1, QuotientNat
<1>3. \A d \in ds : d \in Int /\ (d > 0 => d \notin bins)
  <2>1. ds \subseteq Int
    BY RangeFacts
  <2> QED
    BY <2>1 DEF Below
<1>4. c = [mode |-> "y_only_onesided", l |-> each, x |-> Zeros(ds),
           y |-> [d \in ds |-> IF d \in bins THEN each ELSE 0]]
  BY DEF OneSidedY
<1> HIDE DEF each, bins, c
<1> QED
  BY <1>2, <1>3, <1>4 DEF Fits, Amounts, Zeros, c

-----------------------------------------------------------------------------
(* A shape changes how much a bin gets of what there is, not which bins.    *)
LEMMA ReweightedKeeps ==
    ASSUME NEW ds, IsRange(ds), NEW alloc \in Amounts(ds), NEW w \in Amounts(ds)
    PROVE  /\ Reweighted(alloc, w) \in Amounts(ds)
           /\ \A d \in ds : alloc[d] = 0 => Reweighted(alloc, w)[d] = 0
<1> DEFINE bins == {d \in ds : alloc[d] > 0}
           sum  == SumFunctionOnSet(w, bins)
           have == SumFunctionOnSet(alloc, bins)
           r == [d \in ds |-> IF d \in bins THEN (have * w[d]) \div sum ELSE alloc[d]]
<1>1. DOMAIN alloc = ds /\ \A d \in ds : alloc[d] \in Nat /\ w[d] \in Nat
  BY DEF Amounts
<1>2. Reweighted(alloc, w) = IF bins = {} \/ sum = 0 THEN alloc ELSE r
  BY <1>1 DEF Reweighted
<1>3. sum \in Nat /\ have \in Nat
  <2>1. Nats(w, bins) /\ Nats(alloc, bins)
    BY <1>1, RangeFacts, FS_Subset DEF Nats
  <2> QED
    BY <2>1, SumNat DEF S
<1>4. CASE bins = {} \/ sum = 0
  BY <1>2, <1>4
<1>5. CASE ~(bins = {} \/ sum = 0)
  <2>1. \A d \in ds : (have * w[d]) \div sum \in Nat
    <3> SUFFICES ASSUME NEW d \in ds PROVE (have * w[d]) \div sum \in Nat
      OBVIOUS
    <3>1. have * w[d] \in Nat /\ sum \in Nat \ {0}
      BY <1>1, <1>3, <1>5, ProductNat
    <3> HIDE DEF sum, have
    <3> QED
      BY <3>1, QuotientNat
  <2>2. \A d \in ds : alloc[d] = 0 => d \notin bins
    OBVIOUS
  <2>3. Reweighted(alloc, w) = r
    BY <1>2, <1>5
  <2> HIDE DEF sum, have, bins
  <2> QED
    BY <1>1, <2>1, <2>2, <2>3 DEF Amounts
<1> QED
  BY <1>4, <1>5

LEMMA ShapedFits ==
    ASSUME NEW ds, IsRange(ds), NEW x \in Nat, NEW y \in Nat, NEW shape \in Shapes,
           NEW mode, NEW l, NEW xs, NEW ys,
           Fits([mode |-> mode, l |-> l, x |-> xs, y |-> ys], ds, x, y)
    PROVE  Fits(Shaped([mode |-> mode, l |-> l, x |-> xs, y |-> ys], ds, shape), ds, x, y)
<1> DEFINE c == [mode |-> mode, l |-> l, x |-> xs, y |-> ys]
           w == Weights(ds, shape)
           t == [mode |-> mode, l |-> l, x |-> Reweighted(xs, w), y |-> Reweighted(ys, w)]
<1>1. Shaped(c, ds, shape) = c \/ Shaped(c, ds, shape) = t
  BY DEF Shaped
<1>2. /\ l \in Nat /\ xs \in Amounts(ds) /\ ys \in Amounts(ds)
      /\ \A d \in ds : /\ d < 0 \/ x = 0 => xs[d] = 0
                       /\ d > 0 \/ y = 0 => ys[d] = 0
  BY DEF Fits
<1>3. w \in Amounts(ds)
  BY WeightsAreNat
<1> HIDE DEF w
<1>4. /\ Reweighted(xs, w) \in Amounts(ds) /\ Reweighted(ys, w) \in Amounts(ds)
      /\ \A d \in ds : /\ xs[d] = 0 => Reweighted(xs, w)[d] = 0
                       /\ ys[d] = 0 => Reweighted(ys, w)[d] = 0
  BY <1>2, <1>3, ReweightedKeeps
<1>5. Fits(t, ds, x, y)
  BY <1>2, <1>4 DEF Fits
<1> QED
  BY <1>1, <1>5

(* The candidates: at least two, and all of them fit.                       *)
Modes == {"mixed", "x_only", "y_only", "y_only_onesided"}

LEMMA CandidatesFit ==
    ASSUME NEW ds, IsRange(ds), NEW a \in Int, PricesAt(ds, a), NEW x \in Nat, NEW y \in Nat,
           NEW shape \in Shapes
    PROVE  LET cs == Candidates(ds, a, x, y, shape)
           IN  /\ Len(cs) \in 2..4
               /\ \A i \in 1..Len(cs) : Fits(cs[i], ds, x, y) /\ cs[i].mode \in Modes
<1> DEFINE c(mode) == Uniform(mode, ds, a, x, y)
           m == Shaped(c("mixed"), ds, shape)
           skewed == y * 10000 > SkewBps * (x * Price(a) + y)
           first == IF Feasible(c("mixed")) THEN <<m>> ELSE <<>>
           last == IF skewed THEN <<OneSidedY(ds, y)>> ELSE <<>>
<1>1. Candidates(ds, a, x, y, shape) = first \o <<c("x_only"), c("y_only")>> \o last
  BY DEF Candidates
<1>2. /\ Fits(c("x_only"), ds, x, y) /\ c("x_only").mode = "x_only"
      /\ Fits(c("y_only"), ds, x, y) /\ c("y_only").mode = "y_only"
  BY UniformFits DEF Uniform, Filling
<1>3. Fits(OneSidedY(ds, y), ds, x, y) /\ OneSidedY(ds, y).mode = "y_only_onesided"
  BY OneSidedFits DEF OneSidedY
<1>4. Feasible(c("mixed")) => Fits(m, ds, x, y) /\ m.mode = "mixed"
  <2> SUFFICES ASSUME Feasible(c("mixed")) PROVE Fits(m, ds, x, y) /\ m.mode = "mixed"
    OBVIOUS
  <2>1. Fits(c("mixed"), ds, x, y)
    BY UniformFits
  <2>2. PICK l, xs, ys : c("mixed") = [mode |-> "mixed", l |-> l, x |-> xs, y |-> ys]
    BY DEF Uniform, Filling
  <2>3. Fits(m, ds, x, y)
    BY <2>1, <2>2, ShapedFits
  <2>4. m.mode = "mixed"
    BY <2>2 DEF Shaped
  <2> QED
    BY <2>3, <2>4
<1> DEFINE Good(e) == Fits(e, ds, x, y) /\ e.mode \in Modes
<1>5. Good(c("x_only")) /\ Good(c("y_only")) /\ Good(OneSidedY(ds, y))
      /\ (Feasible(c("mixed")) => Good(m))
  BY <1>2, <1>3, <1>4 DEF Modes
<1> DEFINE cx == c("x_only")
           cy == c("y_only")
           one == OneSidedY(ds, y)
           ok == Feasible(c("mixed"))
           cs == Candidates(ds, a, x, y, shape)
<1> HIDE DEF Good, m, skewed, cx, cy, one, ok, cs
<1>6. cs = (IF ok THEN <<m>> ELSE <<>>) \o <<cx, cy>> \o (IF skewed THEN <<one>> ELSE <<>>)
  BY <1>1 DEF cs, cx, cy, one, ok
<1>7. Good(cx) /\ Good(cy) /\ Good(one) /\ (ok => Good(m))
  BY <1>5 DEF cx, cy, one, ok
<1> DEFINE X == {e \in {m, cx, cy, one} : Good(e)}
<1>8. /\ (IF ok THEN <<m>> ELSE <<>>) \in Seq(X)
      /\ <<cx, cy>> \in Seq(X) /\ Len(<<cx, cy>>) = 2
      /\ (IF skewed THEN <<one>> ELSE <<>>) \in Seq(X)
      /\ Len(IF ok THEN <<m>> ELSE <<>>) \in 0..1
      /\ Len(IF skewed THEN <<one>> ELSE <<>>) \in 0..1
  <2>1. ok => m \in X
    BY <1>7
  <2>2. cx \in X /\ cy \in X /\ one \in X
    BY <1>7
  <2> HIDE DEF X
  <2>3. (ok => <<m>> \in Seq(X)) /\ <<>> \in Seq(X) /\ <<one>> \in Seq(X)
    BY <2>1, <2>2
  <2>4. <<cx, cy>> \in Seq(X) /\ Len(<<cx, cy>>) = 2
    BY <2>2
  <2>5. Len(<<m>>) = 1 /\ Len(<<one>>) = 1 /\ Len(<<>>) = 0
    OBVIOUS
  <2> QED
    BY <2>3, <2>4, <2>5
<1> HIDE DEF X
<1>9. Len(cs) \in 2..4 /\ cs \in Seq(X)
  BY <1>6, <1>8
<1>10. \A i \in 1..Len(cs) : Good(cs[i])
  BY <1>9 DEF X
<1> QED
  BY <1>9, <1>10 DEF Good, cs

-----------------------------------------------------------------------------
(* The best candidate is one of them.                                       *)
LEMMA GreatestExists ==
    ASSUME NEW T, IsFiniteSet(T), T # {}, NEW f, \A x \in T : f[x] \in Int
    PROVE  \E x \in T : \A y \in T : f[y] <= f[x]
<1> DEFINE bad == {U \in SUBSET T : U # {} /\ ~ \E x \in U : \A y \in U : f[y] <= f[x]}
<1> SUFFICES ASSUME bad # {} PROVE FALSE
  OBVIOUS
<1>1. \A U \in bad : IsFiniteSet(U)
  BY FS_Subset
<1>2. PICK U \in bad : \A x \in U : U \ {x} \notin bad
  BY <1>1, LeastSet
<1>3. PICK x \in U : TRUE
  BY <1>2
<1>4. U \ {x} \in SUBSET T /\ \A y \in U : f[y] \in Int
  BY <1>2
<1>5. CASE U \ {x} = {}
  <2>1. \A y \in U : y = x
    BY <1>5
  <2>2. \A y \in U : f[y] <= f[x]
    BY <1>4, <2>1
  <2> QED
    BY <1>2, <1>3, <2>2
<1>6. CASE U \ {x} # {}
  <2>1. PICK z \in U \ {x} : \A y \in U \ {x} : f[y] <= f[z]
    BY <1>2, <1>3, <1>4, <1>6
  <2>2. CASE f[x] <= f[z]
    <3>1. \A y \in U : f[y] <= f[z]
      BY <2>1, <2>2
    <3> QED
      BY <1>2, <2>1, <3>1
  <2>3. CASE ~(f[x] <= f[z])
    <3>1. \A y \in U : f[y] <= f[x]
      BY <1>3, <1>4, <2>1, <2>3
    <3> QED
      BY <1>2, <1>3, <3>1
  <2> QED
    BY <2>2, <2>3
<1> QED
  BY <1>5, <1>6

LEMMA BestIsOne ==
    ASSUME NEW cs, NEW prefer, NEW a, Len(cs) \in Nat \ {0},
           \A i \in 1..Len(cs) : cs[i].l \in Nat /\ ValueOf(cs[i], a) \in Int
    PROVE  \E i \in 1..Len(cs) : Best(cs, prefer, a) = cs[i]
<1> DEFINE wanted == {i \in 1..Len(cs) : cs[i].mode = prefer}
           among == IF wanted = {} THEN 1..Len(cs) ELSE wanted
           l == [i \in 1..Len(cs) |-> cs[i].l]
           v == [i \in 1..Len(cs) |-> ValueOf(cs[i], a)]
           best == {i \in among : \A j \in among : ~Better(cs[j], cs[i], a)}
<1>1. among \in SUBSET (1..Len(cs)) /\ among # {}
  BY SMT
<1> HIDE DEF among
<1>2. IsFiniteSet(among)
  <2>1. IsFiniteSet(1..Len(cs))
    BY FS_Interval
  <2> QED
    BY <1>1, <2>1, FS_Subset
<1>3. \A i \in among : l[i] \in Int /\ v[i] \in Int
  BY <1>1
<1>4. PICK m \in among : \A j \in among : l[j] <= l[m]
  BY <1>1, <1>2, <1>3, GreatestExists
<1> DEFINE top == {i \in among : l[i] = l[m]}
<1>5. IsFiniteSet(top) /\ top # {} /\ top \in SUBSET among
  BY <1>2, <1>4, FS_Subset
<1>6. PICK t \in top : \A j \in top : v[j] <= v[t]
  BY <1>3, <1>5, GreatestExists
<1>7. ASSUME NEW j \in among PROVE ~Better(cs[j], cs[t], a)
  <2>1. /\ l[j] = cs[j].l /\ l[t] = cs[t].l /\ l[t] = l[m]
        /\ v[j] = ValueOf(cs[j], a) /\ v[t] = ValueOf(cs[t], a)
    BY <1>1, <1>5, <1>6
  <2>2. l[j] \in Int /\ l[t] \in Int /\ v[j] \in Int /\ v[t] \in Int /\ l[j] <= l[t]
        /\ (l[j] = l[t] => v[j] <= v[t])
    BY <1>3, <1>4, <1>6, <2>1
  <2> HIDE DEF l, v
  <2> QED
    BY <2>1, <2>2 DEF Better
<1>8. best \in SUBSET Nat /\ best # {}
  <2>1. t \in among /\ best \in SUBSET among
    BY <1>5, <1>6
  <2>2. t \in best
    BY <1>7, <2>1
  <2> QED
    <3> HIDE DEF best
    <3>1. \A i \in among : i \in Nat
      BY <1>1
    <3> QED
      BY <2>1, <2>2, <3>1
<1>9. Min(best) \in best
  BY <1>8, MinOfNats
<1>10. Best(cs, prefer, a) = cs[Min(best)]
  BY DEF Best, among
<1> QED
  BY <1>1, <1>9, <1>10

LEMMA BestFits ==
    ASSUME NEW ds, IsRange(ds), NEW a \in Int, PricesAt(ds, a), NEW x \in Nat, NEW y \in Nat,
           NEW shape \in Shapes, NEW prefer
    PROVE  LET best == Best(Candidates(ds, a, x, y, shape), prefer, a)
           IN  Fits(best, ds, x, y) /\ best.mode \in Modes
<1> DEFINE cs == Candidates(ds, a, x, y, shape)
<1>1. /\ Len(cs) \in 2..4
      /\ \A i \in 1..Len(cs) : Fits(cs[i], ds, x, y) /\ cs[i].mode \in Modes
  BY CandidatesFit
<1> HIDE DEF cs
<1>2. Price(a) \in Nat
  <2>1. 0 \in ds /\ a + 0 = a
    BY RangeFacts
  <2> QED
    BY <2>1 DEF PricesAt
<1>3. ASSUME NEW i \in 1..Len(cs) PROVE cs[i].l \in Nat /\ ValueOf(cs[i], a) \in Int
  <2>1. cs[i].l \in Nat /\ Sum1(cs[i].x) \in Nat /\ Sum1(cs[i].y) \in Nat
    BY <1>1, SumOverRange DEF Fits
  <2>2. Price(a) * Sum1(cs[i].x) \in Nat
    BY <1>2, <2>1, ProductNat
  <2> QED
    BY <2>1, <2>2 DEF ValueOf
<1>4. PICK i \in 1..Len(cs) : Best(cs, prefer, a) = cs[i]
  <2>1. Len(cs) \in Nat \ {0}
    BY ONLY <1>1
  <2> QED
    BY <1>3, <2>1, BestIsOne
<1> QED
  BY <1>1, <1>4 DEF cs

-----------------------------------------------------------------------------
(* The shares of an allocation: of a natural number each, none where there  *)
(* is no allocation, and in sum what is used of the total.                  *)
LEMMA MaxIsBin ==
    ASSUME NEW ds, IsRange(ds), NEW T \in SUBSET ds, T # {}
    PROVE  Max(T) \in T
<1> DEFINE f == [d \in T |-> d]
<1>1. IsFiniteSet(T) /\ \A d \in T : d \in Int /\ f[d] \in Int
  BY RangeFacts, FS_Subset
<1>2. PICK x \in T : \A y \in T : f[y] <= f[x]
  BY <1>1, GreatestExists
<1>3. \A y \in T : x >= y
  BY <1>1, <1>2
<1> QED
  BY <1>3 DEF Max

LEMMA SharesOfAllocation ==
    ASSUME NEW ds, IsRange(ds), NEW alloc \in Amounts(ds), NEW total \in Nat,
           total = 0 => \A d \in ds : alloc[d] = 0
    PROVE  /\ Shares(alloc, total) \in Amounts(ds)
           /\ \A d \in ds : alloc[d] = 0 => Shares(alloc, total)[d] = 0
           /\ total = 0 => Sum1(alloc) = 0 /\ S(Shares(alloc, total), ds) = 0
           /\ total > 0 => S(Shares(alloc, total), ds) = (Sum1(alloc) * One) \div total
<1> DEFINE raw == [d \in ds |-> (alloc[d] * One) \div total]
           used == {d \in ds : alloc[d] > 0}
           whole == (Sum1(alloc) * One) \div total
           rest == whole - Sum1(raw)
           shares == Shares(alloc, total)
<1>1. DOMAIN alloc = ds /\ \A d \in ds : alloc[d] \in Nat
  BY DEF Amounts
<1>2. shares = IF total <= 0 THEN Zeros(ds)
               ELSE IF used = {} THEN raw ELSE [raw EXCEPT ![Max(used)] = @ + rest]
  BY <1>1 DEF Shares
<1>3. Sum1(alloc) = S(alloc, ds) /\ Sum1(alloc) \in Nat /\ Ints(alloc, ds) /\ IsFiniteSet(ds)
  BY SumOverRange, RangeFacts
<1>4. One \in Nat \ {0}
  BY DistributionAssumption
<1>5. CASE total = 0
  <2>1. shares = Zeros(ds)
    BY <1>2, <1>5
  <2>2. S(alloc, ds) = 0 /\ S(Zeros(ds), ds) = 0
    BY <1>3, <1>5, SumZero DEF Zeros
  <2> QED
    BY <1>3, <1>5, <2>1, <2>2 DEF Zeros, Amounts
<1>6. CASE total # 0
  <2>1. total \in Nat \ {0}
    BY <1>6
  <2>2. ASSUME NEW d \in ds
        PROVE  /\ raw[d] \in Nat /\ (alloc[d] = 0 => raw[d] = 0)
               /\ raw[d] * total <= alloc[d] * One
    <3> DEFINE e == alloc[d] * One
    <3>1. e \in Nat /\ (alloc[d] = 0 => e = 0) /\ raw[d] = e \div total
      BY <1>1, <1>4, ProductNat
    <3> HIDE DEF e, raw
    <3>2. raw[d] \in Nat /\ raw[d] * total <= e /\ (e = 0 => raw[d] = 0)
      BY <2>1, <3>1, QuotientNat, QuotientError
    <3> QED
      BY <3>1, <3>2 DEF e
  <2>3. raw \in Amounts(ds)
    BY <2>2 DEF Amounts
  <2>4. Sum1(raw) = S(raw, ds) /\ Sum1(raw) \in Nat /\ Ints(raw, ds)
    BY <2>3, SumOverRange
  <2>5. Sum1(alloc) * One \in Nat
    BY <1>3, <1>4, ProductNat
  <2>6. whole \in Nat
    <3> DEFINE w == Sum1(alloc) * One
    <3> HIDE DEF w
    <3>1. w \div total \in Nat
      BY <2>1, <2>5, QuotientNat DEF w
    <3> QED
      BY <3>1 DEF w
  <2>7. rest \in Nat
    <3>1. S(raw, ds) * total <= S(alloc, ds) * One
      <4> HIDE DEF raw
      <4>1. total \in Int /\ One \in Int /\ \A d \in ds : raw[d] * total <= alloc[d] * One
        BY <1>4, <2>2
      <4> QED
        BY <1>3, <2>4, <4>1, SumRatio
    <3>2. Sum1(raw) <= whole
      <4> DEFINE w == Sum1(alloc) * One
                 q == Sum1(raw)
      <4>1. w \in Int /\ q \in Int /\ q * total <= w
        BY <1>3, <2>4, <2>5, <3>1
      <4> HIDE DEF w, q
      <4>2. q <= w \div total
        BY <2>1, <4>1, QuotientIs
      <4> QED
        BY <4>2 DEF w, q
    <3> HIDE DEF whole
    <3> QED
      BY <2>4, <2>6, <3>2
  <2>8. CASE used = {}
    <3>1. shares = raw
      BY <1>2, <2>1, <2>8
    <3>2. \A d \in ds : alloc[d] = 0
      BY <1>1, <2>8
    <3>3. S(alloc, ds) = 0 /\ S(raw, ds) = 0
      BY <1>3, <2>2, <3>2, SumZero
    <3>4. whole = 0
      BY <1>3, <1>4, <2>1, <3>3
    <3> HIDE DEF raw, whole, shares
    <3> QED
      BY <1>3, <1>6, <2>2, <2>3, <3>1, <3>3, <3>4 DEF shares, whole
  <2>9. CASE used # {}
    <3> DEFINE m == Max(used)
               v == raw[m] + rest
    <3>1. m \in ds /\ alloc[m] > 0
      BY <2>9, MaxIsBin
    <3> HIDE DEF m, rest
    <3>2. shares = [raw EXCEPT ![m] = v]
      BY <1>2, <2>1, <2>9 DEF m
    <3>3. v \in Nat /\ raw[m] \in Nat
      BY <2>2, <2>7, <3>1
    <3> HIDE DEF raw, v
    <3>4. S([raw EXCEPT ![m] = v], ds) = S(raw, ds) - raw[m] + v
      <4>1. raw = [d \in ds |-> raw[d]]
        BY <2>3 DEF Amounts
      <4> QED
        BY <2>4, <3>1, <3>3, <4>1, SumExcept
    <3>5. S(shares, ds) = whole
      <4> HIDE DEF whole, shares
      <4>1. v = raw[m] + rest /\ rest = whole - S(raw, ds) /\ S(raw, ds) \in Nat
        BY <2>4 DEF v, rest
      <4> QED
        BY <2>6, <3>2, <3>3, <3>4, <4>1
    <3> HIDE DEF shares
    <3>6. shares \in Amounts(ds) /\ \A d \in ds : alloc[d] = 0 => shares[d] = 0
      <4>1. shares = [d \in ds |-> IF d = m THEN v ELSE raw[d]]
        BY <2>3, <3>1, <3>2 DEF Amounts
      <4>2. \A d \in ds : raw[d] \in Nat /\ (alloc[d] = 0 => raw[d] = 0)
        BY <2>2 DEF raw
      <4> QED
        BY <3>1, <3>3, <4>1, <4>2 DEF Amounts
    <3> QED
      BY <1>6, <3>5, <3>6 DEF shares
  <2> QED
    BY <2>8, <2>9
<1> QED
  BY <1>5, <1>6

-----------------------------------------------------------------------------
(* Where bins are filled up with the least share, the sum grows by no more  *)
(* than their number, and what is handed out stays what was used.           *)
LEMMA HandsOutTheUsed ==
    ASSUME NEW used \in Nat, NEW n \in Nat, NEW total \in Nat, total <= One, NEW shared \in Nat,
           total > 0 => /\ (used * One) \div total <= shared
                        /\ shared <= (used * One) \div total + n,
           total = 0 => used = 0
    PROVE  (shared * total) \div One \in used - 1 .. used + n
<1>1. One \in Nat \ {0}
  BY DistributionAssumption
<1>2. CASE total = 0
  <2>1. shared * total = 0 /\ 0 \div One = 0
    BY <1>1, <1>2
  <2> QED
    BY <1>2, <2>1
<1>3. CASE total > 0
  <2> DEFINE all == used * One
             q == all \div total
             h == (shared * total) \div One
  <2>1. all \in Nat /\ total \in Nat \ {0}
    BY <1>1, <1>3, ProductNat
  <2> HIDE DEF all
  <2>2. q \in Nat /\ q * total <= all /\ all < q * total + total
    BY <2>1, QuotientNat, QuotientError
  <2>3. q <= shared /\ shared <= q + n
    BY <1>3 DEF all
  <2> HIDE DEF q
  <2>4. shared * total \in Nat /\ q * total \in Nat /\ n * total \in Nat
    BY <2>2, ProductNat
  <2>5. q * total <= shared * total /\ shared * total <= q * total + n * total
    <3>1. q * total <= shared * total
      BY <2>1, <2>2, <2>3
    <3>2. shared * total <= (q + n) * total
      BY <2>1, <2>2, <2>3
    <3>3. (q + n) * total = q * total + n * total
      BY <2>1, <2>2
    <3> QED
      BY <3>1, <3>2, <3>3
  <2>6. n * total <= n * One
    BY <1>1, <2>1
  <2>7. (used - 1) * One = all - One /\ (used + n) * One = all + n * One /\ n * One \in Nat
    BY <1>1 DEF all
  <2>8. (used - 1) * One <= shared * total
    BY <1>1, <2>1, <2>2, <2>4, <2>5, <2>7
  <2>9. shared * total < (used + n) * One + One
    BY <1>1, <2>1, <2>2, <2>4, <2>5, <2>6, <2>7
  <2>10. h \in Int /\ used - 1 <= h /\ h <= used + n
    <3> DEFINE p == shared * total
    <3>1. p \in Int /\ (used - 1) * One <= p /\ p < (used + n) * One + One
      BY <2>4, <2>8, <2>9
    <3> HIDE DEF p
    <3>2. p \div One \in Int /\ used - 1 <= p \div One /\ p \div One <= used + n
      BY <1>1, <3>1, QuotientError, QuotientIs
    <3> QED
      BY <3>2 DEF p
  <2> QED
    BY <2>10
<1> QED
  BY <1>2, <1>3

(* A plan as the router and the check of the fill need it.                  *)
GoodPlan(d, ds, x, y) ==
  /\ d.mode \in Modes /\ d.xUsed \in Nat /\ d.yUsed \in Nat
  /\ d.x \in Amounts(ds) /\ d.y \in Amounts(ds)
  /\ \A b \in ds : d.x[b] + d.y[b] > 0
  /\ \A b \in ds : (d.x[b] > 0 => b >= 0) /\ (d.y[b] > 0 => b <= 0)
  /\ HandedOut(d.x, x) \in d.xUsed - 1 .. d.xUsed + Cardinality(ds)
  /\ HandedOut(d.y, y) \in d.yUsed - 1 .. d.yUsed + Cardinality(ds)

LEMMA FilledSide ==
    ASSUME NEW ds, IsRange(ds), NEW alloc \in Amounts(ds), NEW total \in Nat, total <= One,
           total = 0 => \A d \in ds : alloc[d] = 0,
           NEW f \in Amounts(ds),
           \A d \in ds : /\ Shares(alloc, total)[d] <= f[d]
                         /\ f[d] <= Shares(alloc, total)[d] + 1
    PROVE  HandedOut(f, total) \in Sum1(alloc) - 1 .. Sum1(alloc) + Cardinality(ds)
<1> DEFINE g == Shares(alloc, total)
<1>1. g \in Amounts(ds) /\ Cardinality(ds) \in Nat
  BY SharesOfAllocation, RangeFacts
<1>2. /\ Ints(g, ds) /\ S(g, ds) \in Nat /\ Ints(f, ds) /\ S(f, ds) \in Nat
      /\ Sum1(f) = S(f, ds) /\ Sum1(alloc) \in Nat
  <2>1. Ints(g, ds) /\ Sum1(g) = S(g, ds) /\ Sum1(g) \in Nat
    BY <1>1, SumOverRange
  <2>2. Ints(f, ds) /\ Sum1(f) = S(f, ds) /\ Sum1(f) \in Nat /\ Sum1(alloc) \in Nat
    BY SumOverRange
  <2> QED
    BY <2>1, <2>2
<1>3. S(g, ds) <= S(f, ds) /\ S(f, ds) <= S(g, ds) + Cardinality(ds)
  BY <1>2, SumRaised
<1>4. /\ total = 0 => Sum1(alloc) = 0
      /\ total > 0 => S(g, ds) = (Sum1(alloc) * One) \div total
  BY SharesOfAllocation
<1> HIDE DEF g
<1>5. total > 0 => /\ (Sum1(alloc) * One) \div total <= S(f, ds)
                   /\ S(f, ds) <= (Sum1(alloc) * One) \div total + Cardinality(ds)
  BY <1>3, <1>4
<1>6. (S(f, ds) * total) \div One \in Sum1(alloc) - 1 .. Sum1(alloc) + Cardinality(ds)
  BY <1>1, <1>2, <1>4, <1>5, HandsOutTheUsed
<1> QED
  BY <1>2, <1>6 DEF HandedOut

LEMMA PlansAreGood ==
    ASSUME NEW ds, IsRange(ds), NEW a \in Int, PricesAt(ds, a), NEW shape \in Shapes, NEW prefer,
           NEW x \in Nat, x <= One, NEW y \in Nat, y <= One,
           ~(ds = -1..1 /\ shape = "uniform")
    PROVE  GoodPlan(DistributionOf(ds, a, x, y, shape, prefer), ds, x, y)
<1> DEFINE best == Best(Candidates(ds, a, x, y, shape), prefer, a)
           sx == Shares(best.x, x)
           sy == Shares(best.y, y)
           plan == SharedOut(best, x, y)
           empty == {d \in ds : sx[d] = 0 /\ sy[d] = 0}
           fx == [d \in ds |-> IF d \in empty /\ d > 0 THEN 1 ELSE sx[d]]
           fy == [d \in ds |-> IF d \in empty /\ d <= 0 THEN 1 ELSE sy[d]]
           dist == DistributionOf(ds, a, x, y, shape, prefer)
<1>1. Fits(best, ds, x, y) /\ best.mode \in Modes
  BY BestFits
<1>2. dist = Filled(plan)
  BY DEF DistributionOf
<1>3. plan = [mode |-> best.mode, xUsed |-> Sum1(best.x), yUsed |-> Sum1(best.y), x |-> sx, y |-> sy]
  BY DEF SharedOut
<1> HIDE DEF best
<1>4. /\ best.x \in Amounts(ds) /\ best.y \in Amounts(ds)
      /\ x = 0 => \A d \in ds : best.x[d] = 0
      /\ y = 0 => \A d \in ds : best.y[d] = 0
      /\ \A d \in ds : (d < 0 => best.x[d] = 0) /\ (d > 0 => best.y[d] = 0)
  BY <1>1 DEF Fits
<1>5. /\ sx \in Amounts(ds) /\ sy \in Amounts(ds)
      /\ \A d \in ds : (d < 0 => sx[d] = 0) /\ (d > 0 => sy[d] = 0)
      /\ Sum1(best.x) \in Nat /\ Sum1(best.y) \in Nat
  <2>1. sx \in Amounts(ds) /\ \A d \in ds : best.x[d] = 0 => sx[d] = 0
    BY <1>4, SharesOfAllocation
  <2>2. sy \in Amounts(ds) /\ \A d \in ds : best.y[d] = 0 => sy[d] = 0
    BY <1>4, SharesOfAllocation
  <2>3. Sum1(best.x) \in Nat /\ Sum1(best.y) \in Nat
    BY <1>4, SumOverRange
  <2> QED
    BY <1>4, <2>1, <2>2, <2>3
<1> HIDE DEF sx, sy, plan, dist
<1>6. /\ dist.mode = best.mode /\ dist.xUsed = Sum1(best.x) /\ dist.yUsed = Sum1(best.y)
      /\ dist.x = fx /\ dist.y = fy
  <2>1. DOMAIN sx = ds /\ DOMAIN sy = ds
    BY <1>5 DEF Amounts
  <2> QED
    BY <1>2, <1>3, <2>1 DEF Filled
<1>7. \A d \in ds : sx[d] \in Nat /\ sy[d] \in Nat /\ d \in Int
  BY <1>5, RangeFacts DEF Amounts
<1>8. ASSUME NEW d \in ds
      PROVE  /\ fx[d] \in Nat /\ sx[d] <= fx[d] /\ fx[d] <= sx[d] + 1
             /\ fy[d] \in Nat /\ sy[d] <= fy[d] /\ fy[d] <= sy[d] + 1
             /\ fx[d] + fy[d] > 0 /\ (fx[d] > 0 => d >= 0) /\ (fy[d] > 0 => d <= 0)
  <2>1. /\ fx[d] = (IF d \in empty /\ d > 0 THEN 1 ELSE sx[d])
        /\ fy[d] = (IF d \in empty /\ d <= 0 THEN 1 ELSE sy[d])
        /\ d \in empty <=> sx[d] = 0 /\ sy[d] = 0
    OBVIOUS
  <2> HIDE DEF fx, fy, empty
  <2>2. sx[d] \in Nat /\ sy[d] \in Nat /\ d \in Int /\ (d < 0 => sx[d] = 0) /\ (d > 0 => sy[d] = 0)
    BY <1>5, <1>7
  <2> QED
    BY <2>1, <2>2
<1>9. fx \in Amounts(ds) /\ fy \in Amounts(ds)
  BY <1>8 DEF Amounts
<1> HIDE DEF fx, fy
<1>10. /\ HandedOut(fx, x) \in Sum1(best.x) - 1 .. Sum1(best.x) + Cardinality(ds)
       /\ HandedOut(fy, y) \in Sum1(best.y) - 1 .. Sum1(best.y) + Cardinality(ds)
  BY <1>4, <1>8, <1>9, FilledSide DEF sx, sy
<1> QED
  BY <1>1, <1>5, <1>6, <1>8, <1>9, <1>10 DEF GoodPlan, dist

-----------------------------------------------------------------------------
(* The sum of the shares of three bins, which the SDK's plan has fixed.     *)
LEMMA SdkShares ==
    /\ SdkSpot.mode = "sdk_spot" /\ SdkSpot.xUsed \in Nat /\ SdkSpot.yUsed \in Nat
    /\ SdkSpot.x \in Amounts(-1..1) /\ SdkSpot.y \in Amounts(-1..1)
    /\ \A b \in -1..1 : SdkSpot.x[b] + SdkSpot.y[b] > 0
    /\ \A b \in -1..1 : (b > 0 => SdkSpot.y[b] = 0) /\ (b < 0 => SdkSpot.x[b] = 0)
<1> DEFINE h == One \div 2
           t == (2 * One) \div 3
<1>1. One \in Nat /\ One >= 2
  BY DistributionAssumption
<1>2. h \in Nat /\ One - h \in Nat /\ One - h > 0 /\ t \in Nat /\ t > 0 /\ One - t \in Nat /\ One - t > 0
  BY <1>1
<1> DEFINE sx == [d \in -1..1 |-> CASE d < 0 -> 0 [] d = 0 -> h [] d > 0 -> One - h]
           sy == [d \in -1..1 |-> CASE d < 0 -> t [] d = 0 -> One - t [] d > 0 -> 0]
<1>3. SdkSpot = [mode |-> "sdk_spot", xUsed |-> 0, yUsed |-> 0, x |-> sx, y |-> sy]
  BY DEF SdkSpot
<1> HIDE DEF h, t
<1>4. ASSUME NEW b \in -1..1
      PROVE  /\ sx[b] \in Nat /\ sy[b] \in Nat /\ sx[b] + sy[b] > 0
             /\ (b > 0 => sy[b] = 0) /\ (b < 0 => sx[b] = 0)
  <2>1. CASE b < 0
    BY <1>2, <2>1
  <2>2. CASE b = 0
    BY <1>2, <2>2
  <2>3. CASE b > 0
    BY <1>2, <2>3
  <2> QED
    BY <2>1, <2>2, <2>3
<1>5. sx \in Amounts(-1..1) /\ sy \in Amounts(-1..1)
  BY <1>4 DEF Amounts
<1> HIDE DEF sx, sy
<1> QED
  BY <1>3, <1>4, <1>5

-----------------------------------------------------------------------------
(* The inductive invariant: the types; from the plan on, a plan that fits   *)
(* the range and the amounts as they are, zeroed or not; the value of the   *)
(* call; and what was placed.                                               *)
PlanFits(d, bins, shape, x, y) ==
  IF bins = -1..1 /\ shape = "uniform" THEN d = SdkSpot ELSE GoodPlan(d, bins, x, y)

AddTyped ==
  /\ {active, spot, planned.active} \subseteq ActiveBins /\ shifts \in Nat /\ shifts <= MaxShifts
  /\ stage \in Stages /\ ask \in Asks
  /\ amounts \in [x: Nat, y: Nat, native: Nat] /\ amounts.x <= One /\ amounts.y <= One

HasPlan == stage \in {"planned", "sent", "placed"} =>
             PlanFits(planned.dist, Bins1, ask.shape, amounts.x, amounts.y)
ValueIsX == amounts.native = amounts.x

NoneBefore == stage # "placed" => held = {} /\ residue = {}

AddInv == AddTyped /\ HasPlan /\ ValueIsX /\ NoneBefore

LEMMA AsksAre ==
    ASSUME NEW q \in Asks
    PROVE  /\ q.x \in Nat /\ q.x <= One /\ q.y \in Nat /\ q.y <= One /\ q.shape \in Shapes
           /\ IsRange(Range1(q.count, q.upside))
           /\ \A b \in ActiveBins : b \in Int /\ PricesAt(Range1(q.count, q.upside), b)
<1>1. /\ q.x \in Nat /\ q.x <= One /\ q.y \in Nat /\ q.y <= One /\ q.shape \in Shapes
      /\ q.count \in Nat \ {0} /\ q.upside \in Int
  BY AddAssumption
<1>2. \A b \in ActiveBins : b \in Int /\ PricesAt(Range1(q.count, q.upside), b)
  BY AddAssumption DEF PricesAt
<1> QED
  BY <1>1, <1>2, RangesOfEntries

LEMMA SpreadFits ==
    ASSUME AddTyped, NEW prefer
    PROVE  PlanFits(Spread(prefer), Bins1, ask.shape, amounts.x, amounts.y)
<1>1. /\ IsRange(Bins1) /\ active \in Int /\ PricesAt(Bins1, active) /\ ask.shape \in Shapes
      /\ amounts.x \in Nat /\ amounts.x <= One /\ amounts.y \in Nat /\ amounts.y <= One
  BY AsksAre DEF AddTyped, Bins1
<1>2. CASE Bins1 = -1..1 /\ ask.shape = "uniform"
  BY <1>2 DEF PlanFits, Spread, DistributionOf
<1>3. CASE ~(Bins1 = -1..1 /\ ask.shape = "uniform")
  <2>1. GoodPlan(Spread(prefer), Bins1, amounts.x, amounts.y)
    BY <1>1, <1>3, PlansAreGood DEF Spread
  <2> QED
    BY <1>3, <2>1 DEF PlanFits
<1> QED
  BY <1>2, <1>3

(* Every bin has a share, of X above the active bin and of Y below it.      *)
LEMMA PlanCovers ==
    ASSUME NEW d, NEW bins, NEW shape, NEW x, NEW y, IsRange(bins), PlanFits(d, bins, shape, x, y)
    PROVE  /\ d.x \in Amounts(bins) /\ d.y \in Amounts(bins)
           /\ \A b \in bins : d.x[b] + d.y[b] > 0
           /\ \A b \in bins : (b > 0 => d.y[b] = 0) /\ (b < 0 => d.x[b] = 0)
<1>1. CASE bins = -1..1 /\ shape = "uniform"
  BY <1>1, SdkShares DEF PlanFits
<1>2. CASE ~(bins = -1..1 /\ shape = "uniform")
  <2>1. /\ d.x \in Amounts(bins) /\ d.y \in Amounts(bins)
        /\ \A b \in bins : d.x[b] + d.y[b] > 0
        /\ \A b \in bins : (d.x[b] > 0 => b >= 0) /\ (d.y[b] > 0 => b <= 0)
    BY <1>2 DEF PlanFits, GoodPlan
  <2>2. \A b \in bins : b \in Int /\ d.x[b] \in Nat /\ d.y[b] \in Nat
    BY <2>1, RangeFacts DEF Amounts
  <2> QED
    BY <2>1, <2>2
<1> QED
  BY <1>1, <1>2

(* A token without a share is not used either: it may be set to zero.       *)
LEMMA UnusedIsZero ==
    ASSUME NEW d, NEW bins, NEW x \in Nat, NEW y \in Nat, IsRange(bins), GoodPlan(d, bins, x, y)
    PROVE  /\ Unused(d.x) => GoodPlan(d, bins, 0, y)
           /\ Unused(d.y) => GoodPlan(d, bins, x, 0)
<1>1. One \in Nat \ {0} /\ Cardinality(bins) \in Nat
  BY DistributionAssumption, RangeFacts
<1>2. ASSUME NEW f \in Amounts(bins), NEW n \in Nat, NEW used \in Nat, Unused(f),
             HandedOut(f, n) \in used - 1 .. used + Cardinality(bins)
      PROVE  HandedOut(f, 0) \in used - 1 .. used + Cardinality(bins)
  <2>1. Sum1(f) = 0
    <3>1. \A b \in bins : f[b] = 0
      BY <1>2 DEF Unused, Amounts
    <3> QED
      BY <3>1, SumZero, SumOverRange, RangeFacts
  <2>2. HandedOut(f, n) = 0 /\ HandedOut(f, 0) = 0
    <3>1. 0 * n = 0 /\ 0 * 0 = 0 /\ 0 \div One = 0
      BY <1>1
    <3> QED
      BY <2>1, <3>1 DEF HandedOut
  <2> QED
    BY <1>2, <2>2
<1> QED
  BY <1>2 DEF GoodPlan

LEMMA ZeroedFits ==
    ASSUME AddTyped, ValueIsX, NEW d, PlanFits(d, Bins1, ask.shape, amounts.x, amounts.y)
    PROVE  LET z == Zeroed(d)
           IN  /\ z \in [x: Nat, y: Nat, native: Nat] /\ z.x <= One /\ z.y <= One
               /\ z.native = z.x
               /\ PlanFits(d, Bins1, ask.shape, z.x, z.y)
<1> DEFINE z == Zeroed(d)
<1>1. /\ IsRange(Bins1) /\ amounts \in [x: Nat, y: Nat, native: Nat] /\ One \in Nat
      /\ amounts.x \in Nat /\ amounts.x <= One /\ amounts.y \in Nat /\ amounts.y <= One
      /\ amounts.native = amounts.x
  BY AsksAre, DistributionAssumption DEF AddTyped, Bins1, ValueIsX
<1>2. \/ z = amounts
      \/ z = [amounts EXCEPT !.y = 0] /\ d.mode # "sdk_spot" /\ Unused(d.y)
      \/ z = [amounts EXCEPT !.x = 0, !.native = 0] /\ d.mode # "sdk_spot" /\ Unused(d.x)
  BY DEF Zeroed
<1>3. CASE z = amounts
  BY <1>1, <1>3
<1>4. CASE z # amounts
  <2>1. d.mode # "sdk_spot"
    BY <1>2, <1>4
  <2>2. ~(Bins1 = -1..1 /\ ask.shape = "uniform") /\ GoodPlan(d, Bins1, amounts.x, amounts.y)
    BY <2>1, SdkShares DEF PlanFits
  <2> HIDE DEF z
  <2>3. CASE z = [amounts EXCEPT !.y = 0] /\ Unused(d.y)
    <3>1. /\ z \in [x: Nat, y: Nat, native: Nat]
          /\ z.x = amounts.x /\ z.y = 0 /\ z.native = amounts.native
      BY <1>1, <2>3
    <3>2. GoodPlan(d, Bins1, z.x, z.y)
      BY <1>1, <2>2, <2>3, <3>1, UnusedIsZero
    <3> QED
      BY <1>1, <2>2, <3>1, <3>2 DEF PlanFits, z
  <2>4. CASE z = [amounts EXCEPT !.x = 0, !.native = 0] /\ Unused(d.x)
    <3>1. /\ z \in [x: Nat, y: Nat, native: Nat]
          /\ z.x = 0 /\ z.y = amounts.y /\ z.native = 0
      BY <1>1, <2>4
    <3>2. GoodPlan(d, Bins1, z.x, z.y)
      BY <1>1, <2>2, <2>4, <3>1, UnusedIsZero
    <3> QED
      BY <1>1, <2>2, <3>1, <3>2 DEF PlanFits, z
  <2> QED
    BY <1>2, <1>4, <2>3, <2>4 DEF z
<1> QED
  BY <1>3, <1>4

-----------------------------------------------------------------------------
LEMMA AddInitially == AddInit => AddInv
<1> SUFFICES ASSUME AddInit PROVE AddInv
  OBVIOUS
<1>1. AddTyped
  <2>1. MaxShifts \in Nat /\ One \in Nat
    BY AddAssumption, DistributionAssumption
  <2> QED
    BY <2>1 DEF AddInit, AddTyped, Stages
<1>2. HasPlan /\ ValueIsX /\ NoneBefore
  BY DEF AddInit, HasPlan, ValueIsX, NoneBefore
<1> QED
  BY <1>1, <1>2 DEF AddInv

LEMMA AddStep == AddInv /\ [AddNext]_addVars => AddInv'
<1> SUFFICES ASSUME AddInv, [AddNext]_addVars PROVE AddInv'
  OBVIOUS
<1> USE DEF Bins1
<1>0. AddTyped /\ HasPlan /\ ValueIsX /\ NoneBefore
  BY DEF AddInv
<1>1. CASE ActiveShifts
  <2>1. /\ active' \in ActiveBins /\ shifts' = shifts + 1 /\ shifts < MaxShifts
        /\ UNCHANGED <<stage, ask, spot, amounts, planned, held, residue>>
        /\ stage \in {"asked", "planned", "sent"}
    BY <1>1 DEF ActiveShifts
  <2>2. AddTyped'
    BY <1>0, <2>1, AddAssumption DEF AddTyped
  <2>3. (HasPlan /\ ValueIsX /\ NoneBefore)'
    BY <1>0, <2>1 DEF HasPlan, ValueIsX, NoneBefore
  <2> QED
    BY <2>2, <2>3 DEF AddInv
<1>2. CASE Ask
  <2> DEFINE x == Smaller(ask.x, MaxValue)
  <2>1. /\ amounts' = [x |-> x, y |-> ask.y, native |-> x] /\ spot' = active
        /\ stage' = "asked" /\ UNCHANGED <<active, shifts, ask, planned, held, residue>>
    BY <1>2 DEF Ask
  <2>2. x \in Nat /\ x <= One /\ ask.y \in Nat /\ ask.y <= One
    <3>1. ask.x \in Nat /\ ask.x <= One /\ MaxValue \in Nat /\ One \in Nat
          /\ ask.y \in Nat /\ ask.y <= One
      BY <1>0, AsksAre, AddAssumption, DistributionAssumption DEF AddTyped
    <3> QED
      BY <3>1 DEF Smaller
  <2> HIDE DEF x
  <2>3. AddTyped'
    BY <1>0, <2>1, <2>2 DEF AddTyped, Stages
  <2>4. (HasPlan /\ ValueIsX /\ NoneBefore)'
    BY <1>0, <1>2, <2>1 DEF Ask, HasPlan, ValueIsX, NoneBefore
  <2> QED
    BY <2>3, <2>4 DEF AddInv
<1>3. CASE PlanAdd
  <2> DEFINE d == Spread("none")
  <2>1. UNCHANGED <<active, shifts, ask, spot, held, residue>>
    BY <1>3 DEF PlanAdd
  <2>2. CASE stage' = "refused" /\ UNCHANGED <<amounts, planned>>
    <3>1. AddTyped'
      BY <1>0, <2>1, <2>2 DEF AddTyped, Stages
    <3>2. (HasPlan /\ ValueIsX /\ NoneBefore)'
      BY <1>0, <1>3, <2>1, <2>2 DEF PlanAdd, HasPlan, ValueIsX, NoneBefore
    <3> QED
      BY <3>1, <3>2 DEF AddInv
  <2>3. CASE /\ planned' = [active |-> active, dist |-> d]
             /\ amounts' = Zeroed(d) /\ stage' = "planned"
    <3>1. PlanFits(d, Bins1, ask.shape, amounts.x, amounts.y)
      BY <1>0, SpreadFits
    <3> HIDE DEF d
    <3>2. /\ amounts' \in [x: Nat, y: Nat, native: Nat] /\ amounts'.x <= One /\ amounts'.y <= One
          /\ amounts'.native = amounts'.x
          /\ PlanFits(d, Bins1, ask.shape, amounts'.x, amounts'.y)
      BY <1>0, <2>3, <3>1, ZeroedFits
    <3>3. AddTyped'
      BY <1>0, <2>1, <2>3, <3>2 DEF AddTyped, Stages
    <3>4. (HasPlan /\ ValueIsX /\ NoneBefore)'
      BY <1>0, <1>3, <2>1, <2>3, <3>2 DEF PlanAdd, HasPlan, ValueIsX, NoneBefore
    <3> QED
      BY <3>3, <3>4 DEF AddInv
  <2> QED
    BY <1>3, <2>2, <2>3 DEF PlanAdd
<1>4. CASE LastLook
  <2> DEFINE d == Spread(PreferAfterShift(planned.dist.mode, planned.active, active))
  <2>1. stage = "planned" /\ UNCHANGED <<active, shifts, ask, spot, amounts, held, residue>>
    BY <1>4 DEF LastLook
  <2>2. CASE stage' \in {"sent", "refused"} /\ UNCHANGED planned
    <3>1. AddTyped'
      BY <1>0, <2>1, <2>2 DEF AddTyped, Stages
    <3>2. (HasPlan /\ ValueIsX /\ NoneBefore)'
      BY <1>0, <2>1, <2>2 DEF HasPlan, ValueIsX, NoneBefore
    <3> QED
      BY <3>1, <3>2 DEF AddInv
  <2>3. CASE planned' = [active |-> active, dist |-> d] /\ stage' = "sent"
    <3>1. PlanFits(d, Bins1, ask.shape, amounts.x, amounts.y)
      BY <1>0, SpreadFits
    <3> HIDE DEF d
    <3>2. AddTyped'
      BY <1>0, <2>1, <2>3 DEF AddTyped, Stages
    <3>3. (HasPlan /\ ValueIsX /\ NoneBefore)'
      BY <1>0, <2>1, <2>3, <3>1 DEF HasPlan, ValueIsX, NoneBefore
    <3> QED
      BY <3>2, <3>3 DEF AddInv
  <2> QED
    BY <1>4, <2>2, <2>3 DEF LastLook
<1>5. CASE PlaceAdd
  <2>1. /\ stage = "sent" /\ stage' = "placed"
        /\ UNCHANGED <<active, shifts, ask, spot, amounts, planned>>
    BY <1>5 DEF PlaceAdd
  <2>2. AddTyped'
    BY <1>0, <2>1 DEF AddTyped, Stages
  <2>3. (HasPlan /\ ValueIsX /\ NoneBefore)'
    BY <1>0, <2>1 DEF HasPlan, ValueIsX, NoneBefore
  <2> QED
    BY <2>2, <2>3 DEF AddInv
<1>6. CASE RefuseAdd
  <2>1. /\ stage = "sent" /\ stage' = "reverted"
        /\ UNCHANGED <<active, shifts, ask, spot, amounts, planned, held, residue>>
    BY <1>6 DEF RefuseAdd
  <2>2. AddTyped'
    BY <1>0, <2>1 DEF AddTyped, Stages
  <2>3. (HasPlan /\ ValueIsX /\ NoneBefore)'
    BY <1>0, <2>1 DEF HasPlan, ValueIsX, NoneBefore
  <2> QED
    BY <2>2, <2>3 DEF AddInv
<1>7. CASE UNCHANGED addVars
  BY <1>0, <1>7 DEF AddInv, AddTyped, HasPlan, ValueIsX, NoneBefore, addVars
<1> QED
  BY <1>1, <1>2, <1>3, <1>4, <1>5, <1>6, <1>7 DEF AddNext

(* The types, and a plan that fits what is asked for, in every state.       *)
THEOREM AddInvariant == AddSpec => []AddInv
BY AddInitially, AddStep, PTL DEF AddSpec

-----------------------------------------------------------------------------
(* However the active bin moves between the plan and the call, an entry     *)
(* with bins on both sides is not refused for an amount that has no share,  *)
(* nor for a value that differs from the amount in MNT.                     *)
THEOREM AddRouterAccepts == AddSpec => []RouterAccepts
<1>1. AddInv => RouterAccepts
  <2> SUFFICES ASSUME AddInv, stage = "sent", TwoSided PROVE Matches
    BY DEF RouterAccepts
  <2>1. IsRange(Bins1)
    BY AsksAre DEF AddInv, AddTyped, Bins1
  <2>2. PlanFits(planned.dist, Bins1, ask.shape, amounts.x, amounts.y)
    BY DEF AddInv, HasPlan
  <2>3. /\ planned.dist.x \in Amounts(Bins1) /\ planned.dist.y \in Amounts(Bins1)
        /\ \A b \in Bins1 : planned.dist.x[b] + planned.dist.y[b] > 0
        /\ \A b \in Bins1 : /\ b > 0 => planned.dist.y[b] = 0
                            /\ b < 0 => planned.dist.x[b] = 0
    BY <2>1, <2>2, PlanCovers
  <2>4. PICK up \in Above(Bins1), down \in Below(Bins1) : TRUE
    BY DEF TwoSided
  <2>5. /\ up \in Bins1 /\ planned.dist.y[up] = 0 /\ planned.dist.x[up] \in Nat
        /\ down \in Bins1 /\ planned.dist.x[down] = 0 /\ planned.dist.y[down] \in Nat
    BY <2>3, <2>4 DEF Above, Below, Amounts
  <2>6. planned.dist.x[up] # 0 /\ planned.dist.y[down] # 0
    BY <2>3, <2>5
  <2>7. ~Unused(planned.dist.x) /\ ~Unused(planned.dist.y)
    BY <2>3, <2>5, <2>6 DEF Unused, Amounts
  <2> QED
    BY <2>7 DEF Matches, AddInv, ValueIsX
<1> QED
  BY <1>1, AddInvariant, PTL

(* What the router gets is what the check of the fill was told, for every   *)
(* amount, price, range and shape.                                          *)
THEOREM AddSharesFollowPlan == AddSpec => []SharesFollowPlan
<1>1. AddInv => SharesFollowPlan
  <2> SUFFICES ASSUME AddInv, stage = "sent", planned.dist.mode # "sdk_spot"
               PROVE  GoodPlan(planned.dist, Bins1, amounts.x, amounts.y)
    BY DEF SharesFollowPlan, GoodPlan
  <2>1. PlanFits(planned.dist, Bins1, ask.shape, amounts.x, amounts.y)
    BY DEF AddInv, HasPlan
  <2> QED
    BY <2>1, SdkShares DEF PlanFits
<1> QED
  BY <1>1, AddInvariant, PTL

-----------------------------------------------------------------------------
(* What an add is to the rest of the bot.                                   *)
LEMMA RangeEnds ==
    ASSUME NEW q \in Asks
    PROVE  LET bins == Range1(q.count, q.upside)
           IN  /\ Min(bins) \in Int /\ Max(bins) \in Int /\ bins = Min(bins)..Max(bins)
               /\ -Min(bins) \in 0..Half /\ Max(bins) \in 0..Half
               /\ \A b \in ActiveBins : b + Min(bins) \in 0..TopBin /\ b + Max(bins) \in 0..TopBin
<1> DEFINE bins == Range1(q.count, q.upside)
<1>1. PICK lo \in Int, hi \in Int : lo <= 0 /\ 0 <= hi /\ bins = lo..hi
  BY AsksAre DEF IsRange
<1> HIDE DEF bins
<1>2. Min(bins) = lo
  <2>1. lo \in bins /\ \A y \in bins : lo =< y
    BY <1>1
  <2>2. \A x \in bins : (\A y \in bins : x =< y) => x = lo
    BY <1>1
  <2> QED
    BY <2>1, <2>2 DEF Min
<1>3. Max(bins) = hi
  <2>1. hi \in bins /\ \A y \in bins : hi >= y
    BY <1>1
  <2>2. \A x \in bins : (\A y \in bins : x >= y) => x = hi
    BY <1>1
  <2> QED
    BY <2>1, <2>2 DEF Max
<1>4. \A d \in bins : /\ -Half <= d /\ d <= Half
                      /\ \A b \in ActiveBins : 0 <= b + d /\ b + d <= TopBin
  BY FitAssumption DEF bins
<1>5. lo \in bins /\ hi \in bins
  BY <1>1
<1>6. Half \in Nat /\ TopBin \in Nat /\ \A b \in ActiveBins : b \in Int
  BY FitAssumption
<1>7. -lo \in 0..Half /\ hi \in 0..Half
  BY <1>1, <1>4, <1>5, <1>6
<1>8. \A b \in ActiveBins : b + lo \in 0..TopBin /\ b + hi \in 0..TopBin
  BY <1>1, <1>4, <1>5, <1>6
<1> QED
  BY <1>1, <1>2, <1>3, <1>7, <1>8 DEF bins

(* What a bin gets is worth a number.                                       *)
LEMMA WorthIsNumber ==
    ASSUME AddTyped, HasPlan, stage = "sent", NEW d \in Bins1, active \in Int
    PROVE  Worth(d) \in Int
<1>1. IsRange(Bins1)
  BY AsksAre DEF AddTyped, Bins1
<1>2. PlanFits(planned.dist, Bins1, ask.shape, amounts.x, amounts.y)
  BY DEF HasPlan
<1>3. planned.dist.x \in Amounts(Bins1) /\ planned.dist.y \in Amounts(Bins1)
  BY <1>1, <1>2, PlanCovers
<1>4. planned.dist.x[d] \in Nat /\ planned.dist.y[d] \in Nat
  BY <1>3 DEF Amounts
<1>5. amounts.x \in Nat /\ amounts.y \in Nat
  BY DEF AddTyped
<1>6. Price(active + d) \in Nat
  BY AddAssumption DEF AddTyped, Bins1
<1>7. One \in Nat \ {0}
  BY DistributionAssumption
<1> DEFINE x == planned.dist.x[d]
           y == planned.dist.y[d]
           p == Price(active + d)
<1>8. x \in Nat /\ y \in Nat /\ p \in Nat
  BY <1>4, <1>6
<1> HIDE DEF x, y, p
<1>9. x * amounts.x \in Nat /\ y * amounts.y \in Nat
  BY <1>5, <1>8
<1>10. (x * amounts.x) \div One \in Int /\ (y * amounts.y) \div One \in Int
  BY <1>7, <1>9
<1>11. p * ((x * amounts.x) \div One) + (y * amounts.y) \div One \in Int
  BY <1>8, <1>10
<1> QED
  BY <1>11 DEF Worth, Part, x, y, p

LEMMA LifeInitially == AddInit => Life!Init
<1> SUFFICES ASSUME AddInit PROVE Life!Init
  OBVIOUS
<1>1. active \in 0..TopBin
  BY FitAssumption DEF AddInit
<1> QED
  BY <1>1 DEF AddInit, Life!Init, Life!Bins, Life!NoAdd

LEMMA LifeStep == AddInv /\ [AddNext]_addVars => [Life!Next]_(Life!vars)
<1> SUFFICES ASSUME AddInv, [AddNext]_addVars PROVE Life!Next \/ UNCHANGED Life!vars
  OBVIOUS
<1>0. AddTyped /\ HasPlan /\ NoneBefore
  BY DEF AddInv
<1> USE DEF OnTheWay, Bins1
<1>1. CASE ActiveShifts
  <2>1. /\ active' \in {active - 1, active + 1} \cap ActiveBins
        /\ stage \in {"asked", "planned", "sent"}
        /\ UNCHANGED <<stage, ask, spot, amounts, planned, held, residue>>
    BY <1>1 DEF ActiveShifts
  <2>2. active' \in {active - 1, active + 1} \cap Life!Bins
    BY <2>1, FitAssumption DEF Life!Bins
  <2>3. Life!Move
    BY <2>1, <2>2 DEF Life!Move, Life!chain, Life!bot, Life!removal
  <2> QED
    BY <2>3 DEF Life!Next
<1>2. CASE Ask
  BY <1>2 DEF Ask, Life!vars
<1>3. CASE PlanAdd
  BY <1>3 DEF PlanAdd, Life!vars
<1>4. CASE LastLook
  <2>1. stage = "planned" /\ UNCHANGED <<active, shifts, ask, spot, amounts, held, residue>>
    BY <1>4 DEF LastLook
  <2>2. CASE stage' = "refused" /\ UNCHANGED planned
    BY <2>1, <2>2 DEF Life!vars
  <2>3. CASE stage' = "sent" /\ planned'.active = active
    <3> DEFINE m == Min(Bins1)
               n == Max(Bins1)
    <3>0. ask \in Asks /\ active \in ActiveBins /\ active \in Int
      BY <1>0, AsksAre DEF AddTyped
    <3>1. /\ -m \in 0..Half /\ n \in 0..Half /\ m \in Int /\ n \in Int
          /\ active + m \in 0..TopBin /\ active + n \in 0..TopBin /\ active \in Int
      BY <3>0, RangeEnds
    <3>2. /\ active - (-m) = active + m /\ active - (-m) \in 0..TopBin
      BY <3>1
    <3>3. OnTheWay' = [type |-> Kind, at |-> active, lo |-> active - (-m), hi |-> active + n]
      BY <2>1, <2>3, <3>2
    <3> HIDE DEF m, n, OnTheWay
    <3>4. Life!SendAdd(Kind, -m, n)
      BY <2>1, <2>3, <3>1, <3>2, <3>3, FitAssumption DEF Life!SendAdd, Life!chain, Life!removal, Life!Bins
    <3> QED
      BY <3>1, <3>4 DEF Life!Next
  <2> QED
    BY <1>4, <2>1, <2>2, <2>3 DEF LastLook
<1>5. CASE PlaceAdd
  <2> DEFINE m == Min(Bins1)
             n == Max(Bins1)
             s == active - planned.active
             target == ((planned.active + m) + s)..((planned.active + n) + s)
  <2>1. /\ stage = "sent" /\ stage' = "placed"
        /\ s \in -IdSlippage..IdSlippage /\ held = {} /\ residue = {}
        /\ UNCHANGED <<active, shifts, ask, spot, amounts, planned>>
    BY <1>0, <1>5 DEF PlaceAdd, NoneBefore
  <2>2. /\ m \in Int /\ n \in Int /\ Bins1 = m..n /\ m <= n
        /\ active + m \in 0..TopBin /\ active + n \in 0..TopBin
        /\ active \in Int /\ planned.active \in Int
    <3>1. /\ m \in Int /\ n \in Int /\ Bins1 = m..n /\ -m \in 0..Half /\ n \in 0..Half
          /\ active + m \in 0..TopBin /\ active + n \in 0..TopBin
      BY <1>0, RangeEnds DEF AddTyped
    <3>0. active \in ActiveBins /\ planned.active \in ActiveBins /\ Half \in Nat
      BY <1>0, FitAssumption DEF AddTyped
    <3>2. active \in Int /\ planned.active \in Int
      BY <3>0, AddAssumption
    <3> QED
      BY <3>0, <3>1, <3>2
  <2> HIDE DEF m, n
  <2>3. /\ (planned.active + m) + s = active + m /\ (planned.active + n) + s = active + n
    BY <2>2
  <2>4. /\ held' \subseteq target /\ residue' \subseteq target
        /\ held' \cap residue' = {} /\ held' \cup residue' # {}
    <3> DEFINE good == {e \in Bins1 : Worth(e) > 0 /\ Worth(e) >= MinWorth}
               poor == {e \in Bins1 : Worth(e) > 0 /\ Worth(e) < MinWorth}
    <3>1. /\ held' = {active + d : d \in good} /\ residue' = {active + d : d \in poor}
          /\ held' \cup residue' # {}
      BY <1>5 DEF PlaceAdd
    <3>2. \A d \in m..n : d \in Int /\ active + d \in (active + m)..(active + n)
      BY <2>2
    <3>3. good \subseteq m..n /\ poor \subseteq m..n
      BY <2>2
    <3>4. good \cap poor = {}
      <4>1. ASSUME NEW e \in Bins1, Worth(e) >= MinWorth, Worth(e) < MinWorth PROVE FALSE
        <5>1. Worth(e) \in Int
          BY <1>0, <2>1, <2>2, <4>1, WorthIsNumber
        <5>2. MinWorth \in Nat
          BY AddAssumption
        <5> HIDE DEF Worth
        <5> QED
          BY <4>1, <5>1, <5>2
      <4> QED
        BY <4>1
    <3> HIDE DEF good, poor
    <3>5. target = (active + m)..(active + n)
      BY <2>3
    <3> HIDE DEF target
    <3>6. held' \cap residue' = {}
      <4> SUFFICES ASSUME NEW c \in good, NEW d \in poor, active + c = active + d PROVE FALSE
        BY <3>1
      <4>1. c = d
        BY <2>2, <3>2, <3>3
      <4> QED
        BY <3>4, <4>1
    <3> QED
      BY <3>1, <3>2, <3>3, <3>5, <3>6
  <2>5. Life!Shift(OnTheWay) = s /\ Life!Target(OnTheWay) = target
    BY DEF Life!Shift, Life!Target, m, n
  <2>6. Life!CanMine(OnTheWay)
    BY <2>1, <2>2, <2>3 DEF Life!CanMine, Life!Shift, Life!Bins, m, n
  <2>7. s = 0 <=> active = planned.active
    BY <2>2
  <2> HIDE DEF target, s, OnTheWay
  <2> DEFINE none == [type |-> "none", at |-> 0, lo |-> 0, hi |-> 0]
             way == IF stage \in {"sent", "placed"} THEN OnTheWay ELSE none
             wayNext == IF stage' \in {"sent", "placed"} THEN OnTheWay' ELSE none
  <2>8. way = OnTheWay /\ wayNext = OnTheWay
    BY <2>1 DEF OnTheWay
  <2>9. held' = held \cup held' /\ residue' = (residue \cup residue') \ held'
    BY <2>1, <2>4
  <2>10. Life!Deliver(OnTheWay, held', residue')
    BY <2>4, <2>6, <2>9 DEF Life!Deliver
  <2>11. /\ Life!Deliver(way, held', residue')
         /\ held' \in SUBSET Life!Target(way) /\ residue' \in SUBSET Life!Target(way)
         /\ (IF stage' = "placed" /\ (active' # planned'.active \/ held' = {}) THEN {Kind} ELSE {})
             = IF Life!Shift(way) = 0 /\ held' # {} THEN {} ELSE {Kind}
    BY <2>1, <2>4, <2>5, <2>7, <2>8, <2>10
  <2>12. OnTheWay.type = Kind
    BY DEF OnTheWay
  <2>13. Life!AddMined
    BY <2>1, <2>8, <2>11, <2>12 DEF Life!AddMined, Life!removal
  <2> QED
    BY <2>13 DEF Life!Next
<1>6. CASE RefuseAdd
  <2>1. Life!AddFailed
    BY <1>6 DEF RefuseAdd, Life!AddFailed, Life!chain, Life!removal, Life!NoAdd
  <2> QED
    BY <2>1 DEF Life!Next
<1>7. CASE UNCHANGED addVars
  BY <1>7 DEF addVars, Life!vars
<1> QED
  BY <1>1, <1>2, <1>3, <1>4, <1>5, <1>6, <1>7 DEF AddNext

(* create_position implements the add of the life of a position: what is    *)
(* proved there of every add holds of what the amounts, the distribution    *)
(* and the last look at the active bin make of one.                         *)
THEOREM AddImplementsLife == AddSpec => ImplementsLife
<1>1. AddInv /\ [AddNext]_addVars => [Life!Next]_(Life!vars)
  BY LifeStep
<1> QED
  BY <1>1, LifeInitially, AddInvariant, PTL DEF AddSpec, ImplementsLife, Life!Spec
=============================================================================
