-------------------------- MODULE EventBus_proofs ---------------------------
(* Theorems about EventBus, for every value of its constants.               *)
EXTENDS EventBus, FiniteSetTheorems, WellFoundedInduction, TLAPS

-----------------------------------------------------------------------------
(* Sums over finite sets                                                   *)

(* Every non-empty set of naturals has a least element.                     *)
LEMMA LeastNumber ==
  ASSUME NEW T \in SUBSET Nat, T # {}
  PROVE  \E n \in T : \A m \in T : n <= m
<1> DEFINE Below == OpToRel(<, Nat)
<1>1. IsWellFoundedOn(Below, Nat)
  BY NatLessThanWellFounded
<1>2. \A x, y \in Nat : x < y => <<x, y>> \in Below
  BY DEF OpToRel
<1> HIDE DEF Below
<1>3. PICK x \in T : \A y \in T : ~(<<y, x>> \in Below)
  BY <1>1, WFMin
<1>4. \A y \in T : ~(y < x)
  BY <1>2, <1>3
<1>5. QED
  BY <1>4

(* A family of subsets of a finite set has a smallest member: what stands   *)
(* in for induction over finite sets, here and below.                      *)
LEMMA SmallestSet ==
  ASSUME NEW S, IsFiniteSet(S), NEW Family \in SUBSET (SUBSET S), Family # {}
  PROVE  \E T \in Family : /\ IsFiniteSet(T) /\ Cardinality(T) \in Nat
                           /\ \A x \in T : T \ {x} \notin Family
<1> DEFINE Sizes == {Cardinality(T) : T \in Family}
<1>1. ASSUME NEW T \in SUBSET S
      PROVE  /\ IsFiniteSet(T) /\ Cardinality(T) \in Nat
             /\ \A x \in T : Cardinality(T \ {x}) < Cardinality(T)
  <2>1. IsFiniteSet(T) /\ Cardinality(T) \in Nat
    BY FS_Subset, FS_CardinalityType
  <2>2. ASSUME NEW x \in T PROVE Cardinality(T \ {x}) < Cardinality(T)
    <3>1. Cardinality(T \ {x}) = Cardinality(T) - 1
      BY <2>1, FS_RemoveElement
    <3>2. QED
      BY <2>1, <3>1
  <2>3. QED
    BY <2>1, <2>2
<1>2. Sizes \in SUBSET Nat /\ Sizes # {}
  BY <1>1
<1> HIDE DEF Sizes
<1>4. PICK n \in Sizes : \A m \in Sizes : n <= m
  BY <1>2, LeastNumber
<1>5. PICK T \in Family : Cardinality(T) = n
  BY <1>4 DEF Sizes
<1>6. ASSUME NEW x \in T, T \ {x} \in Family PROVE FALSE
  <2>1. Cardinality(T \ {x}) < Cardinality(T)
    BY <1>1
  <2>2. Cardinality(T) <= Cardinality(T \ {x})
    BY <1>4, <1>5, <1>6 DEF Sizes
  <2>3. Cardinality(T) \in Nat /\ Cardinality(T \ {x}) \in Nat
    BY <1>1, <1>6
  <2>4. QED
    BY <2>1, <2>2, <2>3
<1>7. QED
  BY <1>1, <1>5, <1>6

\* F adds up f over every subset of S, taking one element after the other.
One(T) == CHOOSE x \in T : TRUE
AddsUp(F, f, S) ==
    F = [T \in SUBSET S |-> IF T = {} THEN 0 ELSE f[One(T)] + F[T \ {One(T)}]]

(* The sum of the library is such an F, applied to the whole set.           *)
LEMMA SumIsChosen ==
  ASSUME NEW f, NEW S
  PROVE  SumFunctionOnSet(f, S) = (CHOOSE F : AddsUp(F, f, S))[S]
<1>1. SumFunctionOnSet(f, S) =
        (CHOOSE F : F = [T \in SUBSET S |->
            IF T = {} THEN 0
            ELSE f[CHOOSE x \in T : TRUE] + F[T \ {CHOOSE x \in T : TRUE}]])[S]
  BY Zenon DEF SumFunctionOnSet, FoldFunctionOnSet, MapThenFoldSet
<1>2. QED
  BY <1>1, Zenon DEF AddsUp, One

(* On a finite set such a function exists: built up by cardinality, in the   *)
(* form of a smallest subset for which there is none.                      *)
LEMMA SumExists ==
  ASSUME NEW S, IsFiniteSet(S), NEW f
  PROVE  \E F : AddsUp(F, f, S)
<1> DEFINE Upto(n) == {T \in SUBSET S : Cardinality(T) <= n}
           Next1(F, T) == IF T = {} THEN 0 ELSE f[One(T)] + F[T \ {One(T)}]
           Partly(F, n) == \A T \in Upto(n) : F[T] = Next1(F, T)
           Missing == {n \in Nat : ~ \E F : Partly(F, n)}
<1>1. ASSUME NEW T \in SUBSET S
      PROVE  /\ IsFiniteSet(T) /\ Cardinality(T) \in Nat
             /\ Cardinality(T) = 0 <=> T = {}
             /\ T # {} => /\ One(T) \in T
                          /\ Cardinality(T \ {One(T)}) = Cardinality(T) - 1
  <2>1. IsFiniteSet(T) /\ Cardinality(T) \in Nat /\ (Cardinality(T) = 0 <=> T = {})
    BY FS_Subset, FS_CardinalityType, FS_EmptySet
  <2>2. T # {} => One(T) \in T
    BY DEF One
  <2>3. QED
    BY <2>1, <2>2, FS_RemoveElement
<1>2. 0 \notin Missing
  <2>1. Partly([T \in SUBSET S |-> 0], 0)
    <3>1. ASSUME NEW T \in SUBSET S, Cardinality(T) <= 0 PROVE T = {}
      <4>1. Cardinality(T) \in Nat /\ (Cardinality(T) = 0 => T = {})
        BY <1>1
      <4>2. Cardinality(T) = 0
        BY <3>1, <4>1
      <4>3. QED
        BY <4>1, <4>2
    <3>2. {} \in SUBSET S
      OBVIOUS
    <3>3. QED
      BY <3>1, <3>2
  <2>2. QED
    BY <2>1
<1>3. ASSUME NEW n \in Nat, NEW F, Partly(F, n)
      PROVE  \E G : Partly(G, n + 1)
  <2> DEFINE G == [T \in SUBSET S |-> Next1(F, T)]
  <2>1. ASSUME NEW T \in Upto(n) PROVE G[T] = F[T]
    BY <1>3, <2>1
  <2>2. ASSUME NEW T \in Upto(n + 1) PROVE G[T] = Next1(G, T)
    <3>1. CASE T = {}
      BY <3>1
    <3>2. CASE T # {}
      <4>1. T \ {One(T)} \in Upto(n)
        BY <1>1, <3>2
      <4>2. G[T \ {One(T)}] = F[T \ {One(T)}]
        BY <4>1, <2>1
      <4> HIDE DEF Upto
      <4>3. T \in SUBSET S
        BY DEF Upto
      <4>4. QED
        BY <3>2, <4>2, <4>3
    <3>3. QED
      BY <3>1, <3>2
  <2>3. QED
    BY <2>2
<1>4. Missing = {}
  <2> SUFFICES ASSUME Missing # {} PROVE FALSE
    OBVIOUS
  <2> HIDE DEF Partly
  <2>2. Missing \in SUBSET Nat
    OBVIOUS
  <2> HIDE DEF Missing
  <2>3. PICK n \in Missing : \A m \in Missing : n <= m
    BY <2>2, LeastNumber
  <2>4. n \in Nat /\ n # 0 /\ n - 1 \in Nat /\ n - 1 < n
    BY <2>2, <2>3, <1>2
  <2>5. n - 1 \notin Missing
    BY <2>3, <2>4
  <2>6. PICK F : Partly(F, n - 1)
    BY <2>4, <2>5 DEF Missing
  <2>7. \E G : Partly(G, (n - 1) + 1)
    BY <1>3, <2>4, <2>6
  <2>8. QED
    BY <2>3, <2>4, <2>7 DEF Missing
<1>5. PICK F : Partly(F, Cardinality(S))
  <2> HIDE DEF Partly
  <2>1. Cardinality(S) \in Nat
    BY <1>1
  <2>2. QED
    BY <1>4, <2>1
<1>6. ASSUME NEW T \in SUBSET S PROVE T \in Upto(Cardinality(S))
  BY FS_Subset
<1> DEFINE H == [T \in SUBSET S |-> F[T]]
<1>7. ASSUME NEW T \in SUBSET S PROVE H[T] = Next1(H, T)
  BY <1>1, <1>5, <1>6
<1>8. H = [T \in SUBSET S |-> Next1(H, T)]
  <2> HIDE DEF Next1
  <2>1. QED
    BY <1>7
<1>9. AddsUp(H, f, S)
  BY <1>8 DEF AddsUp
<1>10. QED
  BY <1>9

(* It does not depend on the set it is built over, so that the sum of a set   *)
(* is One of its elements plus the sum of the others.                      *)
LEMMA SumUnfolds ==
  ASSUME NEW S, IsFiniteSet(S), NEW f
  PROVE  /\ SumFunctionOnSet(f, {}) = 0
         /\ S # {} => SumFunctionOnSet(f, S) = f[One(S)] + SumFunctionOnSet(f, S \ {One(S)})
<1>1. PICK F : AddsUp(F, f, S)
  BY SumExists
<1>2. ASSUME NEW T \in SUBSET S PROVE SumFunctionOnSet(f, T) = F[T]
  <2> DEFINE G == CHOOSE H : AddsUp(H, f, T)
  <2>1. AddsUp(G, f, T)
    BY SumExists, FS_Subset
  <2> HIDE DEF G
  <2> DEFINE Family == {U \in SUBSET T : F[U] # G[U]}
  <2>2. CASE Family = {}
    <3>1. F[T] = G[T]
      BY <2>2
    <3>2. QED
      BY <3>1, SumIsChosen DEF G
  <2>3. CASE Family # {}
    <3>1. PICK U \in Family : \A x \in U : U \ {x} \notin Family
      BY <2>3, SmallestSet, FS_Subset
    <3>2. U \in SUBSET T /\ F[U] # G[U]
      OBVIOUS
    <3>3. /\ F[U] = IF U = {} THEN 0 ELSE f[One(U)] + F[U \ {One(U)}]
          /\ G[U] = IF U = {} THEN 0 ELSE f[One(U)] + G[U \ {One(U)}]
      BY <1>1, <2>1, <3>2 DEF AddsUp
    <3>4. U # {} => One(U) \in U
      BY DEF One
    <3>5. U # {} => F[U \ {One(U)}] = G[U \ {One(U)}]
      BY <3>1, <3>2, <3>4
    <3>6. QED
      BY <3>2, <3>3, <3>5
  <2>4. QED
    BY <2>2, <2>3
<1>3. F[{}] = 0
  BY <1>1 DEF AddsUp
<1>4. S # {} => F[S] = f[One(S)] + F[S \ {One(S)}]
  BY <1>1 DEF AddsUp
<1>5. QED
  BY <1>2, <1>3, <1>4

(* A sum of naturals is a natural, and any element may be taken out first.  *)
LEMMA SumType ==
  ASSUME NEW S, IsFiniteSet(S), NEW f, \A x \in S : f[x] \in Nat
  PROVE  SumFunctionOnSet(f, S) \in Nat
<1> DEFINE Family == {T \in SUBSET S : SumFunctionOnSet(f, T) \notin Nat}
<1> SUFFICES ASSUME Family # {} PROVE FALSE
  OBVIOUS
<1>1. PICK T \in Family : IsFiniteSet(T) /\ \A x \in T : T \ {x} \notin Family
  BY SmallestSet
<1>2. T # {}
  <2>1. SumFunctionOnSet(f, {}) = 0
    BY SumUnfolds
  <2>2. QED
    BY <2>1
<1>3. One(T) \in T
  BY <1>2 DEF One
<1>4. SumFunctionOnSet(f, T \ {One(T)}) \in Nat
  BY <1>1, <1>3
<1>5. SumFunctionOnSet(f, T) = f[One(T)] + SumFunctionOnSet(f, T \ {One(T)})
  BY <1>1, <1>2, SumUnfolds
<1>6. QED
  BY <1>1, <1>3, <1>4, <1>5

LEMMA SumRemove ==
  ASSUME NEW S, IsFiniteSet(S), NEW f, \A x \in S : f[x] \in Nat
  PROVE  /\ SumFunctionOnSet(f, {}) = 0
         /\ \A x \in S : /\ SumFunctionOnSet(f, S \ {x}) \in Nat
                         /\ SumFunctionOnSet(f, S) = f[x] + SumFunctionOnSet(f, S \ {x})
<1> DEFINE Sum(T) == SumFunctionOnSet(f, T)
           Family == {T \in SUBSET S : \E x \in T : Sum(T) # f[x] + Sum(T \ {x})}
<1>1. ASSUME NEW T \in SUBSET S PROVE Sum(T) \in Nat
  BY SumType, FS_Subset
<1>2. Family = {}
  <2> SUFFICES ASSUME Family # {} PROVE FALSE
    OBVIOUS
  <2>1. PICK T \in Family : IsFiniteSet(T) /\ \A x \in T : T \ {x} \notin Family
    BY SmallestSet
  <2>2. PICK x \in T : Sum(T) # f[x] + Sum(T \ {x})
    OBVIOUS
  <2>3. PICK y \in T : y = One(T)
    BY <2>2 DEF One
  <2>4. Sum(T) = f[y] + Sum(T \ {y})
    BY <2>1, <2>2, <2>3, SumUnfolds
  <2>5. CASE x = y
    BY <2>2, <2>4, <2>5
  <2>6. CASE x # y
    <3>1. T \ {x} \notin Family /\ T \ {y} \notin Family
      BY <2>1
    <3>2. Sum(T \ {x}) = f[y] + Sum((T \ {x}) \ {y})
      BY <2>6, <3>1
    <3>3. Sum(T \ {y}) = f[x] + Sum((T \ {y}) \ {x})
      BY <2>6, <3>1
    <3>4. (T \ {x}) \ {y} = (T \ {y}) \ {x}
      OBVIOUS
    <3> DEFINE rest == Sum((T \ {x}) \ {y})
    <3>5. rest \in Nat /\ f[x] \in Nat /\ f[y] \in Nat
      BY <1>1
    <3>6. Sum(T) = f[y] + (f[x] + rest) /\ Sum(T \ {x}) = f[y] + rest
      BY <2>4, <3>2, <3>3, <3>4
    <3> HIDE DEF rest, Sum
    <3>7. QED
      BY <2>2, <3>5, <3>6
  <2>7. QED
    BY <2>5, <2>6
<1>3. Sum({}) = 0
  BY SumUnfolds
<1>4. QED
  <2>1. S \notin Family
    BY <1>2
  <2>2. QED
    BY <1>1, <1>3, <2>1

(* What a change of some of the summands does to the sum.                    *)
LEMMA SumSplit ==
  ASSUME NEW S, IsFiniteSet(S), NEW K \in SUBSET S, NEW f, NEW g, NEW h,
         \A x \in S : f[x] \in Nat /\ g[x] \in Nat,
         \A x \in K : h[x] \in Nat /\ f[x] = g[x] + h[x],
         \A x \in S \ K : f[x] = g[x]
  PROVE  /\ SumFunctionOnSet(f, S) = SumFunctionOnSet(g, S) + SumFunctionOnSet(h, K)
         /\ SumFunctionOnSet(f, S) \in Nat
         /\ SumFunctionOnSet(g, S) \in Nat
         /\ SumFunctionOnSet(h, K) \in Nat
<1> DEFINE Sum(F, T) == SumFunctionOnSet(F, T)
           Splits(T) == Sum(f, T) = Sum(g, T) + Sum(h, K \cap T)
           Family == {T \in SUBSET S : ~Splits(T)}
<1>0. ASSUME NEW F, \A x \in S : F[x] \in Nat, NEW T \in SUBSET S, NEW x \in T
      PROVE  SumFunctionOnSet(F, T) = F[x] + SumFunctionOnSet(F, T \ {x})
  <2>1. IsFiniteSet(T) /\ \A y \in T : F[y] \in Nat
    BY <1>0, FS_Subset
  <2>2. QED
    BY <2>1, SumRemove
<1>1. ASSUME NEW T \in SUBSET S
      PROVE  /\ IsFiniteSet(T) /\ IsFiniteSet(K \cap T)
             /\ Sum(f, T) \in Nat /\ Sum(g, T) \in Nat /\ Sum(h, K \cap T) \in Nat
  <2>1. IsFiniteSet(T) /\ IsFiniteSet(K \cap T)
    BY FS_Subset
  <2>2. Sum(f, T) \in Nat /\ Sum(g, T) \in Nat
    BY <2>1, SumType
  <2>3. Sum(h, K \cap T) \in Nat
    BY <2>1, SumType
  <2>4. QED
    BY <2>1, <2>2, <2>3
<1>2. ASSUME NEW T \in Family, \A x \in T : T \ {x} \notin Family PROVE FALSE
  <2>1. CASE T = {}
    <3>1. Sum(f, {}) = 0 /\ Sum(g, {}) = 0 /\ Sum(h, {}) = 0
      BY FS_EmptySet, SumUnfolds
    <3>2. QED
      BY <2>1, <3>1
  <2>2. ASSUME NEW x \in T PROVE FALSE
    <3> DEFINE U == T \ {x}
    <3>1. Sum(f, U) = Sum(g, U) + Sum(h, K \cap U)
      BY <1>2
    <3>2. Sum(f, T) = f[x] + Sum(f, U) /\ Sum(g, T) = g[x] + Sum(g, U)
      <4>1. /\ SumFunctionOnSet(f, T) = f[x] + SumFunctionOnSet(f, T \ {x})
            /\ SumFunctionOnSet(g, T) = g[x] + SumFunctionOnSet(g, T \ {x})
        BY <1>0
      <4>2. QED
        BY <4>1
    <3>3. CASE x \in K
      <4>1. (K \cap T) \ {x} = K \cap U
        OBVIOUS
      <4>2. Sum(h, K \cap T) = h[x] + Sum(h, K \cap U)
        <5>1. IsFiniteSet(K \cap T) /\ x \in K \cap T /\ \A y \in K \cap T : h[y] \in Nat
          BY <1>1, <3>3
        <5>2. Sum(h, K \cap T) = h[x] + Sum(h, (K \cap T) \ {x})
          BY <5>1, SumRemove
        <5>3. QED
          BY <4>1, <5>2
      <4>3. Sum(g, U) \in Nat /\ Sum(h, K \cap U) \in Nat
        BY <1>1
      <4>4. ~(Sum(f, T) = Sum(g, T) + Sum(h, K \cap T)) /\ f[x] = g[x] + h[x]
        BY <3>3
      <4>5. g[x] \in Nat /\ h[x] \in Nat
        BY <3>3
      <4> HIDE DEF Sum, U
      <4>6. QED
        BY <3>1, <3>2, <4>2, <4>3, <4>4, <4>5
    <3>4. CASE x \notin K
      <4>1. Sum(h, K \cap T) = Sum(h, K \cap U)
        <5>1. K \cap T = K \cap U
          BY <3>4
        <5>2. QED
          BY <5>1
      <4>2. Sum(g, U) \in Nat /\ Sum(h, K \cap U) \in Nat
        BY <1>1
      <4>3. ~(Sum(f, T) = Sum(g, T) + Sum(h, K \cap T)) /\ f[x] = g[x]
        BY <3>4
      <4>4. g[x] \in Nat
        OBVIOUS
      <4> HIDE DEF Sum, U
      <4>5. QED
        BY <3>1, <3>2, <4>1, <4>2, <4>3, <4>4
    <3>5. QED
      BY <3>3, <3>4
  <2>3. QED
    BY <2>1, <2>2
<1>3. Family = {}
  BY <1>2, SmallestSet
<1>4. K \cap S = K
  OBVIOUS
<1>5. Splits(S)
  BY <1>3
<1>6. QED
  BY <1>1, <1>4, <1>5

(* Equal summands give equal sums.                                          *)
LEMMA SumSame ==
  ASSUME NEW S, IsFiniteSet(S), NEW f, NEW g, \A x \in S : f[x] = g[x] /\ g[x] \in Nat
  PROVE  /\ SumFunctionOnSet(f, S) = SumFunctionOnSet(g, S)
         /\ SumFunctionOnSet(g, S) \in Nat
<1> DEFINE Family == {T \in SUBSET S : SumFunctionOnSet(f, T) # SumFunctionOnSet(g, T)}
<1>1. SumFunctionOnSet(g, S) \in Nat
  BY SumType
<1>2. Family = {}
  <2> SUFFICES ASSUME Family # {} PROVE FALSE
    OBVIOUS
  <2>1. PICK T \in Family : IsFiniteSet(T) /\ \A x \in T : T \ {x} \notin Family
    BY SmallestSet
  <2>2. T # {}
    <3>1. SumFunctionOnSet(f, {}) = 0 /\ SumFunctionOnSet(g, {}) = 0
      BY FS_EmptySet, SumUnfolds
    <3>2. QED
      BY <3>1
  <2>3. One(T) \in T
    BY <2>2 DEF One
  <2>4. SumFunctionOnSet(f, T \ {One(T)}) = SumFunctionOnSet(g, T \ {One(T)})
    BY <2>1, <2>3
  <2>5. /\ SumFunctionOnSet(f, T) = f[One(T)] + SumFunctionOnSet(f, T \ {One(T)})
        /\ SumFunctionOnSet(g, T) = g[One(T)] + SumFunctionOnSet(g, T \ {One(T)})
    BY <2>1, <2>2, SumUnfolds
  <2>6. f[One(T)] = g[One(T)]
    BY <2>3
  <2>7. QED
    BY <2>1, <2>4, <2>5, <2>6
<1>3. QED
  BY <1>1, <1>2

(* The same number for each.                                                *)
LEMMA SumConstant ==
  ASSUME NEW S, IsFiniteSet(S), NEW c \in Nat, NEW f, \A x \in S : f[x] = c
  PROVE  SumFunctionOnSet(f, S) = c * Cardinality(S)
<1> DEFINE Sum(T) == SumFunctionOnSet(f, T)
           Family == {T \in SUBSET S : Sum(T) # c * Cardinality(T)}
<1> SUFFICES ASSUME Family # {} PROVE FALSE
  OBVIOUS
<1>1. PICK T \in Family : IsFiniteSet(T) /\ \A x \in T : T \ {x} \notin Family
  BY SmallestSet
<1>2. CASE T = {}
  <2>1. Sum({}) = 0 /\ Cardinality({}) = 0
    BY FS_EmptySet, SumUnfolds
  <2>2. c * 0 = 0
    OBVIOUS
  <2>3. QED
    BY <1>2, <2>1, <2>2
<1>3. ASSUME NEW x \in T PROVE FALSE
  <2>1. Sum(T \ {x}) = c * Cardinality(T \ {x})
    BY <1>1
  <2>2. Sum(T) = c + Sum(T \ {x})
    BY <1>1, SumRemove
  <2>3. /\ Cardinality(T \ {x}) = Cardinality(T) - 1
        /\ Cardinality(T) \in Nat /\ Cardinality(T \ {x}) \in Nat
    BY <1>1, FS_RemoveElement, FS_CardinalityType
  <2>4. Cardinality(T) = Cardinality(T \ {x}) + 1
    BY <2>3
  <2>5. ASSUME NEW n \in Nat PROVE c + c * n = c * (n + 1)
    OBVIOUS
  <2>6. Sum(T) # c * Cardinality(T)
    OBVIOUS
  <2> HIDE DEF Sum
  <2>7. QED
    BY <2>1, <2>2, <2>3, <2>4, <2>5, <2>6
<1>4. QED
  BY <1>2, <1>3

-----------------------------------------------------------------------------
(* Sums of sequences                                                       *)

LEMMA UpTo ==
  ASSUME NEW n \in Nat
  PROVE  /\ IsFiniteSet(1..n)
         /\ n # 0 => n \in 1..n /\ (1..n) \ {n} = 1..(n - 1)
<1>1. IsFiniteSet(1..n)
  BY FS_Interval
<1>2. n # 0 => n \in 1..n /\ (1..n) \ {n} = 1..(n - 1)
  OBVIOUS
<1>3. QED
  BY <1>1, <1>2

(* The sum of a sequence of naturals, of one that grows, and of a tail.      *)
LEMMA SumOfSequence ==
  ASSUME NEW s \in Seq(Nat)
  PROVE  /\ SumFunction(s) = SumFunctionOnSet(s, 1..Len(s))
         /\ SumFunction(s) \in Nat
         /\ s = <<>> => SumFunction(s) = 0
<1>1. DOMAIN s = 1..Len(s) /\ IsFiniteSet(1..Len(s)) /\ \A i \in 1..Len(s) : s[i] \in Nat
  <2>1. Len(s) \in Nat
    OBVIOUS
  <2>2. IsFiniteSet(1..Len(s))
    BY <2>1, UpTo
  <2>3. QED
    BY <2>2
<1>2. SumFunction(s) = SumFunctionOnSet(s, 1..Len(s))
  BY <1>1 DEF SumFunction
<1>3. SumFunctionOnSet(s, 1..Len(s)) \in Nat
  BY <1>1, SumType
<1>4. s = <<>> => 1..Len(s) = {}
  OBVIOUS
<1>5. SumFunctionOnSet(s, {}) = 0
  BY FS_EmptySet, SumUnfolds
<1>6. QED
  BY <1>2, <1>3, <1>4, <1>5

LEMMA SumOfAppend ==
  ASSUME NEW s \in Seq(Nat), NEW x \in Nat
  PROVE  SumFunction(Append(s, x)) = SumFunction(s) + x
<1> DEFINE r == Append(s, x)
           n == Len(s)
<1>1. /\ r \in Seq(Nat) /\ n \in Nat /\ Len(r) = n + 1 /\ r[n + 1] = x
      /\ \A i \in 1..n : r[i] = s[i] /\ s[i] \in Nat
  OBVIOUS
<1>2. /\ IsFiniteSet(1..(n + 1)) /\ IsFiniteSet(1..n)
      /\ (1..(n + 1)) \ {n + 1} = 1..n /\ n + 1 \in 1..(n + 1)
  <2>1. n \in Nat /\ n + 1 \in Nat /\ n + 1 # 0 /\ (n + 1) - 1 = n
    OBVIOUS
  <2> HIDE DEF n
  <2>2. QED
    BY <2>1, UpTo
<1>3. \A i \in 1..(n + 1) : r[i] \in Nat
  BY <1>1
<1> HIDE DEF r, n
<1>4. SumFunctionOnSet(r, 1..(n + 1)) = x + SumFunctionOnSet(r, 1..n)
  <2>1. SumFunctionOnSet(r, 1..(n + 1)) = r[n + 1] + SumFunctionOnSet(r, (1..(n + 1)) \ {n + 1})
    BY <1>2, <1>3, SumRemove
  <2>2. QED
    BY <1>1, <1>2, <2>1
<1>5. SumFunctionOnSet(r, 1..n) = SumFunctionOnSet(s, 1..n)
  BY <1>1, <1>2, SumSame
<1>6. SumFunctionOnSet(s, 1..n) \in Nat
  BY <1>1, <1>2, SumType
<1>7. SumFunction(r) = SumFunctionOnSet(r, 1..(n + 1)) /\ SumFunction(s) = SumFunctionOnSet(s, 1..n)
  BY <1>1, SumOfSequence DEF n
<1>8. SumFunction(r) = SumFunction(s) + x
  BY <1>1, <1>4, <1>5, <1>6, <1>7
<1>9. QED
  BY <1>8 DEF r

LEMMA SumOfTail ==
  ASSUME NEW s \in Seq(Nat), s # <<>>
  PROVE  SumFunction(s) = Head(s) + SumFunction(Tail(s))
<1> DEFINE r == Tail(s)
           Up(q, n) == SumFunctionOnSet(q, 1..n)
           Bad == {n \in 0..Len(r) : Up(s, n + 1) # Head(s) + Up(r, n)}
<1>1. /\ r \in Seq(Nat) /\ Len(s) = Len(r) + 1 /\ Len(r) \in Nat
      /\ Head(s) = s[1] /\ Head(s) \in Nat
      /\ \A i \in 1..Len(r) : r[i] = s[i + 1]
      /\ \A i \in 1..Len(s) : s[i] \in Nat
      /\ \A i \in 1..Len(r) : r[i] \in Nat
  <2>1. Len(s) # 0
    OBVIOUS
  <2>2. QED
    BY <2>1
<1> HIDE DEF r
<1>2. ASSUME NEW q \in Seq(Nat), NEW n \in 1..Len(q)
      PROVE  Up(q, n) = q[n] + Up(q, n - 1) /\ Up(q, n - 1) \in Nat
  <2>1. /\ IsFiniteSet(1..n) /\ (1..n) \ {n} = 1..(n - 1) /\ n \in 1..n
        /\ \A i \in 1..n : q[i] \in Nat
    <3>1. n \in Nat /\ n # 0 /\ \A i \in 1..n : q[i] \in Nat
      OBVIOUS
    <3>2. QED
      BY <3>1, UpTo
  <2>2. /\ SumFunctionOnSet(q, 1..n) = q[n] + SumFunctionOnSet(q, (1..n) \ {n})
        /\ SumFunctionOnSet(q, (1..n) \ {n}) \in Nat
    BY <2>1, SumRemove
  <2>3. QED
    BY <2>1, <2>2
<1>3. \A q : Up(q, 0) = 0
  <2>1. 1..0 = {}
    OBVIOUS
  <2>2. QED
    BY <2>1, FS_EmptySet, SumUnfolds
<1> HIDE DEF Up
<1>4. ASSUME NEW n \in Bad, \A m \in Bad : n <= m PROVE FALSE
  <2>1. CASE n = 0
    <3>1. Up(s, 1) = s[1] + Up(s, 0) /\ Up(r, 0) = 0 /\ Up(s, 0) = 0
      <4>1. 1 \in 1..Len(s) /\ 1 - 1 = 0
        BY <1>1
      <4>2. QED
        BY <4>1, <1>2, <1>3
    <3>2. QED
      BY <1>1, <2>1, <3>1
  <2>2. CASE n # 0
    <3>1. n \in 1..Len(r) /\ n + 1 \in 1..Len(s) /\ n - 1 \in 0..Len(r) /\ n - 1 < n
      BY <1>1, <2>2
    <3>2. n - 1 \notin Bad
      BY <1>4, <3>1
    <3>3. Up(s, (n - 1) + 1) = Head(s) + Up(r, n - 1) /\ (n - 1) + 1 = n /\ (n + 1) - 1 = n
      BY <3>1, <3>2
    <3>4. Up(r, n) = r[n] + Up(r, n - 1) /\ Up(r, n - 1) \in Nat
      BY <1>1, <1>2, <3>1
    <3>5. Up(s, n + 1) = s[n + 1] + Up(s, n)
      BY <1>2, <3>1, <3>3
    <3>6. r[n] = s[n + 1] /\ r[n] \in Nat
      BY <1>1, <3>1
    <3>7. Up(s, n + 1) # Head(s) + Up(r, n)
      OBVIOUS
    <3>8. QED
      BY <1>1, <3>3, <3>4, <3>5, <3>6, <3>7
  <2>3. QED
    BY <2>1, <2>2
<1>5. Bad = {}
  <2>1. Bad \in SUBSET Nat
    BY <1>1
  <2> HIDE DEF Bad
  <2>2. QED
    BY <1>4, <2>1, LeastNumber
<1>6. Up(s, Len(r) + 1) = Head(s) + Up(r, Len(r))
  BY <1>1, <1>5
<1>7. SumFunction(s) = Up(s, Len(r) + 1) /\ SumFunction(r) = Up(r, Len(r))
  BY <1>1, SumOfSequence DEF Up
<1>8. QED
  BY <1>6, <1>7 DEF r

-----------------------------------------------------------------------------
(* The invariant                                                           *)

\* Who is subscribed, and that a fan-out serves none but subscribers.
Membership ==
    /\ \A i, j \in DOMAIN subs : subs[i] = subs[j] => i = j
    /\ \A s \in Subscribers :
          /\ s \in Attached <=> pc[s] \in {"waiting", "busy", "left"}
          /\ s \notin Attached => queue[s] = <<>> /\ pending[s] = <<>>
    /\ \A t \in Threads : thread[t].doing = "charging" => thread[t].takers \subseteq Attached

\* One thread at a time has the lock, for an event it fans out.
OneCharges ==
    /\ \A t, u \in Threads :
          thread[t].doing = "charging" /\ thread[u].doing = "charging" => t = u
    /\ \A t \in Threads : thread[t].doing # "idle" => thread[t].event \in Events

\* A sentinel, queued or on its way, is the trace of a stop.
StopsKnown ==
    /\ \A s \in Subscribers : \A i \in DOMAIN queue[s] : queue[s][i] = STOP => stopped
    /\ \A i \in DOMAIN callbacks : callbacks[i].event = STOP => stopped

\* An event that a thread or a callback carries is not fanned out yet.
Fanned(e) == \E a \in DOMAIN fanned : fanned[a] = e
Carries(t) == thread[t].doing \in {"accepted", "fanning"}
Fresh(e) == e < nextId /\ ~Fanned(e)

CarriedOnce ==
    /\ \A t, u \in Threads :
          Carries(t) /\ Carries(u) /\ thread[t].event = thread[u].event => t = u
    /\ \A i, j \in DOMAIN callbacks :
          callbacks[i].event = callbacks[j].event /\ callbacks[i].event # STOP => i = j
    /\ \A t \in Threads, i \in DOMAIN callbacks :
          Carries(t) => thread[t].event # callbacks[i].event

FannedOnce ==
    /\ \A a, b \in DOMAIN fanned : fanned[a] = fanned[b] => a = b
    /\ \A a \in DOMAIN fanned : fanned[a] < nextId
    /\ \A t \in Threads : Carries(t) => Fresh(thread[t].event)
    /\ \A i \in DOMAIN callbacks : callbacks[i].event # STOP => Fresh(callbacks[i].event)
    /\ CarriedOnce

\* What a subscriber got (d), and then what waits for it (q), is in the order
\* of the events fanned out (f).
Among(f, x) == \E a \in DOMAIN f : f[a] = x
Before(f, x, y) == \E a, b \in DOMAIN f : a < b /\ f[a] = x /\ f[b] = y
InOrder(f, q) ==
    /\ \A i \in DOMAIN q : q[i] # STOP => Among(f, q[i])
    /\ \A i, j \in DOMAIN q : i < j /\ q[i] # STOP /\ q[j] # STOP => Before(f, q[i], q[j])
OneAfterTheOther(f, d, q) ==
    /\ InOrder(f, d) /\ InOrder(f, q)
    /\ \A i \in DOMAIN d, j \in DOMAIN q : q[j] # STOP => Before(f, d[i], q[j])
Ordered == \A s \in Subscribers : OneAfterTheOther(fanned, delivered[s], queue[s])

\* The sizes on record once the thread that has the lock is through.
Owed(s) == {t \in Threads : thread[t].doing = "charging" /\ s \in thread[t].takers}
Recorded(s) ==
    IF Owed(s) = {} THEN pending[s]
    ELSE Append(pending[s], SizeOf[thread[CHOOSE t \in Owed(s) : TRUE].event])

\* A queue is n events and then sentinels, and its record ends with their sizes.
Split(q, n) == n \in 0..Len(q) /\ \A i \in DOMAIN q : q[i] = STOP <=> i > n
Fits(q, p) ==
    \E n \in 0..Len(p) : /\ Split(q, n)
                         /\ \A i \in 1..n : p[(Len(p) - n) + i] = SizeOf[q[i]]
RecordsFit == \A s \in Subscribers : Fits(queue[s], Recorded(s))

\* The budget is what is on record in the queues of the subscribers.
Charged == [s \in Subscribers |-> SumFunction(Recorded(s))]
BytesAddUp ==
    /\ queuedBytes = SumFunctionOnSet(Charged, Attached)
    /\ queuedBytes <= MaxBytes

BusInv ==
    /\ TypeOK /\ Membership /\ OneCharges
    /\ StopsKnown /\ FannedOnce /\ Ordered
    /\ RecordsFit /\ BytesAddUp

-----------------------------------------------------------------------------
(* What the steps do                                                       *)

(* The subscribers are finitely many, and as many as positions when none is *)
(* listed twice.                                                           *)
Members(q, T) == {q[i] : i \in T}

LEMMA Listed ==
  ASSUME NEW S, NEW q \in Seq(S), \A i, j \in DOMAIN q : q[i] = q[j] => i = j
  PROVE  /\ ToSet(q) \in SUBSET S /\ IsFiniteSet(ToSet(q))
         /\ Cardinality(ToSet(q)) = Len(q)
         /\ \A T \in SUBSET (1..Len(q)) :
               /\ IsFiniteSet(T)
               /\ Cardinality(Members(q, T)) = Cardinality(T)
<1> DEFINE N == 1..Len(q)
           Im(T) == {q[i] : i \in T}
           Counts(T) == IsFiniteSet(Im(T)) /\ Cardinality(Im(T)) = Cardinality(T)
           Family == {T \in SUBSET N : ~Counts(T)}
<1>1. IsFiniteSet(N) /\ Cardinality(N) = Len(q) /\ DOMAIN q = N
  <2>1. Len(q) \in Nat /\ DOMAIN q = 1..Len(q)
    OBVIOUS
  <2>2. Cardinality(1..Len(q)) = Len(q) /\ IsFiniteSet(1..Len(q))
    BY <2>1, FS_Interval
  <2>3. QED
    BY <2>1, <2>2
<1> HIDE DEF N
<1>2. ASSUME NEW T \in Family, IsFiniteSet(T), \A x \in T : T \ {x} \notin Family
      PROVE  FALSE
  <2>1. CASE T = {}
    <3>1. Im(T) = {}
      BY <2>1
    <3>2. QED
      BY <2>1, <3>1, FS_EmptySet
  <2>2. ASSUME NEW x \in T PROVE FALSE
    <3> DEFINE U == T \ {x}
    <3>1. Im(T) = Im(U) \cup {q[x]} /\ q[x] \notin Im(U)
      BY <1>1
    <3>2. Counts(U)
      BY <1>2
    <3>3. IsFiniteSet(Im(T)) /\ Cardinality(Im(T)) = Cardinality(Im(U)) + 1
      <4>1. IsFiniteSet(Im(U))
        BY <3>2
      <4> DEFINE A == Im(U)
                 b == q[x]
      <4>2. IsFiniteSet(A) /\ b \notin A /\ Im(T) = A \cup {b}
        BY <3>1, <4>1
      <4> HIDE DEF U, Im, A, b
      <4>3. IsFiniteSet(A \cup {b}) /\ Cardinality(A \cup {b}) = Cardinality(A) + 1
        BY <4>2, FS_AddElement
      <4>4. IsFiniteSet(Im(T)) /\ Cardinality(Im(T)) = Cardinality(A) + 1
        BY <4>2, <4>3
      <4>5. QED
        BY <4>4 DEF A
    <3>4. Cardinality(U) = Cardinality(T) - 1 /\ Cardinality(T) \in Nat
      BY <1>2, FS_RemoveElement, FS_CardinalityType
    <3>5. ~Counts(T)
      OBVIOUS
    <3> HIDE DEF U, Im
    <3>6. QED
      BY <3>2, <3>3, <3>4, <3>5
  <2>3. QED
    BY <2>1, <2>2
<1>3. Family = {}
  BY <1>1, <1>2, SmallestSet
<1>4. ASSUME NEW T \in SUBSET N PROVE IsFiniteSet(T) /\ Counts(T)
  BY <1>1, <1>3, FS_Subset
<1>5. Im(N) = ToSet(q)
  BY <1>1 DEF ToSet
<1>6. ToSet(q) \in SUBSET S
  BY DEF ToSet
<1>7. QED
  BY <1>1, <1>4, <1>5, <1>6 DEF N, Members

(* A fan-out that is not ignored puts event e in the queues of K.           *)
Puts(e, K) ==
    /\ ~stopped /\ K \in SUBSET Attached
    /\ IsFiniteSet(Attached) /\ IsFiniteSet(K) /\ Cardinality(Attached) = Len(subs)
    /\ subs' = subs
    /\ fanned' = Append(fanned, e)
    /\ queue' = [s \in Subscribers |-> IF s \in K THEN Append(queue[s], e) ELSE queue[s]]
    /\ queuedBytes' = queuedBytes + SizeOf[e] * Cardinality(K)
    /\ queuedBytes' \in Nat /\ queuedBytes' <= MaxBytes
    /\ dropped' = dropped + (Len(subs) - Cardinality(K))
    /\ dropped' \in Nat

LEMMA OfferPuts ==
  ASSUME BusInv, ~stopped, subs' = subs, NEW e \in Events,
         NEW T \in SUBSET (1..Len(subs)), Offer(e, T)
  PROVE  Puts(e, {subs[i] : i \in T})
<1> DEFINE K == {subs[i] : i \in T}
<1>1. /\ subs \in Seq(Subscribers) /\ queuedBytes \in Nat /\ dropped \in Nat
      /\ queuedBytes <= MaxBytes /\ MaxBytes \in Nat /\ SizeOf[e] \in Nat
      /\ \A i, j \in DOMAIN subs : subs[i] = subs[j] => i = j
  BY BusAssumption DEF BusInv, TypeOK, BytesAddUp, Membership, Events
<1>2. /\ IsFiniteSet(Attached) /\ Cardinality(Attached) = Len(subs)
      /\ IsFiniteSet(T) /\ Cardinality(K) = Cardinality(T)
  <2>1. /\ IsFiniteSet(ToSet(subs)) /\ Cardinality(ToSet(subs)) = Len(subs)
        /\ \A R \in SUBSET (1..Len(subs)) :
              IsFiniteSet(R) /\ Cardinality(Members(subs, R)) = Cardinality(R)
    BY <1>1, Listed
  <2>2. IsFiniteSet(T) /\ Cardinality(K) = Cardinality(T)
    BY <2>1 DEF Members
  <2>3. QED
    BY <2>1, <2>2 DEF Attached
<1>3. K \in SUBSET Attached /\ IsFiniteSet(K)
  <2>1. DOMAIN subs = 1..Len(subs)
    BY <1>1
  <2>2. K \in SUBSET Attached
    BY <2>1 DEF Attached, ToSet
  <2>3. QED
    BY <1>2, <2>2, FS_Subset
<1>4. /\ Cardinality(K) \in Nat /\ Cardinality(K) <= Len(subs) /\ Len(subs) \in Nat
  BY <1>1, <1>2, <1>3, FS_Subset, FS_CardinalityType
<1>5. SizeOf[e] * Cardinality(K) \in Nat
  BY <1>1, <1>4
<1>6. queuedBytes + SizeOf[e] * Cardinality(T) <= MaxBytes
  <2>1. CASE T = {}
    <3>1. Cardinality(T) = 0
      BY <2>1, FS_EmptySet
    <3>2. SizeOf[e] * 0 = 0
      BY <1>1
    <3>3. QED
      BY <1>1, <3>1, <3>2
  <2>2. CASE T # {}
    <3> DEFINE R == {Len(subs) - i : i \in T}
    <3>1. R \in SUBSET Nat /\ R # {}
      <4>1. ASSUME NEW i \in T PROVE Len(subs) - i \in Nat
        BY <1>4
      <4>2. QED
        BY <2>2, <4>1
    <3>2. PICK r \in R : \A p \in R : r <= p
      BY <3>1, LeastNumber
    <3>3. PICK i \in T : r = Len(subs) - i
      OBVIOUS
    <3>4. ASSUME NEW j \in T PROVE j <= i
      <4>1. Len(subs) - i <= Len(subs) - j
        BY <3>2, <3>3
      <4>2. QED
        BY <1>4, <4>1
    <3>5. {j \in T : j < i} = T \ {i}
      <4>1. ASSUME NEW j \in T PROVE j < i <=> j # i
        BY <3>4
      <4>2. QED
        BY <4>1
    <3>6. /\ Cardinality(T \ {i}) = Cardinality(T) - 1
          /\ Cardinality(T) \in Nat
      BY <1>2, FS_RemoveElement, FS_CardinalityType
    <3>7. queuedBytes + SizeOf[e] * (1 + Cardinality({j \in T : j < i})) <= MaxBytes
      BY DEF Offer, Takes
    <3>8. 1 + Cardinality({j \in T : j < i}) = Cardinality(T)
      <4>1. 1 + (Cardinality(T) - 1) = Cardinality(T)
        BY <3>6
      <4>2. QED
        BY <3>5, <3>6, <4>1
    <3>9. QED
      BY <3>7, <3>8
  <2>3. QED
    BY <2>1, <2>2
<1>7. /\ fanned' = Append(fanned, e)
      /\ queue' = [s \in Subscribers |-> IF s \in K THEN Append(queue[s], e) ELSE queue[s]]
      /\ queuedBytes' = queuedBytes + SizeOf[e] * Cardinality(T)
      /\ dropped' = dropped + (Len(subs) - Cardinality(T))
  BY DEF Offer, Missed
<1> HIDE DEF K
<1>8. queuedBytes' \in Nat /\ queuedBytes' <= MaxBytes /\ dropped' \in Nat
  <2>1. Cardinality(T) = Cardinality(K)
    BY <1>2
  <2>2. queuedBytes' \in Nat
    BY <1>1, <1>5, <1>7, <2>1
  <2>3. queuedBytes' <= MaxBytes
    BY <1>6, <1>7
  <2>4. dropped' \in Nat
    <3>1. Len(subs) - Cardinality(K) \in Nat
      BY <1>4
    <3>2. dropped' = dropped + (Len(subs) - Cardinality(K))
      BY <1>7, <2>1
    <3>3. QED
      BY <1>1, <3>1, <3>2
  <2>5. QED
    BY <2>2, <2>3, <2>4
<1>9. Puts(e, K)
  BY <1>2, <1>3, <1>7, <1>8 DEF Puts
<1>10. QED
  BY <1>9 DEF K

LEMMA FanOutPuts ==
  ASSUME BusInv, NEW e \in Events, FanOut(e)
  PROVE  /\ LockFree
         /\ \/ stopped /\ UNCHANGED <<busVars, fanned>>
            \/ \E K \in SUBSET Attached : Puts(e, K) /\ Charge(e, K)
<1>1. LockFree
  BY DEF FanOut
<1>2. CASE stopped
  BY <1>1, <1>2 DEF FanOut, MustIgnore
<1>3. CASE ~stopped
  <2>1. PICK T \in SUBSET (1..Len(subs)) : Offer(e, T) /\ Charge(e, {subs[i] : i \in T})
    BY <1>3 DEF FanOut, MustIgnore
  <2>2. subs' = subs
    BY <1>3 DEF FanOut, MustIgnore
  <2>3. Puts(e, {subs[i] : i \in T})
    BY <1>3, <2>1, <2>2, OfferPuts
  <2>4. {subs[i] : i \in T} \in SUBSET Attached
    BY <2>3 DEF Puts
  <2>5. QED
    BY <1>1, <2>1, <2>3, <2>4
<1>4. QED
  BY <1>2, <1>3

(* The sentinels of a stop: queues grow by one, the full ones at the price  *)
(* of their head, and the budget gives back what was on record for it.     *)
Gives == [s \in Subscribers |-> HeadOr0(pending[s])]
Sentinels(to) ==
    LET here == to \cap Attached
        full == {s \in here : Full(s)}
    IN
    /\ UNCHANGED <<subs, dropped>>
    /\ IsFiniteSet(Attached)
    /\ queue' = [s \in Subscribers |->
                    IF s \in full THEN Append(Tail(queue[s]), STOP)
                    ELSE IF s \in here THEN Append(queue[s], STOP) ELSE queue[s]]
    /\ pending' = [s \in Subscribers |-> IF s \in full THEN TailOf(pending[s]) ELSE pending[s]]
    /\ \A s \in full : queue[s] # <<>> /\ Gives[s] \in Nat
    /\ queuedBytes' = Reclaim(queuedBytes, SumFunctionOnSet(Gives, full))
    /\ SumFunctionOnSet(Gives, full) \in Nat

LEMMA InjectPuts ==
  ASSUME BusInv, NEW to \in SUBSET Subscribers, InjectStop(to)
  PROVE  Sentinels(to)
<1> DEFINE here == to \cap Attached
           full == {s \in here : Full(s)}
           given == [s \in full |-> HeadOr0(pending[s])]
<1>1. /\ subs \in Seq(Subscribers) /\ pending \in [Subscribers -> Seq(Nat)]
      /\ queue \in [Subscribers -> Seq(Events \cup {STOP})] /\ QueueMax \in Nat \ {0}
      /\ \A i, j \in DOMAIN subs : subs[i] = subs[j] => i = j
  BY BusAssumption DEF BusInv, TypeOK, Membership
<1>2. IsFiniteSet(Attached) /\ IsFiniteSet(full) /\ full \in SUBSET Subscribers
  <2>1. IsFiniteSet(Attached)
    BY <1>1, Listed DEF Attached
  <2>2. full \in SUBSET Attached
    OBVIOUS
  <2>3. QED
    BY <2>1, <2>2, FS_Subset
<1>3. ASSUME NEW s \in full PROVE queue[s] # <<>> /\ Gives[s] \in Nat /\ given[s] = Gives[s]
  <2>1. Len(queue[s]) >= QueueMax /\ s \in Subscribers
    BY DEF Full
  <2>2. queue[s] # <<>>
    BY <1>1, <2>1
  <2>3. HeadOr0(pending[s]) \in Nat
    BY <1>1, <2>1 DEF HeadOr0
  <2>4. QED
    BY <2>1, <2>2, <2>3 DEF Gives
<1>4. /\ SumFunction(given) = SumFunctionOnSet(Gives, full)
      /\ SumFunctionOnSet(Gives, full) \in Nat
  <2> HIDE DEF full
  <2>1. SumFunction(given) = SumFunctionOnSet(given, full)
    BY DEF SumFunction
  <2> HIDE DEF given
  <2>2. /\ SumFunctionOnSet(given, full) = SumFunctionOnSet(Gives, full)
        /\ SumFunctionOnSet(Gives, full) \in Nat
    BY <1>2, <1>3, SumSame
  <2>3. QED
    BY <2>1, <2>2
<1>5. /\ UNCHANGED <<subs, dropped>>
      /\ queue' = [s \in Subscribers |->
                    IF s \in full THEN Append(Tail(queue[s]), STOP)
                    ELSE IF s \in here THEN Append(queue[s], STOP) ELSE queue[s]]
      /\ pending' = [s \in Subscribers |-> IF s \in full THEN TailOf(pending[s]) ELSE pending[s]]
      /\ queuedBytes' = Reclaim(queuedBytes, SumFunction(given))
  BY DEF InjectStop, Reached
<1>6. QED
  BY <1>2, <1>3, <1>4, <1>5 DEF Sentinels

(* What a step may do to the queue of s and to what s was given.            *)
Moves(s) ==
    \/ queue'[s] = queue[s] /\ delivered'[s] = delivered[s]
    \/ /\ ~stopped /\ delivered'[s] = delivered[s]
       /\ \E e \in Events : fanned' = Append(fanned, e) /\ queue'[s] = Append(queue[s], e)
    \/ /\ queue[s] # <<>> /\ Head(queue[s]) # STOP
       /\ queue'[s] = Tail(queue[s])
       /\ delivered'[s] = Append(delivered[s], Head(queue[s]))
    \/ queue'[s] = <<>> /\ delivered'[s] = delivered[s]
    \/ /\ stopped' /\ delivered'[s] = delivered[s]
       /\ \/ queue'[s] = Append(queue[s], STOP)
          \/ queue[s] # <<>> /\ queue'[s] = Append(Tail(queue[s]), STOP)

AllMove ==
    /\ queue' = [s \in Subscribers |-> queue'[s]]
    /\ delivered' = [s \in Subscribers |-> delivered'[s]]
    /\ \A s \in Subscribers : Moves(s)

LEMMA QueuesStay ==
  ASSUME TypeOK, UNCHANGED <<queue, delivered>>
  PROVE  AllMove
BY DEF AllMove, Moves, TypeOK

LEMMA PutsMove ==
  ASSUME TypeOK, NEW e \in Events, NEW K, Puts(e, K), UNCHANGED delivered
  PROVE  AllMove
<1>1. \A s \in Subscribers : queue'[s] = IF s \in K THEN Append(queue[s], e) ELSE queue[s]
  BY DEF Puts
<1>2. queue' = [s \in Subscribers |-> queue'[s]] /\ delivered' = [s \in Subscribers |-> delivered'[s]]
  BY DEF Puts, TypeOK
<1>3. ~stopped /\ fanned' = Append(fanned, e)
  BY DEF Puts
<1>4. ASSUME NEW s \in Subscribers PROVE Moves(s)
  BY <1>1, <1>3 DEF Moves
<1>5. QED
  BY <1>2, <1>4 DEF AllMove

LEMMA SentinelsMove ==
  ASSUME TypeOK, NEW to, Sentinels(to), stopped', UNCHANGED delivered
  PROVE  AllMove
<1>1. ASSUME NEW s \in Subscribers
      PROVE  \/ queue'[s] = queue[s]
             \/ queue'[s] = Append(queue[s], STOP)
             \/ queue[s] # <<>> /\ queue'[s] = Append(Tail(queue[s]), STOP)
  BY DEF Sentinels
<1>2. queue' = [s \in Subscribers |-> queue'[s]] /\ delivered' = [s \in Subscribers |-> delivered'[s]]
  BY DEF Sentinels, TypeOK
<1>3. ASSUME NEW s \in Subscribers PROVE Moves(s)
  BY <1>1 DEF Moves
<1>4. QED
  BY <1>2, <1>3 DEF AllMove

LEMMA DetachMoves ==
  ASSUME TypeOK, NEW s \in Subscribers, NEW b, NEW q, Detach(s, b, q), UNCHANGED delivered
  PROVE  AllMove
<1>1. queue' = [queue EXCEPT ![s] = <<>>]
  BY DEF Detach
<1>2. queue' = [u \in Subscribers |-> queue'[u]] /\ delivered' = [u \in Subscribers |-> delivered'[u]]
  BY <1>1 DEF TypeOK
<1>3. ASSUME NEW u \in Subscribers PROVE Moves(u)
  BY <1>1 DEF Moves, TypeOK
<1>4. QED
  BY <1>2, <1>3 DEF AllMove

\* The callback the loop runs is the oldest one.
LEMMA OldestCallback ==
  ASSUME TypeOK, callbacks # <<>>
  PROVE  /\ Head(callbacks) = callbacks[1] /\ 1 \in DOMAIN callbacks
         /\ Head(callbacks) \in Callback
         /\ Tail(callbacks) \in Seq(Callback)
         /\ \A i \in DOMAIN Tail(callbacks) :
               i + 1 \in DOMAIN callbacks /\ i + 1 # 1 /\ Tail(callbacks)[i] = callbacks[i + 1]
<1>1. callbacks \in Seq(Callback)
  BY DEF TypeOK
<1> HIDE DEF Callback
<1>2. Len(callbacks) \in Nat /\ Len(callbacks) # 0 /\ DOMAIN callbacks = 1..Len(callbacks)
  BY <1>1
<1>3. /\ Tail(callbacks) \in Seq(Callback) /\ Len(Tail(callbacks)) = Len(callbacks) - 1
      /\ DOMAIN Tail(callbacks) = 1..(Len(callbacks) - 1)
      /\ \A i \in 1..(Len(callbacks) - 1) : Tail(callbacks)[i] = callbacks[i + 1]
  BY <1>1, <1>2
<1>4. Head(callbacks) = callbacks[1] /\ callbacks[1] \in Callback
  BY <1>1, <1>2
<1>5. QED
  BY <1>2, <1>3, <1>4

(* What RunCallback and PublishOnLoop fan out is an event, and what          *)
(* RunCallback stops is a set of subscribers of a stopped bus.             *)
LEMMA LoopRuns ==
  ASSUME BusInv
  PROVE  /\ PublishOnLoop => nextId \in Events /\ nextId' = nextId + 1 /\ FanOut(nextId)
         /\ RunCallback =>
              LET c == Head(callbacks) IN
              /\ callbacks # <<>> /\ callbacks' = Tail(callbacks)
              /\ \/ c.event \in Events /\ c.event # STOP /\ FanOut(c.event)
                 \/ /\ c.event = STOP /\ c.to \in SUBSET Subscribers /\ stopped /\ stopped'
                    /\ InjectStop(c.to) /\ fanned' = fanned
<1>1. PublishOnLoop => nextId \in Events /\ nextId' = nextId + 1 /\ FanOut(nextId)
  BY BusAssumption DEF PublishOnLoop, Accept, Events, BusInv, TypeOK
<1>2. ASSUME RunCallback
      PROVE  LET c == Head(callbacks) IN
              /\ callbacks # <<>> /\ callbacks' = Tail(callbacks)
              /\ \/ c.event \in Events /\ c.event # STOP /\ FanOut(c.event)
                 \/ /\ c.event = STOP /\ c.to \in SUBSET Subscribers /\ stopped /\ stopped'
                    /\ InjectStop(c.to) /\ fanned' = fanned
  <2> DEFINE c == Head(callbacks)
  <2>1. callbacks # <<>> /\ callbacks' = Tail(callbacks) /\ stops' = stops
    BY <1>2 DEF RunCallback
  <2>2. c \in Callback /\ c = callbacks[1] /\ 1 \in DOMAIN callbacks
    BY <2>1, OldestCallback DEF BusInv
  <2>3. /\ c.event \in Events \cup {STOP}
        /\ c.event = STOP => c.to \in SUBSET Subscribers
    BY <2>2 DEF Callback
  <2>4. c.event = STOP => stopped /\ stopped'
    BY <2>1, <2>2 DEF BusInv, StopsKnown, stopped
  <2>5. \/ c.event # STOP /\ FanOut(c.event)
        \/ c.event = STOP /\ InjectStop(c.to) /\ fanned' = fanned
    BY <1>2 DEF RunCallback
  <2> HIDE DEF c
  <2>6. \/ c.event \in Events /\ c.event # STOP /\ FanOut(c.event)
        \/ /\ c.event = STOP /\ c.to \in SUBSET Subscribers /\ stopped /\ stopped'
           /\ InjectStop(c.to) /\ fanned' = fanned
    BY <2>3, <2>4, <2>5
  <2>7. QED
    BY <2>1, <2>6 DEF c
<1>3. QED
  BY <1>1, <1>2

(* A thread that fans out either finds the bus stopped or puts its event in *)
(* some queues, and has the lock then.                                     *)
LEMMA ThreadFans ==
  ASSUME BusInv, NEW t \in Threads, ThreadFanOut(t)
  PROVE  /\ LockFree /\ thread[t].event \in Events
         /\ \/ /\ stopped /\ thread' = [thread EXCEPT ![t] = Idle]
               /\ UNCHANGED <<busVars, fanned>>
            \/ \E K \in SUBSET Attached :
                  /\ Puts(thread[t].event, K) /\ UNCHANGED pending
                  /\ thread' = [thread EXCEPT ![t].doing = "charging", ![t].takers = K]
<1>1. LockFree /\ thread[t].event \in Events
  BY DEF ThreadFanOut, BusInv, OneCharges
<1>2. CASE stopped
  BY <1>1, <1>2 DEF ThreadFanOut, MustIgnore
<1>3. CASE ~stopped
  <2> DEFINE e == thread[t].event
  <2>1. PICK T \in SUBSET (1..Len(subs)) :
              /\ Offer(e, T)
              /\ thread' = [thread EXCEPT ![t].doing = "charging",
                                          ![t].takers = {subs[i] : i \in T}]
    BY <1>3 DEF ThreadFanOut, MustIgnore
  <2>2. subs' = subs /\ pending' = pending
    BY <1>3 DEF ThreadFanOut, MustIgnore
  <2>3. Puts(e, {subs[i] : i \in T})
    BY <1>1, <1>3, <2>1, <2>2, OfferPuts
  <2>4. {subs[i] : i \in T} \in SUBSET Attached
    BY <2>3 DEF Puts
  <2>5. QED
    BY <1>1, <2>1, <2>2, <2>3, <2>4
<1>4. QED
  BY <1>2, <1>3

LEMMA StepsMove ==
  ASSUME BusInv, Next
  PROVE  AllMove
<1>1. TypeOK
  BY DEF BusInv
<1>2. ASSUME NEW e \in Events, FanOut(e), UNCHANGED delivered PROVE AllMove
  BY <1>1, <1>2, FanOutPuts, PutsMove, QueuesStay DEF busVars
<1>3. ASSUME NEW to \in SUBSET Subscribers, InjectStop(to), stopped', UNCHANGED delivered
      PROVE  AllMove
  BY <1>1, <1>3, InjectPuts, SentinelsMove
<1>4. CASE Reject
  BY <1>1, <1>4, QueuesStay DEF Reject, busVars
<1>5. CASE PublishOnLoop
  BY <1>2, <1>5, LoopRuns DEF PublishOnLoop
<1>6. CASE StopHere
  <2>1. stopped' /\ UNCHANGED delivered /\ InjectStop(Attached)
    BY <1>1, <1>6 DEF StopHere, Stopping, stopped, TypeOK
  <2>2. Attached \in SUBSET Subscribers
    BY <1>1 DEF Attached, ToSet, TypeOK
  <2>3. QED
    BY <1>3, <2>1, <2>2
<1>7. CASE StopFromThread
  BY <1>1, <1>7, QueuesStay DEF StopFromThread, Stopping, busVars
<1>8. CASE RunCallback
  <2>1. UNCHANGED delivered
    BY <1>8 DEF RunCallback
  <2>2. QED
    BY <1>2, <1>3, <1>8, <2>1, LoopRuns
<1>9. ASSUME NEW t \in Threads, ThreadFanOut(t) PROVE AllMove
  <2>1. UNCHANGED delivered
    BY <1>9 DEF ThreadFanOut
  <2>2. QED
    BY <1>1, <1>9, <2>1, ThreadFans, PutsMove, QueuesStay DEF busVars
<1>10. ASSUME NEW t \in Threads, ThreadAccept(t) \/ ThreadSchedule(t) \/ ThreadCharge(t)
       PROVE  AllMove
  BY <1>1, <1>10, QueuesStay DEF ThreadAccept, ThreadSchedule, ThreadCharge, busVars
<1>11. ASSUME NEW s \in Subscribers, Subscribe(s) \/ Resume(s) \/ Abandon(s) PROVE AllMove
  BY <1>1, <1>11, QueuesStay DEF Subscribe, Resume, Abandon, busVars
<1>12. ASSUME NEW s \in Subscribers, Close(s) PROVE AllMove
  BY <1>1, <1>12, DetachMoves DEF Close
<1>13. ASSUME NEW s \in Subscribers, Get(s) PROVE AllMove
  <2>1. CASE Head(queue[s]) = STOP
    BY <1>1, <1>13, <2>1, DetachMoves DEF Get
  <2>2. CASE Head(queue[s]) # STOP
    <3>1. /\ queue[s] # <<>>
          /\ queue' = [queue EXCEPT ![s] = Tail(@)]
          /\ delivered' = [delivered EXCEPT ![s] = Append(@, Head(queue[s]))]
      BY <1>13, <2>2 DEF Get
    <3>2. /\ queue' = [u \in Subscribers |-> queue'[u]]
          /\ delivered' = [u \in Subscribers |-> delivered'[u]]
      BY <1>1, <3>1 DEF TypeOK
    <3>3. ASSUME NEW u \in Subscribers PROVE Moves(u)
      BY <1>1, <2>2, <3>1 DEF Moves, TypeOK
    <3>4. QED
      BY <3>2, <3>3 DEF AllMove
  <2>3. QED
    BY <2>1, <2>2
<1>14. QED
  BY <1>4, <1>5, <1>6, <1>7, <1>8, <1>9, <1>10, <1>11, <1>12, <1>13 DEF Next

\* The second part of two sequences put together.
LEMMA Joined ==
  ASSUME NEW S, NEW a \in Seq(S), NEW b \in Seq(S)
  PROVE  \A i \in (Len(a) + 1)..(Len(a) + Len(b)) : (a \o b)[i] = b[i - Len(a)]
<1>1. Len(a) \in Nat /\ Len(b) \in Nat /\ Len(a \o b) = Len(a) + Len(b)
  OBVIOUS
<1>2. ASSUME NEW i \in (Len(a) + 1)..(Len(a) + Len(b)) PROVE (a \o b)[i] = b[i - Len(a)]
  <2>1. i \in 1..(Len(a) + Len(b)) /\ ~(i <= Len(a))
    BY <1>1
  <2>2. QED
    BY <1>1, <2>1
<1>3. QED
  BY <1>2

(* Whoever leaves a list without repetitions is the only one missing.       *)
LEMMA Leaving ==
  ASSUME NEW S, NEW q \in Seq(S), \A i, j \in DOMAIN q : q[i] = q[j] => i = j,
         NEW x \in ToSet(q)
  PROVE  /\ RemoveFirst(q, x) \in Seq(S)
         /\ ToSet(RemoveFirst(q, x)) = ToSet(q) \ {x}
         /\ \A i, j \in DOMAIN RemoveFirst(q, x) :
               RemoveFirst(q, x)[i] = RemoveFirst(q, x)[j] => i = j
<1>1. PICK k \in DOMAIN q : q[k] = x
  BY DEF ToSet
<1>2. Len(q) \in Nat /\ DOMAIN q = 1..Len(q) /\ k \in 1..Len(q)
  BY <1>1
<1>3. {i \in 1..Len(q) : q[i] = x} = {k}
  BY <1>1, <1>2
<1>4. RemoveFirst(q, x) = RemoveAt(q, k)
  BY <1>1, <1>2, <1>3 DEF RemoveFirst, SelectInSeq, Min
<1> DEFINE r == RemoveAt(q, k)
           Old(i) == IF i < k THEN i ELSE i + 1
<1>5. /\ r \in Seq(S) /\ Len(r) = Len(q) - 1
      /\ \A i \in 1..(Len(q) - 1) : r[i] = q[Old(i)]
  <2> DEFINE a == SubSeq(q, 1, k - 1)
             b == SubSeq(q, k + 1, Len(q))
  <2>1. /\ a \in Seq(S) /\ Len(a) = k - 1
        /\ \A i \in 1..(k - 1) : a[i] = q[i]
    BY <1>2
  <2>2. /\ b \in Seq(S) /\ Len(b) = Len(q) - k
        /\ \A i \in 1..(Len(q) - k) : b[i] = q[k + i]
    BY <1>2
  <2>3. r = a \o b
    BY DEF RemoveAt
  <2> HIDE DEF a, b, r
  <2>4. r \in Seq(S) /\ Len(r) = (k - 1) + (Len(q) - k)
    <3>1. a \o b \in Seq(S) /\ Len(a \o b) = Len(a) + Len(b)
      BY <2>1, <2>2
    <3>2. QED
      BY <2>1, <2>2, <2>3, <3>1
  <2>5. ASSUME NEW i \in 1..(Len(q) - 1) PROVE r[i] = q[Old(i)]
    <3>1. CASE i < k
      <4>1. i \in 1..Len(a) /\ i \in 1..(k - 1)
        BY <1>2, <2>1, <3>1
      <4>2. r[i] = a[i]
        BY <2>1, <2>2, <2>3, <4>1
      <4>3. QED
        BY <2>1, <3>1, <4>1, <4>2
    <3>2. CASE ~(i < k)
      <4>1. /\ i - (k - 1) \in 1..(Len(q) - k) /\ k + (i - (k - 1)) = i + 1
            /\ i \in (Len(a) + 1)..(Len(a) + Len(b)) /\ i - Len(a) = i - (k - 1)
        <5>1. /\ Len(q) \in Nat /\ k \in 1..Len(q) /\ i \in 1..(Len(q) - 1)
              /\ Len(a) = k - 1 /\ Len(b) = Len(q) - k
          BY <1>2, <2>1, <2>2
        <5>2. i - (k - 1) \in 1..(Len(q) - k) /\ k + (i - (k - 1)) = i + 1
          BY <3>2, <5>1
        <5>3. i \in ((k - 1) + 1)..((k - 1) + (Len(q) - k))
          BY <3>2, <5>1
        <5>4. QED
          BY <5>1, <5>2, <5>3
      <4>2. r[i] = b[i - Len(a)]
        <5>1. (a \o b)[i] = b[i - Len(a)]
          <6>1. \A j \in (Len(a) + 1)..(Len(a) + Len(b)) : (a \o b)[j] = b[j - Len(a)]
            <7>1. a \in Seq(S) /\ b \in Seq(S)
              BY <2>1, <2>2
            <7>2. QED
              BY <7>1, Joined
          <6>2. QED
            BY <4>1, <6>1, Zenon
        <5>2. QED
          BY <2>3, <5>1
      <4>3. QED
        BY <2>2, <3>2, <4>1, <4>2
    <3>3. QED
      BY <3>1, <3>2
  <2>6. QED
    BY <1>2, <2>4, <2>5
<1>6. DOMAIN r = 1..(Len(q) - 1)
  BY <1>2, <1>5
<1> HIDE DEF r
<1>7. ASSUME NEW i \in DOMAIN r, NEW j \in DOMAIN r, r[i] = r[j] PROVE i = j
  <2>1. /\ Old(i) \in DOMAIN q /\ Old(j) \in DOMAIN q
        /\ r[i] = q[Old(i)] /\ r[j] = q[Old(j)]
    BY <1>2, <1>5, <1>6
  <2>2. Old(i) = Old(j)
    BY <1>7, <2>1
  <2>3. QED
    BY <1>2, <1>6, <2>2
<1>8. ToSet(r) = ToSet(q) \ {x}
  <2>1. ASSUME NEW i \in DOMAIN r PROVE r[i] \in ToSet(q) \ {x}
    <3>1. Old(i) \in DOMAIN q /\ Old(i) # k /\ r[i] = q[Old(i)]
      BY <1>2, <1>5, <1>6
    <3>2. QED
      BY <1>1, <3>1 DEF ToSet
  <2>2. ASSUME NEW i \in DOMAIN q, i # k PROVE q[i] \in ToSet(r)
    <3> DEFINE j == IF i < k THEN i ELSE i - 1
    <3>1. j \in DOMAIN r /\ Old(j) = i
      BY <1>2, <1>6, <2>2
    <3>2. QED
      BY <1>5, <1>6, <3>1 DEF ToSet
  <2>3. QED
    BY <1>1, <2>1, <2>2 DEF ToSet
<1>9. QED
  BY <1>4, <1>5, <1>7, <1>8 DEF r

-----------------------------------------------------------------------------
(* Types and membership                                                    *)

\* What a queue, a record and a tail of one are made of.
LEMMA SequenceTypes ==
  /\ \A q \in Seq(Events \cup {STOP}) :
        /\ q # <<>> => /\ Tail(q) \in Seq(Events \cup {STOP})
                       /\ Head(q) \in Events \cup {STOP}
                       /\ Append(Tail(q), STOP) \in Seq(Events \cup {STOP})
        /\ Append(q, STOP) \in Seq(Events \cup {STOP})
        /\ \A e \in Events : Append(q, e) \in Seq(Events \cup {STOP})
        /\ <<>> \in Seq(Events \cup {STOP})
  /\ \A d \in Seq(Events) : \A e \in Events : Append(d, e) \in Seq(Events)
  /\ \A p \in Seq(Nat) : /\ TailOf(p) \in Seq(Nat) /\ HeadOr0(p) \in Nat
                         /\ \A n \in Nat : Append(p, n) \in Seq(Nat)
  /\ \A b, n \in Nat : Reclaim(b, n) \in Nat /\ Reclaim(b, n) <= b
<1> DEFINE D == Events \cup {STOP}
<1>1. STOP \in D /\ \A e \in Events : e \in D
  OBVIOUS
<1> HIDE DEF D
<1>2. ASSUME NEW q \in Seq(D)
      PROVE  /\ q # <<>> => /\ Tail(q) \in Seq(D) /\ Head(q) \in D
                            /\ Append(Tail(q), STOP) \in Seq(D)
             /\ Append(q, STOP) \in Seq(D)
             /\ \A e \in Events : Append(q, e) \in Seq(D)
             /\ <<>> \in Seq(D)
  BY <1>1
<1>3. ASSUME NEW p \in Seq(Nat)
      PROVE  /\ TailOf(p) \in Seq(Nat) /\ HeadOr0(p) \in Nat
             /\ \A n \in Nat : Append(p, n) \in Seq(Nat)
  BY DEF TailOf, HeadOr0
<1>4. \A d \in Seq(Events) : \A e \in Events : Append(d, e) \in Seq(Events)
  OBVIOUS
<1>5. \A b, n \in Nat : Reclaim(b, n) \in Nat /\ Reclaim(b, n) <= b
  BY DEF Reclaim
<1>6. QED
  BY <1>2, <1>3, <1>4, <1>5 DEF D

LEMMA MoveTypes ==
  ASSUME TypeOK, AllMove
  PROVE  /\ queue' \in [Subscribers -> Seq(Events \cup {STOP})]
         /\ delivered' \in [Subscribers -> Seq(Events)]
<1>1. ASSUME NEW s \in Subscribers
      PROVE  queue'[s] \in Seq(Events \cup {STOP}) /\ delivered'[s] \in Seq(Events)
  <2>1. /\ queue[s] \in Seq(Events \cup {STOP}) /\ delivered[s] \in Seq(Events)
        /\ Moves(s)
    BY DEF TypeOK, AllMove
  <2> DEFINE q == queue[s]
  <2>2. \/ queue'[s] = q /\ delivered'[s] = delivered[s]
        \/ delivered'[s] = delivered[s] /\ \E e \in Events : queue'[s] = Append(q, e)
        \/ /\ q # <<>> /\ Head(q) # STOP /\ queue'[s] = Tail(q)
           /\ delivered'[s] = Append(delivered[s], Head(q))
        \/ queue'[s] = <<>> /\ delivered'[s] = delivered[s]
        \/ /\ delivered'[s] = delivered[s]
           /\ queue'[s] = Append(q, STOP) \/ (q # <<>> /\ queue'[s] = Append(Tail(q), STOP))
    BY <2>1 DEF Moves
  <2>3. q # <<>> /\ Head(q) # STOP => Head(q) \in Events
    BY <2>1, SequenceTypes
  <2>4. queue'[s] \in Seq(Events \cup {STOP})
    BY <2>1, <2>2, SequenceTypes
  <2>5. delivered'[s] \in Seq(Events)
    BY <2>1, <2>2, <2>3, SequenceTypes
  <2>6. QED
    BY <2>4, <2>5
<1>2. QED
  BY <1>1 DEF AllMove

(* The types of what a fan-out, the sentinels of a stop and a departure      *)
(* leave behind.                                                           *)
LEMMA ChargeTypes ==
  ASSUME TypeOK, NEW e \in Events, NEW K, Charge(e, K)
  PROVE  pending' \in [Subscribers -> Seq(Nat)]
<1>1. SizeOf[e] \in Nat
  BY BusAssumption DEF Events
<1>2. QED
  BY <1>1, SequenceTypes DEF Charge, TypeOK

LEMMA PutsTypes ==
  ASSUME TypeOK, NEW e \in Events, NEW K, Puts(e, K)
  PROVE  /\ subs' \in Seq(Subscribers) /\ queuedBytes' \in Nat /\ dropped' \in Nat
         /\ fanned' \in Seq(Events)
BY SequenceTypes DEF Puts, TypeOK

LEMMA SentinelsTypes ==
  ASSUME TypeOK, NEW to, Sentinels(to)
  PROVE  /\ subs' \in Seq(Subscribers) /\ queuedBytes' \in Nat /\ dropped' \in Nat
         /\ pending' \in [Subscribers -> Seq(Nat)]
<1>1. subs' \in Seq(Subscribers) /\ dropped' \in Nat
  BY DEF Sentinels, TypeOK
<1>2. pending' \in [Subscribers -> Seq(Nat)]
  BY SequenceTypes DEF Sentinels, TypeOK
<1>3. queuedBytes' \in Nat
  BY SequenceTypes DEF Sentinels, TypeOK
<1>4. QED
  BY <1>1, <1>2, <1>3

LEMMA DetachTypes ==
  ASSUME TypeOK, Membership, NEW s \in Attached, NEW b \in Nat, NEW q \in Seq(Nat),
         Detach(s, b, q)
  PROVE  /\ s \in Subscribers /\ LockFree
         /\ subs' \in Seq(Subscribers) /\ queuedBytes' = Reclaim(b, SumFunction(q))
         /\ SumFunction(q) \in Nat /\ queuedBytes' \in Nat
         /\ pending' \in [Subscribers -> Seq(Nat)]
         /\ Attached' = Attached \ {s}
         /\ \A i, j \in DOMAIN subs' : subs'[i] = subs'[j] => i = j
         /\ pc' = [pc EXCEPT ![s] = "done"]
         /\ pending' = [pending EXCEPT ![s] = <<>>] /\ queue' = [queue EXCEPT ![s] = <<>>]
<1>1. subs \in Seq(Subscribers) /\ \A i, j \in DOMAIN subs : subs[i] = subs[j] => i = j
  BY DEF TypeOK, Membership
<1>2. /\ subs' = RemoveFirst(subs, s) /\ LockFree
      /\ pending' = [pending EXCEPT ![s] = <<>>] /\ queue' = [queue EXCEPT ![s] = <<>>]
      /\ queuedBytes' = Reclaim(b, SumFunction(q))
      /\ pc' = [pc EXCEPT ![s] = "done"]
  BY DEF Detach, Leftover
<1>3. /\ RemoveFirst(subs, s) \in Seq(Subscribers)
      /\ ToSet(RemoveFirst(subs, s)) = ToSet(subs) \ {s}
      /\ \A i, j \in DOMAIN RemoveFirst(subs, s) :
            RemoveFirst(subs, s)[i] = RemoveFirst(subs, s)[j] => i = j
  BY <1>1, Leaving DEF Attached
<1>4. s \in Subscribers
  BY <1>1 DEF Attached, ToSet
<1>5. SumFunction(q) \in Nat
  BY SumOfSequence
<1>6. queuedBytes' \in Nat
  BY <1>2, <1>5, SequenceTypes
<1>7. pending' \in [Subscribers -> Seq(Nat)]
  <2>1. <<>> \in Seq(Nat)
    OBVIOUS
  <2>2. QED
    BY <1>2, <2>1 DEF TypeOK
<1>8. Attached' = Attached \ {s}
  BY <1>2, <1>3 DEF Attached
<1>9. QED
  BY <1>2, <1>3, <1>4, <1>5, <1>6, <1>7, <1>8

LEMMA Gets ==
  ASSUME BusInv, NEW s \in Subscribers, Get(s)
  PROVE  LET bytes == Reclaim(queuedBytes, HeadOr0(pending[s])) IN
         /\ s \in Attached /\ queue[s] # <<>>
         /\ HeadOr0(pending[s]) \in Nat /\ bytes \in Nat /\ TailOf(pending[s]) \in Seq(Nat)
         /\ \/ /\ Head(queue[s]) # STOP /\ Head(queue[s]) \in Events
               /\ LockFree \/ pending[s] = <<>>
               /\ queue' = [queue EXCEPT ![s] = Tail(@)]
               /\ pending' = [pending EXCEPT ![s] = TailOf(@)]
               /\ queuedBytes' = bytes
               /\ pc' = [pc EXCEPT ![s] = "busy"]
               /\ subs' = subs
            \/ Head(queue[s]) = STOP /\ Detach(s, bytes, TailOf(pending[s]))
<1>1. /\ queuedBytes \in Nat /\ pending[s] \in Seq(Nat)
      /\ queue[s] \in Seq(Events \cup {STOP})
      /\ s \in Attached <=> pc[s] \in {"waiting", "busy", "left"}
  BY DEF BusInv, TypeOK, Membership
<1>2. s \in Attached /\ queue[s] # <<>>
  BY <1>1 DEF Get
<1>3. /\ HeadOr0(pending[s]) \in Nat /\ TailOf(pending[s]) \in Seq(Nat)
      /\ Head(queue[s]) # STOP => Head(queue[s]) \in Events
  BY <1>1, <1>2, SequenceTypes
<1>4. Reclaim(queuedBytes, HeadOr0(pending[s])) \in Nat
  BY <1>1, <1>3, SequenceTypes
<1>5. QED
  BY <1>2, <1>3, <1>4 DEF Get

LEMMA FanOutTypes ==
  ASSUME BusInv, NEW e \in Events, FanOut(e)
  PROVE  /\ subs' \in Seq(Subscribers) /\ queuedBytes' \in Nat /\ dropped' \in Nat
         /\ fanned' \in Seq(Events) /\ pending' \in [Subscribers -> Seq(Nat)]
<1>1. TypeOK
  BY DEF BusInv
<1>2. CASE UNCHANGED <<busVars, fanned>>
  BY <1>1, <1>2 DEF TypeOK, busVars
<1>3. ASSUME NEW K, Puts(e, K), Charge(e, K)
      PROVE  /\ subs' \in Seq(Subscribers) /\ queuedBytes' \in Nat /\ dropped' \in Nat
             /\ fanned' \in Seq(Events) /\ pending' \in [Subscribers -> Seq(Nat)]
  BY <1>1, <1>3, PutsTypes, ChargeTypes
<1>4. QED
  BY <1>2, <1>3, FanOutPuts

\* The part of the types that the steps treat in groups.
BusType ==
    /\ subs \in Seq(Subscribers) /\ pending \in [Subscribers -> Seq(Nat)]
    /\ queuedBytes \in Nat /\ dropped \in Nat /\ fanned \in Seq(Events)
RestType ==
    /\ rejected \in Nat /\ stops \in Nat /\ bound \in BOOLEAN
    /\ callbacks \in Seq(Callback) /\ thread \in [Threads -> Activity]
    /\ pc \in [Subscribers -> {"out", "waiting", "busy", "left", "done"}]
    /\ nextId \in 1..(MaxEvents + 1)

LEMMA BusTypeKept ==
  ASSUME BusInv, Next
  PROVE  BusType'
<1>1. TypeOK /\ Membership /\ BusType /\ Attached \in SUBSET Subscribers
  BY DEF BusInv, TypeOK, BusType, Attached, ToSet
<1>2. CASE UNCHANGED <<busVars, fanned>>
  BY <1>1, <1>2 DEF BusType, busVars
<1>3. ASSUME NEW e \in Events, FanOut(e) PROVE BusType'
  BY <1>3, FanOutTypes DEF BusType
<1>4. ASSUME NEW to \in SUBSET Subscribers, InjectStop(to), UNCHANGED fanned
      PROVE  BusType'
  BY <1>1, <1>4, InjectPuts, SentinelsTypes DEF BusType
<1>5. ASSUME NEW s \in Attached, NEW b \in Nat, NEW q \in Seq(Nat), Detach(s, b, q),
             UNCHANGED <<dropped, fanned>>
      PROVE  BusType'
  BY <1>1, <1>5, DetachTypes DEF BusType
<1>6. CASE PublishOnLoop
  BY <1>3, <1>6, LoopRuns
<1>7. CASE StopHere
  BY <1>1, <1>4, <1>7 DEF StopHere, Stopping
<1>8. CASE RunCallback
  BY <1>3, <1>4, <1>8, LoopRuns
<1>9. ASSUME NEW t \in Threads, ThreadFanOut(t) PROVE BusType'
  <2>1. ASSUME NEW e \in Events, NEW K, Puts(e, K), UNCHANGED pending PROVE BusType'
    BY <1>1, <2>1, PutsTypes DEF BusType
  <2>2. QED
    BY <1>2, <1>9, <2>1, ThreadFans
<1>10. ASSUME NEW t \in Threads, ThreadCharge(t) PROVE BusType'
  <2>1. thread[t].event \in Events
    BY <1>10 DEF ThreadCharge, BusInv, OneCharges
  <2>2. pending' \in [Subscribers -> Seq(Nat)]
    BY <1>1, <1>10, <2>1, ChargeTypes DEF ThreadCharge
  <2>3. QED
    BY <1>1, <1>10, <2>2 DEF ThreadCharge, BusType
<1>11. CASE Reject \/ StopFromThread \/ \E t \in Threads : ThreadAccept(t) \/ ThreadSchedule(t)
  BY <1>2, <1>11 DEF Reject, StopFromThread, Stopping, ThreadAccept, ThreadSchedule
<1>12. ASSUME NEW s \in Subscribers, Resume(s) \/ Abandon(s) PROVE BusType'
  BY <1>2, <1>12 DEF Resume, Abandon
<1>13. ASSUME NEW s \in Subscribers, Subscribe(s) PROVE BusType'
  BY <1>1, <1>13 DEF Subscribe, BusType
<1>14. ASSUME NEW s \in Subscribers, Close(s) PROVE BusType'
  <2>1. s \in Attached /\ queuedBytes \in Nat /\ pending[s] \in Seq(Nat)
    BY <1>1, <1>14 DEF Close, Membership, BusType
  <2>2. QED
    BY <1>5, <1>14, <2>1 DEF Close
<1>15. ASSUME NEW s \in Subscribers, Get(s) PROVE BusType'
  <2>1. UNCHANGED <<dropped, fanned>>
    BY <1>15 DEF Get
  <2>2. CASE Head(queue[s]) = STOP
    BY <1>5, <1>15, <2>1, <2>2, Gets
  <2>3. CASE Head(queue[s]) # STOP
    <3>1. /\ subs' = subs /\ queuedBytes' \in Nat /\ TailOf(pending[s]) \in Seq(Nat)
          /\ pending' = [pending EXCEPT ![s] = TailOf(@)]
      BY <1>15, <2>3, Gets
    <3>2. QED
      BY <1>1, <2>1, <3>1 DEF BusType
  <2>4. QED
    BY <2>2, <2>3
<1>16. QED
  BY <1>6, <1>7, <1>8, <1>9, <1>10, <1>11, <1>12, <1>13, <1>14, <1>15 DEF Next

LEMMA RestTypeKept ==
  ASSUME BusInv, Next
  PROVE  RestType'
<1>1. /\ RestType /\ Attached \in SUBSET Subscribers /\ subs \in Seq(Subscribers)
      /\ OneCharges
  BY DEF BusInv, TypeOK, RestType, Attached, ToSet
<1>2. /\ Idle \in Activity
      /\ \A e \in Events : [Idle EXCEPT !.doing = "accepted", !.event = e] \in Activity
      /\ \A a \in Activity : [a EXCEPT !.doing = "fanning"] \in Activity
      /\ \A a \in Activity, K \in SUBSET Subscribers :
            [a EXCEPT !.doing = "charging", !.takers = K] \in Activity
      /\ \A e \in Events : [event |-> e, to |-> {}] \in Callback
      /\ \A K \in SUBSET Subscribers : [event |-> STOP, to |-> K] \in Callback
  BY DEF Activity, Idle, Callback, Events, STOP
<1> HIDE DEF Callback
<1>3. nextId <= MaxEvents => nextId \in Events /\ nextId + 1 \in 1..(MaxEvents + 1)
  BY <1>1, BusAssumption DEF RestType, Events
<1>4. CASE Reject
  BY <1>1, <1>3, <1>4 DEF Reject, Accept, RestType
<1>5. CASE PublishOnLoop
  BY <1>1, <1>3, <1>5 DEF PublishOnLoop, Accept, RestType
<1>6. CASE StopHere
  BY <1>1, <1>6 DEF StopHere, Stopping, RestType
<1>7. CASE StopFromThread
  <2>1. callbacks' \in Seq(Callback)
    <3> DEFINE c == [event |-> STOP, to |-> Attached]
    <3>1. c \in Callback /\ callbacks \in Seq(Callback)
      BY <1>1, <1>2 DEF RestType
    <3>2. callbacks' = Append(callbacks, c)
      BY <1>7 DEF StopFromThread
    <3> HIDE DEF c
    <3>3. QED
      BY <3>1, <3>2
  <2>2. stops' \in Nat
    BY <1>1, <1>7 DEF StopFromThread, Stopping, RestType
  <2>3. QED
    BY <1>1, <1>7, <2>1, <2>2 DEF StopFromThread, Stopping, RestType
<1>8. CASE RunCallback
  <2>1. callbacks' \in Seq(Callback)
    BY <1>8, OldestCallback DEF RunCallback, BusInv
  <2>2. QED
    BY <1>1, <1>8, <2>1 DEF RunCallback, RestType
<1>9. ASSUME NEW t \in Threads, ThreadAccept(t) PROVE RestType'
  BY <1>1, <1>2, <1>3, <1>9 DEF ThreadAccept, Accept, RestType
<1>10. ASSUME NEW t \in Threads, ThreadSchedule(t) PROVE RestType'
  <2>1. thread[t].event \in Events /\ thread[t] \in Activity
    BY <1>1, <1>10 DEF ThreadSchedule, OneCharges, RestType
  <2>2. callbacks' \in Seq(Callback)
    <3> DEFINE c == [event |-> thread[t].event, to |-> {}]
    <3>1. c \in Callback /\ callbacks \in Seq(Callback)
      BY <1>1, <1>2, <2>1 DEF RestType
    <3>2. callbacks' = callbacks \/ callbacks' = Append(callbacks, c)
      BY <1>10 DEF ThreadSchedule
    <3> HIDE DEF c
    <3>3. QED
      BY <3>1, <3>2
  <2>3. thread' \in [Threads -> Activity]
    BY <1>1, <1>2, <1>10, <2>1 DEF ThreadSchedule, RestType, Handed
  <2>4. QED
    BY <1>1, <1>10, <2>2, <2>3 DEF ThreadSchedule, RestType
<1>11. ASSUME NEW t \in Threads, ThreadFanOut(t) PROVE RestType'
  <2>1. thread[t] \in Activity
    BY <1>1 DEF RestType
  <2>2. \/ thread' = [thread EXCEPT ![t] = Idle]
        \/ \E K \in SUBSET Subscribers :
              thread' = [thread EXCEPT ![t].doing = "charging", ![t].takers = K]
    BY <1>1, <1>11, ThreadFans
  <2>3. thread' \in [Threads -> Activity]
    <3>1. CASE thread' = [thread EXCEPT ![t] = Idle]
      BY <1>1, <1>2, <3>1 DEF RestType
    <3>2. ASSUME NEW K \in SUBSET Subscribers,
                 thread' = [thread EXCEPT ![t].doing = "charging", ![t].takers = K]
          PROVE  thread' \in [Threads -> Activity]
      BY <1>1, <2>1, <3>2 DEF RestType, Activity
    <3>3. QED
      BY <2>2, <3>1, <3>2
  <2>4. QED
    BY <1>1, <1>11, <2>3 DEF ThreadFanOut, RestType
<1>12. ASSUME NEW t \in Threads, ThreadCharge(t) PROVE RestType'
  BY <1>1, <1>2, <1>12 DEF ThreadCharge, RestType
<1>13. ASSUME NEW s \in Subscribers,
              Subscribe(s) \/ Get(s) \/ Resume(s) \/ Abandon(s) \/ Close(s)
       PROVE  RestType'
  <2>1. pc' \in [Subscribers -> {"out", "waiting", "busy", "left", "done"}]
    BY <1>1, <1>13 DEF Subscribe, Get, Resume, Abandon, Close, Detach, RestType
  <2>2. bound' \in BOOLEAN
    BY <1>1, <1>13 DEF Subscribe, Get, Resume, Abandon, Close, RestType
  <2>3. QED
    BY <1>1, <1>13, <2>1, <2>2 DEF Subscribe, Get, Resume, Abandon, Close, RestType
<1>14. QED
  BY <1>4, <1>5, <1>6, <1>7, <1>8, <1>9, <1>10, <1>11, <1>12, <1>13 DEF Next

LEMMA TypeKept ==
  ASSUME BusInv, Next
  PROVE  TypeOK'
<1>1. TypeOK
  BY DEF BusInv
<1>2. BusType' /\ RestType'
  BY BusTypeKept, RestTypeKept
<1>3. AllMove
  BY StepsMove
<1>4. /\ queue' \in [Subscribers -> Seq(Events \cup {STOP})]
      /\ delivered' \in [Subscribers -> Seq(Events)]
  BY <1>1, <1>3, MoveTypes
<1>5. QED
  BY <1>2, <1>4 DEF TypeOK, BusType, RestType

(* One thread at a time: whoever takes the lock finds it free.              *)
LEMMA OneChargesKept ==
  ASSUME BusInv, Next
  PROVE  OneCharges'
<1>1. OneCharges /\ thread \in [Threads -> Activity]
  BY DEF BusInv, TypeOK
<1>2. CASE UNCHANGED thread
  BY <1>1, <1>2 DEF OneCharges
<1>3. ASSUME NEW t \in Threads, ThreadAccept(t) PROVE OneCharges'
  <2>1. nextId \in Events
    BY <1>3, BusAssumption DEF ThreadAccept, Accept, BusInv, TypeOK, Events
  <2>2. QED
    BY <1>1, <1>3, <2>1 DEF ThreadAccept, OneCharges
<1>4. ASSUME NEW t \in Threads, ThreadSchedule(t) PROVE OneCharges'
  <2>1. \A u \in Threads \ {t} : thread'[u] = thread[u]
    BY <1>1, <1>4 DEF ThreadSchedule
  <2>2. thread'[t].doing = "idle" \/ (thread'[t].doing = "fanning" /\ thread'[t].event = thread[t].event)
    BY <1>1, <1>4 DEF ThreadSchedule, Idle, Handed, Activity
  <2>3. thread[t].event \in Events
    BY <1>1, <1>4 DEF ThreadSchedule, OneCharges
  <2>4. QED
    BY <1>1, <2>1, <2>2, <2>3 DEF OneCharges
<1>5. ASSUME NEW t \in Threads, ThreadFanOut(t) PROVE OneCharges'
  <2>1. LockFree /\ thread[t].event \in Events
    BY <1>5, ThreadFans
  <2>2. \/ thread' = [thread EXCEPT ![t] = Idle]
        \/ \E K : thread' = [thread EXCEPT ![t].doing = "charging", ![t].takers = K]
    BY <1>5, ThreadFans
  <2>3. QED
    <3>1. \A u \in Threads \ {t} : thread'[u] = thread[u]
      BY <1>1, <2>2
    <3>2. thread'[t].doing = "idle" \/ thread'[t].event = thread[t].event
      BY <1>1, <2>2 DEF Idle, Activity
    <3>3. \A u \in Threads \ {t} : thread'[u].doing # "charging"
      BY <2>1, <3>1 DEF LockFree
    <3>4. QED
      BY <1>1, <2>1, <3>1, <3>2, <3>3 DEF OneCharges
<1>6. ASSUME NEW t \in Threads, ThreadCharge(t) PROVE OneCharges'
  BY <1>1, <1>6 DEF ThreadCharge, OneCharges, Idle
<1>7. QED
  BY <1>2, <1>3, <1>4, <1>5, <1>6 DEF Next, Reject, PublishOnLoop, StopHere, StopFromThread,
     Stopping, RunCallback, Subscribe, Get, Resume, Abandon, Close

(* Sentinels come from stops.                                               *)
LEMMA StopsKept ==
  ASSUME BusInv, Next
  PROVE  StopsKnown'
<1>1. StopsKnown /\ TypeOK /\ stopped \in BOOLEAN
  BY DEF BusInv, stopped
<1>2. stopped => stopped'
  <2>1. stops' = stops \/ stops' = stops + 1
    BY DEF Next, Reject, PublishOnLoop, StopHere, StopFromThread, Stopping, RunCallback,
       ThreadAccept, ThreadSchedule, ThreadFanOut, ThreadCharge, Subscribe, Get, Resume,
       Abandon, Close
  <2>2. QED
    BY <1>1, <2>1 DEF stopped, TypeOK
<1>3. ASSUME NEW s \in Subscribers, NEW i \in DOMAIN queue'[s], queue'[s][i] = STOP
      PROVE  stopped'
  <2>1. queue[s] \in Seq(Events \cup {STOP}) /\ Moves(s)
    BY <1>1, StepsMove DEF TypeOK, AllMove
  <2>2. \A e \in Events : e # STOP
    BY DEF Events, STOP
  <2>3. \A j \in DOMAIN queue[s] : queue[s][j] = STOP => stopped'
    BY <1>1, <1>2 DEF StopsKnown
  <2>4. CASE queue'[s] = queue[s]
    BY <1>3, <2>3, <2>4
  <2>5. CASE queue'[s] = <<>>
    BY <1>3, <2>5
  <2>6. ASSUME NEW e \in Events, queue'[s] = Append(queue[s], e) PROVE stopped'
    <3>1. \/ i \in DOMAIN queue[s] /\ queue'[s][i] = queue[s][i]
          \/ queue'[s][i] = e
      BY <2>1, <2>6
    <3>2. QED
      BY <1>3, <2>2, <2>3, <3>1
  <2>7. CASE queue[s] # <<>> /\ queue'[s] = Tail(queue[s])
    <3>1. i + 1 \in DOMAIN queue[s] /\ queue'[s][i] = queue[s][i + 1]
      BY <2>1, <2>7
    <3>2. QED
      BY <1>3, <2>3, <3>1
  <2>8. QED
    BY <2>1, <2>4, <2>5, <2>6, <2>7 DEF Moves
<1>4. ASSUME NEW i \in DOMAIN callbacks', callbacks'[i].event = STOP PROVE stopped'
  <2>1. callbacks \in Seq(Callback) /\ \A j \in DOMAIN callbacks : callbacks[j].event = STOP => stopped'
    BY <1>1, <1>2 DEF StopsKnown, TypeOK
  <2> HIDE DEF Callback
  <2>2. CASE UNCHANGED callbacks
    BY <1>4, <2>1, <2>2
  <2>3. CASE RunCallback
    BY <1>1, <1>4, <2>1, <2>3, OldestCallback DEF RunCallback
  <2>4. CASE StopFromThread
    BY <1>1, <2>4 DEF StopFromThread, Stopping, stopped, TypeOK
  <2>5. ASSUME NEW t \in Threads, ThreadSchedule(t), callbacks' # callbacks PROVE stopped'
    <3>1. /\ callbacks' = Append(callbacks, [event |-> thread[t].event, to |-> {}])
          /\ thread[t].event \in Events
      BY <2>5 DEF ThreadSchedule, BusInv, OneCharges
    <3>2. \/ i \in DOMAIN callbacks /\ callbacks'[i] = callbacks[i]
          \/ callbacks'[i].event = thread[t].event
      BY <2>1, <3>1
    <3>3. QED
      BY <1>4, <2>1, <3>1, <3>2 DEF Events, STOP
  <2>6. QED
    BY <2>2, <2>3, <2>4, <2>5 DEF Next, Reject, PublishOnLoop, StopHere, Stopping,
       ThreadAccept, ThreadFanOut, ThreadCharge, Subscribe, Get, Resume, Abandon, Close
<1>5. QED
  BY <1>3, <1>4 DEF StopsKnown

\* A step after which the same are subscribed, and the others' queues empty.
LEMMA SameMembers ==
  ASSUME BusInv, UNCHANGED <<subs, pc>>,
         \A s \in Subscribers \ Attached : queue'[s] = queue[s] /\ pending'[s] = pending[s],
         \A t \in Threads : thread'[t].doing = "charging" => thread'[t].takers \subseteq Attached
  PROVE  Membership'
<1>1. Membership /\ Attached' = Attached
  BY DEF BusInv, Attached
<1>2. QED
  BY <1>1 DEF Membership

LEMMA MembersOfFanOut ==
  ASSUME BusInv, NEW e \in Events, FanOut(e), UNCHANGED <<pc, thread>>
  PROVE  Membership'
<1>1. \A t \in Threads : thread'[t].doing = "charging" => thread'[t].takers \subseteq Attached
  BY DEF BusInv, Membership
<1>2. CASE UNCHANGED <<busVars, fanned>>
  BY <1>1, <1>2, SameMembers DEF busVars
<1>3. ASSUME NEW K \in SUBSET Attached, Puts(e, K), Charge(e, K) PROVE Membership'
  <2>1. subs' = subs
    BY <1>3 DEF Puts
  <2>2. \A s \in Subscribers \ Attached : queue'[s] = queue[s] /\ pending'[s] = pending[s]
    BY <1>3 DEF Puts, Charge
  <2>3. QED
    BY <1>1, <2>1, <2>2, SameMembers
<1>4. QED
  BY <1>2, <1>3, FanOutPuts

LEMMA MembersOfStop ==
  ASSUME BusInv, NEW to \in SUBSET Subscribers, InjectStop(to), UNCHANGED <<pc, thread>>
  PROVE  Membership'
<1>1. \A t \in Threads : thread'[t].doing = "charging" => thread'[t].takers \subseteq Attached
  BY DEF BusInv, Membership
<1>2. Sentinels(to)
  BY InjectPuts
<1>3. subs' = subs
  BY <1>2 DEF Sentinels
<1>4. \A s \in Subscribers \ Attached : queue'[s] = queue[s] /\ pending'[s] = pending[s]
  BY <1>2 DEF Sentinels
<1>5. QED
  BY <1>1, <1>3, <1>4, SameMembers

LEMMA MembersOfDetach ==
  ASSUME BusInv, NEW s \in Attached, NEW b \in Nat, NEW q \in Seq(Nat), Detach(s, b, q),
         UNCHANGED thread
  PROVE  Membership'
<1>1. TypeOK /\ Membership
  BY DEF BusInv
<1>2. /\ s \in Subscribers /\ LockFree /\ Attached' = Attached \ {s}
      /\ \A i, j \in DOMAIN subs' : subs'[i] = subs'[j] => i = j
      /\ pc' = [pc EXCEPT ![s] = "done"]
      /\ pending' = [pending EXCEPT ![s] = <<>>] /\ queue' = [queue EXCEPT ![s] = <<>>]
  BY <1>1, DetachTypes
<1>3. ASSUME NEW u \in Subscribers
      PROVE  /\ u \in Attached' <=> pc'[u] \in {"waiting", "busy", "left"}
             /\ u \notin Attached' => queue'[u] = <<>> /\ pending'[u] = <<>>
  <2>1. CASE u = s
    BY <1>1, <1>2, <2>1 DEF TypeOK
  <2>2. CASE u # s
    BY <1>1, <1>2, <2>2 DEF TypeOK, Membership
  <2>3. QED
    BY <2>1, <2>2
<1>4. \A t \in Threads : thread'[t].doing # "charging"
  BY <1>2 DEF LockFree
<1>5. QED
  BY <1>2, <1>3, <1>4 DEF Membership

LEMMA MembershipKept ==
  ASSUME BusInv, Next
  PROVE  Membership'
<1>1. TypeOK /\ Membership /\ Attached \in SUBSET Subscribers
  BY DEF BusInv, TypeOK, Attached, ToSet
<1>2. \A t \in Threads : thread[t].doing = "charging" => thread[t].takers \subseteq Attached
  BY <1>1 DEF Membership
<1>3. CASE Reject \/ StopFromThread
  BY <1>2, <1>3, SameMembers DEF Reject, StopFromThread, Stopping, busVars
<1>4. CASE PublishOnLoop
  BY <1>4, LoopRuns, MembersOfFanOut DEF PublishOnLoop
<1>5. CASE StopHere
  BY <1>1, <1>5, MembersOfStop DEF StopHere, Stopping
<1>6. CASE RunCallback
  BY <1>1, <1>6, LoopRuns, MembersOfFanOut, MembersOfStop DEF RunCallback
<1>7. ASSUME NEW t \in Threads,
             ThreadAccept(t) \/ ThreadSchedule(t) \/ ThreadFanOut(t) \/ ThreadCharge(t)
      PROVE  Membership'
  <2>1. thread \in [Threads -> Activity]
    BY <1>1 DEF TypeOK
  <2>2. /\ UNCHANGED <<subs, pc>>
        /\ \A s \in Subscribers \ Attached : queue'[s] = queue[s] /\ pending'[s] = pending[s]
        /\ \A u \in Threads \ {t} : thread'[u] = thread[u]
        /\ thread'[t].doing = "charging" => thread'[t].takers \subseteq Attached
    <3>1. CASE ThreadAccept(t)
      BY <2>1, <3>1 DEF ThreadAccept, busVars, Idle
    <3>2. CASE ThreadSchedule(t)
      <4>1. \A u \in Threads \ {t} : thread'[u] = thread[u]
        BY <2>1, <3>2 DEF ThreadSchedule
      <4>2. thread'[t].doing \in {"idle", "fanning"}
        BY <2>1, <3>2 DEF ThreadSchedule, Idle, Handed, Activity
      <4>3. QED
        BY <3>2, <4>1, <4>2 DEF ThreadSchedule, busVars
    <3>3. CASE ThreadFanOut(t)
      <4>1. pc' = pc
        BY <3>3 DEF ThreadFanOut
      <4>2. CASE thread' = [thread EXCEPT ![t] = Idle] /\ UNCHANGED <<busVars, fanned>>
        BY <2>1, <4>1, <4>2 DEF busVars, Idle
      <4>3. ASSUME NEW K \in SUBSET Attached, Puts(thread[t].event, K), UNCHANGED pending,
                   thread' = [thread EXCEPT ![t].doing = "charging", ![t].takers = K]
            PROVE  /\ UNCHANGED <<subs, pc>>
                   /\ \A s \in Subscribers \ Attached :
                         queue'[s] = queue[s] /\ pending'[s] = pending[s]
                   /\ \A u \in Threads \ {t} : thread'[u] = thread[u]
                   /\ thread'[t].doing = "charging" => thread'[t].takers \subseteq Attached
        <5>1. UNCHANGED subs /\ \A s \in Subscribers \ Attached : queue'[s] = queue[s]
          BY <4>3 DEF Puts
        <5>2. /\ \A u \in Threads \ {t} : thread'[u] = thread[u]
              /\ thread'[t].takers = K
          BY <2>1, <4>3 DEF Activity
        <5>3. QED
          BY <4>1, <4>3, <5>1, <5>2
      <4>4. QED
        BY <3>3, <4>2, <4>3, ThreadFans
    <3>4. CASE ThreadCharge(t)
      <4>1. \A s \in Subscribers \ Attached : pending'[s] = pending[s]
        BY <1>2, <3>4 DEF ThreadCharge, Charge
      <4>2. QED
        BY <2>1, <3>4, <4>1 DEF ThreadCharge, Idle
    <3>5. QED
      BY <1>7, <3>1, <3>2, <3>3, <3>4
  <2>3. \A u \in Threads : thread'[u].doing = "charging" => thread'[u].takers \subseteq Attached
    BY <1>2, <2>2
  <2>4. QED
    BY <2>2, <2>3, SameMembers
<1>8. ASSUME NEW s \in Subscribers, Resume(s) \/ Abandon(s) PROVE Membership'
  <2>1. /\ UNCHANGED <<busVars, thread>> /\ pc[s] = "busy"
        /\ pc' = [pc EXCEPT ![s] = "waiting"] \/ pc' = [pc EXCEPT ![s] = "left"]
    BY <1>8 DEF Resume, Abandon
  <2>2. Attached' = Attached /\ s \in Attached
    BY <1>1, <2>1 DEF busVars, Attached, Membership
  <2>3. ASSUME NEW u \in Subscribers
        PROVE  u \in Attached' <=> pc'[u] \in {"waiting", "busy", "left"}
    <3>1. CASE u = s
      BY <1>1, <2>1, <2>2, <3>1 DEF TypeOK
    <3>2. CASE u # s
      BY <1>1, <2>1, <2>2, <3>2 DEF TypeOK, Membership
    <3>3. QED
      BY <3>1, <3>2
  <2>4. QED
    BY <1>1, <2>1, <2>2, <2>3 DEF Membership, busVars
<1>9. ASSUME NEW s \in Subscribers, Subscribe(s) PROVE Membership'
  <2>1. /\ UNCHANGED <<queue, pending, thread>> /\ pc[s] = "out" /\ LockFree
        /\ subs' = Append(subs, s) /\ pc' = [pc EXCEPT ![s] = "waiting"]
    BY <1>9 DEF Subscribe
  <2>2. subs \in Seq(Subscribers) /\ s \notin Attached
    BY <1>1, <2>1 DEF TypeOK, Membership
  <2>3. Attached' = Attached \cup {s}
    BY <2>1, <2>2 DEF Attached, ToSet
  <2>4. ASSUME NEW i \in DOMAIN subs', NEW j \in DOMAIN subs', subs'[i] = subs'[j]
        PROVE  i = j
    <3>1. \A k \in DOMAIN subs : subs[k] # s
      BY <2>2 DEF Attached, ToSet
    <3>2. ASSUME NEW k \in DOMAIN subs'
          PROVE  \/ k \in DOMAIN subs /\ subs'[k] = subs[k]
                 \/ k = Len(subs) + 1 /\ subs'[k] = s
      <4>1. /\ DOMAIN subs = 1..Len(subs) /\ Len(subs) \in Nat
            /\ DOMAIN subs' = 1..(Len(subs) + 1)
        BY <2>1, <2>2
      <4>2. CASE k = Len(subs) + 1
        BY <2>1, <2>2, <4>2
      <4>3. CASE k # Len(subs) + 1
        BY <2>1, <2>2, <4>1, <4>3
      <4>4. QED
        BY <4>2, <4>3
    <3>3. QED
      BY <1>1, <2>4, <3>1, <3>2 DEF Membership
  <2>5. ASSUME NEW u \in Subscribers
        PROVE  /\ u \in Attached' <=> pc'[u] \in {"waiting", "busy", "left"}
               /\ u \notin Attached' => queue'[u] = <<>> /\ pending'[u] = <<>>
    <3>1. CASE u = s
      BY <1>1, <2>1, <2>3, <3>1 DEF TypeOK
    <3>2. CASE u # s
      BY <1>1, <2>1, <2>3, <3>2 DEF TypeOK, Membership
    <3>3. QED
      BY <3>1, <3>2
  <2>6. QED
    BY <2>1, <2>4, <2>5 DEF Membership, LockFree
<1>10. ASSUME NEW s \in Subscribers, Close(s) PROVE Membership'
  <2>1. s \in Attached /\ queuedBytes \in Nat /\ pending[s] \in Seq(Nat)
    BY <1>1, <1>10 DEF Close, Membership, TypeOK
  <2>2. QED
    BY <1>10, <2>1, MembersOfDetach DEF Close
<1>11. ASSUME NEW s \in Subscribers, Get(s) PROVE Membership'
  <2>1. UNCHANGED thread
    BY <1>11 DEF Get
  <2>2. CASE Head(queue[s]) = STOP
    BY <1>11, <2>1, <2>2, Gets, MembersOfDetach
  <2>3. CASE Head(queue[s]) # STOP
    <3>1. /\ s \in Attached /\ subs' = subs
          /\ queue' = [queue EXCEPT ![s] = Tail(@)] /\ pending' = [pending EXCEPT ![s] = TailOf(@)]
          /\ pc' = [pc EXCEPT ![s] = "busy"]
      BY <1>11, <2>3, Gets
    <3>2. Attached' = Attached
      BY <3>1 DEF Attached
    <3>3. ASSUME NEW u \in Subscribers
          PROVE  /\ u \in Attached' <=> pc'[u] \in {"waiting", "busy", "left"}
                 /\ u \notin Attached' => queue'[u] = <<>> /\ pending'[u] = <<>>
      <4>1. CASE u = s
        BY <1>1, <3>1, <3>2, <4>1 DEF TypeOK
      <4>2. CASE u # s
        BY <1>1, <3>1, <3>2, <4>2 DEF TypeOK, Membership
      <4>3. QED
        BY <4>1, <4>2
    <3>4. QED
      BY <1>1, <2>1, <3>1, <3>2, <3>3 DEF Membership
  <2>4. QED
    BY <2>2, <2>3
<1>12. QED
  BY <1>3, <1>4, <1>5, <1>6, <1>7, <1>8, <1>9, <1>10, <1>11 DEF Next

-----------------------------------------------------------------------------
(* The order of fan-outs                                                   *)

LEMMA FannedGrows ==
  ASSUME fanned \in Seq(Events), NEW e \in Events, fanned' = Append(fanned, e)
  PROVE  LET n == Len(fanned) IN
         /\ n \in Nat /\ n + 1 \in DOMAIN fanned' /\ fanned'[n + 1] = e
         /\ DOMAIN fanned = 1..n
         /\ \A a \in DOMAIN fanned : a \in DOMAIN fanned' /\ fanned'[a] = fanned[a] /\ a < n + 1
         /\ \A a \in DOMAIN fanned' : a \in DOMAIN fanned \/ a = n + 1
<1>1. DOMAIN fanned = 1..Len(fanned) /\ Len(fanned) \in Nat
  OBVIOUS
<1>2. DOMAIN fanned' = 1..(Len(fanned) + 1) /\ fanned'[Len(fanned) + 1] = e
  BY <1>1
<1>3. ASSUME NEW a \in DOMAIN fanned
      PROVE  a \in DOMAIN fanned' /\ fanned'[a] = fanned[a] /\ a < Len(fanned) + 1
  BY <1>1, <1>2
<1>4. ASSUME NEW a \in DOMAIN fanned' PROVE a \in DOMAIN fanned \/ a = Len(fanned) + 1
  BY <1>1, <1>2
<1>5. QED
  BY <1>1, <1>2, <1>3, <1>4

\* What is carried after a step was not fanned out before it.
StillFresh ==
    /\ \A t \in Threads :
          Carries(t)' => thread'[t].event < nextId' /\ ~Fanned(thread'[t].event)
    /\ \A i \in DOMAIN callbacks' :
          callbacks'[i].event # STOP =>
              callbacks'[i].event < nextId' /\ ~Fanned(callbacks'[i].event)

\* A step that fans out an event, if any, which nobody carries any more.
FansOut ==
    \/ UNCHANGED fanned
    \/ \E e \in Events :
          /\ fanned' = Append(fanned, e) /\ ~Fanned(e) /\ e < nextId'
          /\ \A t \in Threads : Carries(t)' => thread'[t].event # e
          /\ \A i \in DOMAIN callbacks' : callbacks'[i].event # e

LEMMA FannedOnceFrom ==
  ASSUME TypeOK, FannedOnce, nextId' \in {nextId, nextId + 1},
         StillFresh, FansOut, CarriedOnce'
  PROVE  FannedOnce'
<1>1. /\ nextId \in Nat /\ fanned \in Seq(Events) /\ \A e \in Events : e \in Nat
      /\ \A a \in DOMAIN fanned : fanned[a] \in Nat /\ fanned[a] < nextId
      /\ \A a, b \in DOMAIN fanned : fanned[a] = fanned[b] => a = b
  <2>1. nextId \in Nat /\ fanned \in Seq(Events)
    BY DEF TypeOK
  <2>2. \A e \in Events : e \in Nat
    BY DEF Events
  <2>3. \A a \in DOMAIN fanned : fanned[a] \in Events
    BY <2>1
  <2>4. QED
    BY <2>1, <2>2, <2>3 DEF FannedOnce
<1>2. CASE UNCHANGED fanned
  <2>1. \A x : Fanned(x)' <=> Fanned(x)
    BY <1>2 DEF Fanned
  <2>2. \A a \in DOMAIN fanned' : fanned'[a] < nextId'
    BY <1>1, <1>2
  <2>3. \A a, b \in DOMAIN fanned' : fanned'[a] = fanned'[b] => a = b
    BY <1>1, <1>2
  <2>4. /\ \A t \in Threads : Carries(t)' => Fresh(thread[t].event)'
        /\ \A i \in DOMAIN callbacks' : callbacks'[i].event # STOP => Fresh(callbacks[i].event)'
    BY <1>2 DEF StillFresh, Fresh, Fanned
  <2>5. QED
    BY <2>2, <2>3, <2>4 DEF FannedOnce
<1>3. ASSUME NEW e \in Events,
             fanned' = Append(fanned, e), ~Fanned(e), e < nextId',
             \A t \in Threads : Carries(t)' => thread'[t].event # e,
             \A i \in DOMAIN callbacks' : callbacks'[i].event # e
      PROVE  FannedOnce'
  <2> DEFINE n == Len(fanned)
  <2>1. /\ n \in Nat /\ n + 1 \in DOMAIN fanned' /\ fanned'[n + 1] = e
        /\ \A a \in DOMAIN fanned : a \in DOMAIN fanned' /\ fanned'[a] = fanned[a] /\ a < n + 1
        /\ \A a \in DOMAIN fanned' : a \in DOMAIN fanned \/ a = n + 1
    BY <1>1, <1>3, FannedGrows
  <2> HIDE DEF n
  <2>2. \A a \in DOMAIN fanned : fanned[a] # e
    BY <1>3 DEF Fanned
  <2>3. \A a, b \in DOMAIN fanned' : fanned'[a] = fanned'[b] => a = b
    BY <1>1, <2>1, <2>2
  <2>4. \A a \in DOMAIN fanned' : fanned'[a] < nextId'
    BY <1>1, <1>3, <2>1
  <2>5. ASSUME NEW x, ~Fanned(x), x # e PROVE ~ \E a \in DOMAIN fanned' : fanned'[a] = x
    BY <2>1, <2>5 DEF Fanned
  <2>6. ASSUME NEW t \in Threads, Carries(t)' PROVE Fresh(thread[t].event)'
    BY <1>3, <2>5, <2>6 DEF StillFresh, Fresh, Fanned
  <2>7. ASSUME NEW i \in DOMAIN callbacks', callbacks'[i].event # STOP
        PROVE  Fresh(callbacks[i].event)'
    BY <1>3, <2>5, <2>7 DEF StillFresh, Fresh, Fanned
  <2>8. QED
    BY <2>3, <2>4, <2>6, <2>7 DEF FannedOnce
<1>4. QED
  BY <1>2, <1>3 DEF FansOut

(* A step after which fewer threads carry their events, and in which at     *)
(* most the oldest callback is gone or a stop is scheduled.                *)
LEMMA CarriersKept ==
  ASSUME TypeOK, OneCharges, FannedOnce, nextId' \in {nextId, nextId + 1},
         \A t \in Threads : Carries(t)' => Carries(t) /\ thread'[t].event = thread[t].event,
         \/ UNCHANGED callbacks
         \/ callbacks # <<>> /\ callbacks' = Tail(callbacks)
         \/ \E c \in Callback : c.event = STOP /\ callbacks' = Append(callbacks, c)
  PROVE  StillFresh /\ CarriedOnce'
<1>1. /\ nextId \in Nat /\ callbacks \in Seq(Callback)
      /\ \A x : Fresh(x) => x < nextId /\ ~Fanned(x)
      /\ \A t \in Threads : Carries(t) => Fresh(thread[t].event) /\ thread[t].event \in Nat
      /\ \A i \in DOMAIN callbacks : callbacks[i].event \in Nat
      /\ \A i \in DOMAIN callbacks : callbacks[i].event # STOP => Fresh(callbacks[i].event)
  <2>1. \A c \in Callback : c.event \in Nat
    BY DEF Callback, Events, STOP
  <2>2. \A c \in Activity : c.event \in Nat
    BY DEF Activity, Events, STOP
  <2> HIDE DEF Callback, Activity
  <2>3. nextId \in Nat /\ callbacks \in Seq(Callback) /\ \A t \in Threads : thread[t] \in Activity
    BY DEF TypeOK
  <2>4. \A i \in DOMAIN callbacks : callbacks[i] \in Callback
    BY <2>3
  <2>5. QED
    BY <2>1, <2>2, <2>3, <2>4 DEF FannedOnce, Fresh
<1>2. \A x \in Nat : x < nextId => x < nextId'
  BY <1>1
<1>3. PICK d \in {0, 1} :
         \A i \in DOMAIN callbacks' : callbacks'[i].event # STOP =>
             i + d \in DOMAIN callbacks /\ callbacks'[i] = callbacks[i + d] /\ i \in Nat
  <2> HIDE DEF Callback
  <2>1. CASE UNCHANGED callbacks
    BY <1>1, <2>1
  <2>2. CASE callbacks # <<>> /\ callbacks' = Tail(callbacks)
    <3>1. \A i \in DOMAIN callbacks' :
            i + 1 \in DOMAIN callbacks /\ callbacks'[i] = callbacks[i + 1]
      BY <2>2, OldestCallback
    <3>2. callbacks' \in Seq(Callback)
      BY <2>2, OldestCallback
    <3>3. QED
      BY <3>1, <3>2
  <2>3. ASSUME NEW c \in Callback, c.event = STOP, callbacks' = Append(callbacks, c)
        PROVE  \A i \in DOMAIN callbacks' : callbacks'[i].event # STOP =>
             i + 0 \in DOMAIN callbacks /\ callbacks'[i] = callbacks[i + 0] /\ i \in Nat
    <3>1. ASSUME NEW i \in DOMAIN callbacks'
          PROVE  /\ i \in Nat
                 /\ \/ i \in DOMAIN callbacks /\ callbacks'[i] = callbacks[i]
                    \/ callbacks'[i] = c
      BY <1>1, <2>3
    <3>2. QED
      BY <2>3, <3>1
  <2>4. QED
    BY <2>1, <2>2, <2>3
<1>4. \A i, j \in Nat : i + d = j + d => i = j
  OBVIOUS
<1>5. StillFresh
  BY <1>1, <1>2, <1>3 DEF StillFresh
<1>6. CarriedOnce'
  <2>1. CarriedOnce /\ STOP \notin Events
    BY DEF FannedOnce, STOP, Events
  <2>2. ASSUME NEW t \in Threads, NEW u \in Threads, Carries(t)', Carries(u)',
               thread'[t].event = thread'[u].event
        PROVE  t = u
    BY <2>1, <2>2 DEF CarriedOnce
  <2>3. ASSUME NEW i \in DOMAIN callbacks', NEW j \in DOMAIN callbacks',
               callbacks'[i].event = callbacks'[j].event, callbacks'[i].event # STOP
        PROVE  i = j
    <3>1. /\ callbacks'[i] = callbacks[i + d] /\ callbacks'[j] = callbacks[j + d]
          /\ i + d \in DOMAIN callbacks /\ j + d \in DOMAIN callbacks /\ i \in Nat /\ j \in Nat
      BY <1>3, <2>3
    <3>2. i + d = j + d
      BY <2>1, <2>3, <3>1 DEF CarriedOnce
    <3>3. QED
      BY <1>4, <3>1, <3>2
  <2>4. ASSUME NEW t \in Threads, NEW i \in DOMAIN callbacks', Carries(t)',
               thread'[t].event = callbacks'[i].event
        PROVE  FALSE
    <3>1. Carries(t) /\ thread[t].event = callbacks'[i].event
      BY <2>4
    <3>2. thread[t].event \in Events
      BY <3>1 DEF OneCharges, Carries
    <3>3. QED
      BY <1>3, <2>1, <3>1, <3>2 DEF CarriedOnce
  <2>5. QED
    BY <2>2, <2>3, <2>4 DEF CarriedOnce
<1>7. QED
  BY <1>5, <1>6

\* What is carried or fanned out has been accepted.
LEMMA Accepted ==
  ASSUME BusInv
  PROVE  /\ nextId \in Nat /\ ~Fanned(nextId)
         /\ \A t \in Threads : Carries(t) =>
               /\ thread[t].event \in Events /\ thread[t].event < nextId
               /\ thread[t].event # nextId /\ ~Fanned(thread[t].event)
         /\ \A i \in DOMAIN callbacks : callbacks[i].event # STOP =>
               /\ callbacks[i].event \in Events /\ callbacks[i].event < nextId
               /\ ~Fanned(callbacks[i].event)
         /\ \A i \in DOMAIN callbacks : callbacks[i].event # nextId
<1>1. TypeOK /\ OneCharges /\ FannedOnce /\ nextId \in Nat /\ nextId # STOP
  BY DEF BusInv, TypeOK, STOP
<1>2. \A e \in Events : e \in Nat /\ (e < nextId => e # nextId)
  BY <1>1 DEF Events
<1>3. ~Fanned(nextId)
  <2>1. fanned \in Seq(Events)
    BY <1>1 DEF TypeOK
  <2>2. ASSUME NEW a \in DOMAIN fanned, fanned[a] = nextId PROVE FALSE
    <3>1. fanned[a] \in Events /\ fanned[a] < nextId
      BY <1>1, <2>1 DEF FannedOnce
    <3>2. QED
      BY <1>2, <2>2, <3>1
  <2>3. QED
    BY <2>2 DEF Fanned
<1>4. ASSUME NEW t \in Threads, Carries(t)
      PROVE  /\ thread[t].event \in Events /\ thread[t].event < nextId
             /\ thread[t].event # nextId /\ ~Fanned(thread[t].event)
  <2>1. thread[t].event \in Events
    BY <1>1, <1>4 DEF OneCharges, Carries
  <2>2. thread[t].event < nextId /\ ~Fanned(thread[t].event)
    BY <1>1, <1>4 DEF FannedOnce, Fresh
  <2>3. QED
    BY <1>2, <2>1, <2>2
<1>5. ASSUME NEW i \in DOMAIN callbacks
      PROVE  /\ callbacks[i].event # STOP =>
                  /\ callbacks[i].event \in Events /\ callbacks[i].event < nextId
                  /\ ~Fanned(callbacks[i].event)
             /\ callbacks[i].event # nextId
  <2>1. callbacks[i].event \in Events \cup {STOP}
    <3>1. \A c \in Callback : c.event \in Events \cup {STOP}
      BY DEF Callback
    <3> HIDE DEF Callback
    <3>2. callbacks[i] \in Callback
      BY <1>1 DEF TypeOK
    <3>3. QED
      BY <3>1, <3>2
  <2>2. callbacks[i].event # STOP => callbacks[i].event < nextId /\ ~Fanned(callbacks[i].event)
    BY <1>1 DEF FannedOnce, Fresh
  <2>3. QED
    BY <1>1, <1>2, <2>1, <2>2
<1>6. QED
  BY <1>1, <1>3, <1>4, <1>5

LEMMA FannedOnceKept ==
  ASSUME BusInv, Next
  PROVE  FannedOnce'
<1>1. /\ TypeOK /\ OneCharges /\ FannedOnce /\ CarriedOnce
      /\ callbacks \in Seq(Callback) /\ thread \in [Threads -> Activity]
  BY DEF BusInv, FannedOnce, TypeOK
<1> DEFINE Calm == \A t \in Threads : Carries(t)' => Carries(t) /\ thread'[t].event = thread[t].event
<1>2. ASSUME UNCHANGED <<fanned, callbacks>>, nextId' \in {nextId, nextId + 1}, Calm
      PROVE  FannedOnce'
  BY <1>1, <1>2, CarriersKept, FannedOnceFrom DEF FansOut
<1>3. \A e \in Events : FanOut(e) => fanned' = fanned \/ fanned' = Append(fanned, e)
  BY FanOutPuts DEF Puts
<1>4. UNCHANGED thread => Calm
  BY DEF Carries
<1>5. CASE Reject
  BY <1>2, <1>4, <1>5 DEF Reject, Accept
<1>6. CASE PublishOnLoop
  <2>1. /\ nextId \in Events /\ nextId' = nextId + 1 /\ FanOut(nextId)
        /\ UNCHANGED <<callbacks, thread>>
    BY <1>6, LoopRuns DEF PublishOnLoop
  <2>2. StillFresh /\ CarriedOnce'
    BY <1>1, <1>4, <2>1, CarriersKept
  <2>3. FansOut
    <3>1. nextId < nextId' /\ ~Fanned(nextId)
      BY <2>1, Accepted
    <3>2. \A t \in Threads : Carries(t)' => thread'[t].event # nextId
      BY <1>4, <2>1, Accepted
    <3>3. \A i \in DOMAIN callbacks' : callbacks'[i].event # nextId
      BY <2>1, Accepted
    <3>4. QED
      BY <1>3, <2>1, <3>1, <3>2, <3>3 DEF FansOut
  <2>4. QED
    BY <1>1, <2>1, <2>2, <2>3, FannedOnceFrom
<1>7. CASE StopHere
  BY <1>2, <1>4, <1>7 DEF StopHere, Stopping
<1>8. CASE StopFromThread
  <2> DEFINE c == [event |-> STOP, to |-> Attached]
  <2>1. c \in Callback /\ c.event = STOP
    BY <1>1 DEF Callback, TypeOK, Attached, ToSet
  <2>2. callbacks' = Append(callbacks, c) /\ UNCHANGED <<fanned, thread, nextId>>
    BY <1>8 DEF StopFromThread, Stopping
  <2> HIDE DEF c, Callback
  <2>3. StillFresh /\ CarriedOnce'
    BY <1>1, <1>4, <2>1, <2>2, CarriersKept
  <2>4. QED
    BY <1>1, <2>2, <2>3, FannedOnceFrom DEF FansOut
<1>9. CASE RunCallback
  <2> DEFINE e == Head(callbacks).event
  <2>1. /\ callbacks # <<>> /\ callbacks' = Tail(callbacks) /\ UNCHANGED <<thread, nextId>>
        /\ \/ e \in Events /\ FanOut(e)
           \/ fanned' = fanned
    BY <1>9, LoopRuns DEF RunCallback
  <2>2. StillFresh /\ CarriedOnce'
    BY <1>1, <1>4, <2>1, CarriersKept
  <2>3. FansOut
    <3>1. CASE fanned' = fanned
      BY <3>1 DEF FansOut
    <3>2. CASE fanned' # fanned
      <4>1. e \in Events /\ fanned' = Append(fanned, e)
        BY <1>3, <2>1, <3>2
      <4>2. /\ 1 \in DOMAIN callbacks /\ e = callbacks[1].event /\ e # STOP
            /\ \A i \in DOMAIN callbacks' :
                  i + 1 \in DOMAIN callbacks /\ i + 1 # 1 /\ callbacks'[i] = callbacks[i + 1]
        <5>1. e # STOP
          BY <4>1 DEF Events, STOP
        <5>2. QED
          BY <1>1, <2>1, <5>1, OldestCallback
      <4>3. e < nextId' /\ ~Fanned(e)
        BY <2>1, <4>2, Accepted
      <4>4. \A t \in Threads : Carries(t)' => thread'[t].event # e
        BY <1>1, <1>4, <2>1, <4>2 DEF CarriedOnce
      <4>5. \A i \in DOMAIN callbacks' : callbacks'[i].event # e
        BY <1>1, <4>2 DEF CarriedOnce
      <4>6. QED
        BY <4>1, <4>3, <4>4, <4>5 DEF FansOut
    <3>3. QED
      BY <3>1, <3>2
  <2>4. QED
    BY <1>1, <2>1, <2>2, <2>3, FannedOnceFrom
<1>10. ASSUME NEW t \in Threads, ThreadAccept(t) PROVE FannedOnce'
  <2>1. /\ nextId' = nextId + 1 /\ UNCHANGED <<fanned, callbacks>>
        /\ \A u \in Threads \ {t} : thread'[u] = thread[u]
        /\ thread'[t].event = nextId
    BY <1>1, <1>10 DEF ThreadAccept, Accept, Idle
  <2>2. nextId \in Nat /\ nextId < nextId' /\ \A x \in Events : x < nextId => x < nextId'
    BY <2>1, Accepted DEF Events
  <2>3. ASSUME NEW u \in Threads, Carries(u)'
        PROVE  \/ u = t /\ thread'[u].event = nextId
               \/ u # t /\ Carries(u) /\ thread'[u].event = thread[u].event
    BY <2>1, <2>3 DEF Carries
  <2>4. StillFresh
    BY <2>1, <2>2, <2>3, Accepted DEF StillFresh
  <2>5. CarriedOnce'
    <3>1. \A u, v \in Threads :
            Carries(u)' /\ Carries(v)' /\ thread'[u].event = thread'[v].event => u = v
      BY <1>1, <2>3, Accepted DEF CarriedOnce
    <3>2. \A u \in Threads, i \in DOMAIN callbacks' :
            Carries(u)' => thread'[u].event # callbacks'[i].event
      BY <1>1, <2>1, <2>3, Accepted DEF CarriedOnce
    <3>3. QED
      BY <1>1, <2>1, <3>1, <3>2 DEF CarriedOnce
  <2>6. QED
    BY <1>1, <2>1, <2>4, <2>5, FannedOnceFrom DEF FansOut
<1>11. ASSUME NEW t \in Threads, ThreadSchedule(t) PROVE FannedOnce'
  <2>1. /\ UNCHANGED <<fanned, nextId>>
        /\ \A u \in Threads \ {t} : thread'[u] = thread[u]
        /\ thread[t].doing = "accepted"
    BY <1>1, <1>11 DEF ThreadSchedule
  <2>2. CASE UNCHANGED callbacks
    <3>1. \/ thread'[t].doing = "idle"
          \/ thread'[t].doing = "fanning" /\ thread'[t].event = thread[t].event
      BY <1>1, <1>11 DEF ThreadSchedule, Idle, Handed, Activity
    <3>2. Calm
      BY <2>1, <3>1 DEF Carries
    <3>3. QED
      BY <1>2, <2>1, <2>2, <3>2
  <2>3. CASE callbacks' # callbacks
    <3> DEFINE e == thread[t].event
               c == [event |-> e, to |-> {}]
    <3>1. callbacks' = Append(callbacks, c) /\ thread'[t].doing = "idle"
      BY <1>1, <1>11, <2>3 DEF ThreadSchedule, Idle, Handed
    <3>2. /\ Carries(t) /\ e \in Events /\ e < nextId /\ ~Fanned(e) /\ e # STOP
          /\ \A u \in Threads : Carries(u)' => u # t /\ Carries(u) /\ thread'[u] = thread[u]
      <4>1. Carries(t)
        BY <2>1 DEF Carries
      <4>2. e \in Events /\ e < nextId /\ ~Fanned(e)
        BY <4>1, Accepted
      <4>3. e # STOP
        BY <4>2 DEF Events, STOP
      <4>4. \A u \in Threads : Carries(u)' => u # t /\ Carries(u) /\ thread'[u] = thread[u]
        BY <2>1, <3>1 DEF Carries
      <4>5. QED
        BY <4>1, <4>2, <4>3, <4>4
    <3>3. c.event = e /\ c \in Callback
      BY <3>2 DEF Callback
    <3> HIDE DEF c, e
    <3>4. ASSUME NEW i \in DOMAIN callbacks'
          PROVE  \/ i \in DOMAIN callbacks /\ callbacks'[i] = callbacks[i]
                 \/ i = Len(callbacks) + 1 /\ callbacks'[i] = c
      <4> HIDE DEF Callback
      <4>1. DOMAIN callbacks = 1..Len(callbacks) /\ Len(callbacks) \in Nat
        BY <1>1
      <4>2. DOMAIN callbacks' = 1..(Len(callbacks) + 1)
        BY <1>1, <3>1, <3>3
      <4>3. QED
        BY <1>1, <3>1, <3>3, <4>1, <4>2
    <3>5. /\ \A u \in Threads : Carries(u) => u = t \/ thread[u].event # e
          /\ \A i \in DOMAIN callbacks : callbacks[i].event # e
      BY <1>1, <3>2 DEF CarriedOnce, e
    <3>6. StillFresh
      BY <2>1, <3>2, <3>3, <3>4, Accepted DEF StillFresh
    <3>7. CarriedOnce'
      <4>1. \A u, v \in Threads :
              Carries(u)' /\ Carries(v)' /\ thread'[u].event = thread'[v].event => u = v
        BY <1>1, <3>2 DEF CarriedOnce
      <4>2. \A u \in Threads, i \in DOMAIN callbacks' :
              Carries(u)' => thread'[u].event # callbacks'[i].event
        BY <1>1, <3>2, <3>3, <3>4, <3>5 DEF CarriedOnce
      <4>3. \A i, j \in DOMAIN callbacks' :
              callbacks'[i].event = callbacks'[j].event /\ callbacks'[i].event # STOP => i = j
        BY <1>1, <3>3, <3>4, <3>5 DEF CarriedOnce
      <4>4. QED
        BY <4>1, <4>2, <4>3 DEF CarriedOnce
    <3>8. QED
      BY <1>1, <2>1, <3>6, <3>7, FannedOnceFrom DEF FansOut
  <2>4. QED
    BY <2>2, <2>3
<1>12. ASSUME NEW t \in Threads, ThreadFanOut(t) PROVE FannedOnce'
  <2> DEFINE e == thread[t].event
  <2>1. UNCHANGED <<callbacks, nextId>> /\ thread[t].doing = "fanning"
    BY <1>12 DEF ThreadFanOut
  <2>2. /\ e \in Events /\ (fanned' = fanned \/ fanned' = Append(fanned, e))
        /\ \A u \in Threads \ {t} : thread'[u] = thread[u]
        /\ thread'[t].doing \in {"idle", "charging"}
    <3>1. ASSUME NEW K, thread' = [thread EXCEPT ![t].doing = "charging", ![t].takers = K]
          PROVE  thread'[t].doing = "charging" /\ \A u \in Threads \ {t} : thread'[u] = thread[u]
      BY <1>1, <3>1 DEF Activity
    <3>2. ASSUME thread' = [thread EXCEPT ![t] = Idle]
          PROVE  thread'[t].doing = "idle" /\ \A u \in Threads \ {t} : thread'[u] = thread[u]
      BY <1>1, <3>2 DEF Idle
    <3>3. QED
      BY <1>12, <3>1, <3>2, ThreadFans DEF Puts
  <2>3. Calm /\ \A u \in Threads : Carries(u)' => u # t
    BY <2>2 DEF Carries
  <2>4. StillFresh /\ CarriedOnce'
    BY <1>1, <2>1, <2>3, CarriersKept
  <2>5. FansOut
    <3>1. Carries(t)
      BY <2>1 DEF Carries
    <3>2. /\ e < nextId' /\ ~Fanned(e)
          /\ \A u \in Threads : Carries(u)' => thread'[u].event # e
          /\ \A i \in DOMAIN callbacks' : callbacks'[i].event # e
      BY <1>1, <2>1, <2>3, <3>1, Accepted DEF CarriedOnce
    <3>3. QED
      BY <2>2, <3>2 DEF FansOut
  <2>6. QED
    BY <1>1, <2>1, <2>4, <2>5, FannedOnceFrom
<1>13. ASSUME NEW t \in Threads, ThreadCharge(t) PROVE FannedOnce'
  <2>1. Calm
    BY <1>1, <1>13 DEF ThreadCharge, Carries, Idle
  <2>2. QED
    BY <1>2, <1>13, <2>1 DEF ThreadCharge
<1>14. ASSUME NEW s \in Subscribers,
              Subscribe(s) \/ Get(s) \/ Resume(s) \/ Abandon(s) \/ Close(s)
       PROVE  FannedOnce'
  <2>1. UNCHANGED <<fanned, callbacks, thread, nextId>>
    BY <1>14 DEF Subscribe, Get, Resume, Abandon, Close
  <2>2. QED
    BY <1>2, <1>4, <2>1
<1>15. QED
  BY <1>5, <1>6, <1>7, <1>8, <1>9, <1>10, <1>11, <1>12, <1>13, <1>14 DEF Next

\* More events fanned out leave the others in order, and a new one comes last.
LEMMA OrderGrows ==
  ASSUME NEW f \in Seq(Events), NEW e \in Events
  PROVE  LET g == Append(f, e) IN
         /\ \A x : Among(f, x) => Among(g, x) /\ Before(g, x, e)
         /\ \A x, y : Before(f, x, y) => Before(g, x, y)
         /\ Among(g, e)
<1> DEFINE g == Append(f, e)
           n == Len(f)
<1>1. /\ n \in Nat /\ DOMAIN f = 1..n /\ DOMAIN g = 1..(n + 1)
      /\ g[n + 1] = e /\ \A a \in 1..n : g[a] = f[a]
  OBVIOUS
<1>2. /\ \A a \in DOMAIN f : a \in DOMAIN g /\ g[a] = f[a] /\ a < n + 1
      /\ n + 1 \in DOMAIN g
  BY <1>1
<1> HIDE DEF g, n
<1>3. Among(g, e)
  BY <1>1, <1>2 DEF Among
<1>4. ASSUME NEW x, Among(f, x) PROVE Among(g, x) /\ Before(g, x, e)
  BY <1>1, <1>2, <1>4 DEF Among, Before
<1>5. ASSUME NEW x, NEW y, Before(f, x, y) PROVE Before(g, x, y)
  BY <1>2, <1>5 DEF Before
<1>6. QED
  BY <1>3, <1>4, <1>5 DEF g

\* The places of a sequence that got one more element.
LEMMA AppendPlaces ==
  ASSUME NEW S, NEW q \in Seq(S), NEW x \in S
  PROVE  /\ Len(q) \in Nat /\ DOMAIN q = 1..Len(q) /\ DOMAIN Append(q, x) = 1..(Len(q) + 1)
         /\ \A i \in DOMAIN Append(q, x) :
               \/ i \in DOMAIN q /\ Append(q, x)[i] = q[i]
               \/ i = Len(q) + 1 /\ Append(q, x)[i] = x
<1>1. Len(q) \in Nat /\ DOMAIN q = 1..Len(q) /\ DOMAIN Append(q, x) = 1..(Len(q) + 1)
  OBVIOUS
<1>2. ASSUME NEW i \in DOMAIN Append(q, x)
      PROVE  \/ i \in DOMAIN q /\ Append(q, x)[i] = q[i]
             \/ i = Len(q) + 1 /\ Append(q, x)[i] = x
  <2>1. CASE i = Len(q) + 1
    BY <2>1
  <2>2. CASE i # Len(q) + 1
    BY <1>1, <2>2
  <2>3. QED
    BY <2>1, <2>2
<1>3. QED
  BY <1>1, <1>2

LEMMA OrderMoves ==
  ASSUME NEW f \in Seq(Events), NEW d \in Seq(Events), NEW q \in Seq(Events \cup {STOP}),
         OneAfterTheOther(f, d, q)
  PROVE  /\ OneAfterTheOther(f, d, <<>>)
         /\ OneAfterTheOther(f, d, Append(q, STOP))
         /\ q # <<>> => /\ OneAfterTheOther(f, d, Tail(q))
                        /\ Head(q) # STOP => OneAfterTheOther(f, Append(d, Head(q)), Tail(q))
         /\ \A e \in Events : /\ OneAfterTheOther(Append(f, e), d, q)
                              /\ OneAfterTheOther(Append(f, e), d, Append(q, e))
<1>1. InOrder(f, d) /\ InOrder(f, q)
  BY DEF OneAfterTheOther
<1>2. OneAfterTheOther(f, d, <<>>)
  BY <1>1 DEF OneAfterTheOther, InOrder
<1>3. /\ DOMAIN q = 1..Len(q) /\ Len(q) \in Nat
      /\ DOMAIN d = 1..Len(d) /\ Len(d) \in Nat
      /\ \A i \in DOMAIN d : d[i] # STOP
  <2>1. \A e \in Events : e # STOP
    BY DEF Events, STOP
  <2>2. QED
    BY <2>1
<1>4. OneAfterTheOther(f, d, Append(q, STOP))
  <2> DEFINE r == Append(q, STOP)
  <2>1. \A i \in DOMAIN r : r[i] # STOP => i \in DOMAIN q /\ r[i] = q[i]
    BY <1>3
  <2> HIDE DEF r
  <2>2. InOrder(f, r)
    BY <1>1, <2>1 DEF InOrder
  <2>3. \A i \in DOMAIN d, j \in DOMAIN r : r[j] # STOP => Before(f, d[i], r[j])
    BY <2>1 DEF OneAfterTheOther
  <2>4. OneAfterTheOther(f, d, r)
    BY <1>1, <2>2, <2>3 DEF OneAfterTheOther
  <2>5. QED
    BY <2>4 DEF r
<1>5. ASSUME q # <<>>
      PROVE  /\ OneAfterTheOther(f, d, Tail(q))
             /\ Head(q) # STOP => OneAfterTheOther(f, Append(d, Head(q)), Tail(q))
  <2> DEFINE r == Tail(q)
             x == Head(q)
             c == Append(d, x)
  <2> HIDE DEF c
  <2>1. /\ x = q[1] /\ 1 \in DOMAIN q
        /\ \A i \in DOMAIN r : i + 1 \in DOMAIN q /\ 1 < i + 1 /\ r[i] = q[i + 1]
        /\ \A i, j \in DOMAIN r : i < j => i + 1 < j + 1
    BY <1>3, <1>5
  <2> HIDE DEF r, x
  <2>2. InOrder(f, r)
    BY <1>1, <2>1 DEF InOrder
  <2>3. \A i \in DOMAIN d, j \in DOMAIN r : r[j] # STOP => Before(f, d[i], r[j])
    BY <2>1 DEF OneAfterTheOther
  <2>4. OneAfterTheOther(f, d, r)
    BY <1>1, <2>2, <2>3 DEF OneAfterTheOther
  <2>5. ASSUME x # STOP PROVE OneAfterTheOther(f, c, r)
    <3>1. x \in Events
      BY <1>3, <2>1, <2>5
    <3>2. \A i \in DOMAIN c : (i \in DOMAIN d /\ c[i] = d[i]) \/ (i = Len(d) + 1 /\ c[i] = x)
      <4>1. d \in Seq(Events)
        OBVIOUS
      <4>2. \A i \in DOMAIN Append(d, x) :
               \/ i \in DOMAIN d /\ Append(d, x)[i] = d[i]
               \/ i = Len(d) + 1 /\ Append(d, x)[i] = x
        BY <3>1, <4>1, AppendPlaces, Zenon
      <4>3. QED
        BY <4>2 DEF c
    <3>3. \A i, j \in DOMAIN c : i < j => i \in DOMAIN d /\ i # Len(d) + 1
      <4>1. DOMAIN c = 1..(Len(d) + 1)
        BY <3>1, AppendPlaces DEF c
      <4>2. QED
        BY <1>3, <4>1
    <3>4. /\ Among(f, x)
          /\ \A i \in DOMAIN d : Before(f, d[i], x)
          /\ \A j \in DOMAIN r : r[j] # STOP => Before(f, x, r[j])
      BY <1>1, <2>1, <2>5 DEF OneAfterTheOther, InOrder
    <3>5. \A i \in DOMAIN c : c[i] # STOP => Among(f, c[i])
      BY <1>1, <3>2, <3>4 DEF InOrder
    <3>6. ASSUME NEW i \in DOMAIN c, NEW j \in DOMAIN c, i < j, c[i] # STOP, c[j] # STOP
          PROVE  Before(f, c[i], c[j])
      <4>1. i \in DOMAIN d /\ c[i] = d[i]
        BY <3>2, <3>3, <3>6
      <4>2. QED
        BY <1>1, <3>2, <3>4, <3>6, <4>1 DEF InOrder
    <3>7. \A i \in DOMAIN c, j \in DOMAIN r : r[j] # STOP => Before(f, c[i], r[j])
      BY <2>3, <3>2, <3>4
    <3>8. QED
      BY <2>2, <3>5, <3>6, <3>7 DEF OneAfterTheOther, InOrder
  <2>6. QED
    BY <2>4, <2>5 DEF r, x, c
<1>6. ASSUME NEW e \in Events
      PROVE  /\ OneAfterTheOther(Append(f, e), d, q)
             /\ OneAfterTheOther(Append(f, e), d, Append(q, e))
  <2> DEFINE g == Append(f, e)
             r == Append(q, e)
  <2>1. /\ \A x : Among(f, x) => Among(g, x) /\ Before(g, x, e)
        /\ \A x, y : Before(f, x, y) => Before(g, x, y)
        /\ Among(g, e)
    BY OrderGrows
  <2>2. \A i \in DOMAIN r : (i \in DOMAIN q /\ r[i] = q[i]) \/ (i = Len(q) + 1 /\ r[i] = e)
    <3>1. e \in Events \cup {STOP} /\ q \in Seq(Events \cup {STOP})
      OBVIOUS
    <3>2. \A i \in DOMAIN Append(q, e) :
               \/ i \in DOMAIN q /\ Append(q, e)[i] = q[i]
               \/ i = Len(q) + 1 /\ Append(q, e)[i] = e
      BY <3>1, AppendPlaces, Zenon
    <3>3. QED
      BY <3>2
  <2>3. \A i, j \in DOMAIN r : i < j => i \in DOMAIN q /\ i # Len(q) + 1
    BY <1>3
  <2> HIDE DEF g, r
  <2>4. InOrder(g, d) /\ InOrder(g, q)
    BY <1>1, <2>1 DEF InOrder
  <2>5. /\ \A i \in DOMAIN d, j \in DOMAIN q : q[j] # STOP => Before(g, d[i], q[j])
        /\ \A i \in DOMAIN d : Before(g, d[i], e)
    BY <1>1, <1>3, <2>1 DEF OneAfterTheOther, InOrder
  <2>6. OneAfterTheOther(g, d, q)
    BY <2>4, <2>5 DEF OneAfterTheOther
  <2>7. \A i \in DOMAIN r : r[i] # STOP => Among(g, r[i])
    BY <2>1, <2>2, <2>4 DEF InOrder
  <2>8. ASSUME NEW i \in DOMAIN r, NEW j \in DOMAIN r, i < j, r[i] # STOP, r[j] # STOP
        PROVE  Before(g, r[i], r[j])
    <3>1. i \in DOMAIN q /\ r[i] = q[i] /\ Before(g, q[i], e)
      <4>1. i \in DOMAIN q /\ r[i] = q[i]
        BY <2>2, <2>3, <2>8
      <4>2. QED
        BY <1>1, <2>1, <2>8, <4>1 DEF InOrder
    <3>2. QED
      BY <2>2, <2>4, <2>8, <3>1 DEF InOrder
  <2>9. \A i \in DOMAIN d, j \in DOMAIN r : r[j] # STOP => Before(g, d[i], r[j])
    BY <2>2, <2>5
  <2>10. OneAfterTheOther(g, d, r)
    BY <2>4, <2>7, <2>8, <2>9 DEF OneAfterTheOther, InOrder
  <2>11. QED
    BY <2>6, <2>10 DEF g, r
<1>7. QED
  BY <1>2, <1>4, <1>5, <1>6

\* Every step leaves the events fanned out as they are or adds one.
LEMMA FansOne ==
  ASSUME BusInv, Next
  PROVE  fanned' = fanned \/ \E e \in Events : fanned' = Append(fanned, e)
<1>1. ASSUME NEW e \in Events, FanOut(e)
      PROVE  fanned' = fanned \/ fanned' = Append(fanned, e)
  BY <1>1, FanOutPuts DEF Puts
<1>2. CASE PublishOnLoop \/ RunCallback
  BY <1>1, <1>2, LoopRuns
<1>3. ASSUME NEW t \in Threads, ThreadFanOut(t)
      PROVE  fanned' = fanned \/ \E e \in Events : fanned' = Append(fanned, e)
  BY <1>3, ThreadFans DEF Puts
<1>4. QED
  BY <1>2, <1>3 DEF Next, Reject, StopHere, StopFromThread, Stopping, ThreadAccept,
     ThreadSchedule, ThreadCharge, Subscribe, Get, Resume, Abandon, Close

LEMMA OrderedKept ==
  ASSUME BusInv, Next
  PROVE  Ordered'
<1>1. ASSUME NEW s \in Subscribers
      PROVE  OneAfterTheOther(fanned', delivered'[s], queue'[s])
  <2> DEFINE f == fanned
             g == fanned'
             d == delivered[s]
             q == queue[s]
  <2>1. /\ f \in Seq(Events) /\ d \in Seq(Events) /\ q \in Seq(Events \cup {STOP})
        /\ OneAfterTheOther(f, d, q)
    BY DEF BusInv, TypeOK, Ordered
  <2>2. g \in Seq(Events) /\ OneAfterTheOther(g, d, q)
    <3>1. g \in Seq(Events)
      BY BusTypeKept DEF BusType
    <3>2. g = f \/ \E e \in Events : g = Append(f, e)
      BY FansOne
    <3>3. QED
      BY <2>1, <3>1, <3>2, OrderMoves
  <2>3. Moves(s)
    BY StepsMove DEF AllMove
  <2>4. q # <<>> => Tail(q) \in Seq(Events \cup {STOP})
    BY <2>1, SequenceTypes
  <2> HIDE DEF g
  <2>5. ASSUME NEW e \in Events, g = Append(f, e) PROVE OneAfterTheOther(g, d, Append(q, e))
    BY <2>1, <2>5, OrderMoves
  <2>6. /\ OneAfterTheOther(g, d, <<>>) /\ OneAfterTheOther(g, d, Append(q, STOP))
        /\ q # <<>> => /\ OneAfterTheOther(g, d, Append(Tail(q), STOP))
                       /\ Head(q) # STOP => OneAfterTheOther(g, Append(d, Head(q)), Tail(q))
    <3>1. q # <<>> => OneAfterTheOther(g, d, Tail(q))
      BY <2>1, <2>2, OrderMoves
    <3>2. q # <<>> => OneAfterTheOther(g, d, Append(Tail(q), STOP))
      BY <2>1, <2>2, <2>4, <3>1, OrderMoves
    <3>3. QED
      BY <2>1, <2>2, <3>2, OrderMoves
  <2>7. OneAfterTheOther(g, delivered'[s], queue'[s])
    BY <2>2, <2>3, <2>5, <2>6 DEF Moves, g
  <2>8. QED
    BY <2>7 DEF g
<1>2. QED
  BY <1>1 DEF Ordered

-----------------------------------------------------------------------------
(* The records of the queues                                               *)

\* What a record is worth to a queue that grows, shrinks or is given up.
LEMMA FitsMoves ==
  ASSUME NEW q \in Seq(Events \cup {STOP}), NEW p \in Seq(Nat), Fits(q, p)
  PROVE  /\ Fits(<<>>, <<>>)
         /\ Fits(Append(q, STOP), p)
         /\ q # <<>> => Fits(Tail(q), p) /\ Fits(Tail(q), TailOf(p))
         /\ (\A i \in DOMAIN q : q[i] # STOP) =>
               \A e \in Events : Fits(Append(q, e), Append(p, SizeOf[e]))
<1>1. /\ Len(q) \in Nat /\ DOMAIN q = 1..Len(q)
      /\ Len(p) \in Nat /\ DOMAIN p = 1..Len(p)
  OBVIOUS
<1>2. PICK n \in 0..Len(p) :
         /\ n \in 0..Len(q) /\ \A i \in DOMAIN q : q[i] = STOP <=> i > n
         /\ \A i \in 1..n : p[(Len(p) - n) + i] = SizeOf[q[i]]
  BY DEF Fits, Split
<1>3. Fits(<<>>, <<>>)
  <2>1. 0 \in 0..Len(<<>>) /\ 1..0 = {} /\ DOMAIN <<>> = {}
    OBVIOUS
  <2>2. QED
    BY <2>1 DEF Fits, Split
<1>4. Fits(Append(q, STOP), p)
  <2> DEFINE r == Append(q, STOP)
  <2>1. Len(r) = Len(q) + 1 /\ DOMAIN r = 1..(Len(q) + 1)
    BY <1>1
  <2>2. r[Len(q) + 1] = STOP /\ \A i \in DOMAIN q : r[i] = q[i]
    BY <1>1
  <2> HIDE DEF r
  <2>3. ASSUME NEW i \in DOMAIN r PROVE r[i] = STOP <=> i > n
    <3>1. CASE i \in DOMAIN q
      BY <1>2, <2>2, <3>1
    <3>2. CASE i \notin DOMAIN q
      <4>1. i = Len(q) + 1 /\ i > n
        BY <1>1, <1>2, <2>1, <3>2
      <4>2. QED
        BY <2>2, <4>1
    <3>3. QED
      BY <3>1, <3>2
  <2>4. n \in 0..Len(r) /\ \A i \in 1..n : i \in DOMAIN q
    BY <1>1, <1>2, <2>1
  <2>5. Split(r, n)
    BY <2>3, <2>4 DEF Split
  <2>6. \A i \in 1..n : p[(Len(p) - n) + i] = SizeOf[r[i]]
    BY <1>2, <2>2, <2>4
  <2>7. Fits(r, p)
    BY <1>2, <2>5, <2>6 DEF Fits
  <2>8. QED
    BY <2>7 DEF r
<1>5. ASSUME q # <<>> PROVE Fits(Tail(q), p) /\ Fits(Tail(q), TailOf(p))
  <2> DEFINE r == Tail(q)
             m == IF n = 0 THEN 0 ELSE n - 1
  <2>1. Len(q) # 0
    BY <1>5
  <2>2. /\ Len(r) = Len(q) - 1 /\ DOMAIN r = 1..(Len(q) - 1)
        /\ \A i \in DOMAIN r : r[i] = q[i + 1] /\ i + 1 \in DOMAIN q
    BY <1>1, <1>5, <2>1
  <2> HIDE DEF r
  <2>3. m \in 0..Len(p) /\ m \in 0..Len(r) /\ \A i \in DOMAIN r : i + 1 > n <=> i > m
    BY <1>1, <1>2, <2>1, <2>2
  <2>4. Split(r, m)
    BY <1>2, <2>2, <2>3 DEF Split
  <2>5. ASSUME NEW i \in 1..m
        PROVE  /\ p[(Len(p) - m) + i] = SizeOf[r[i]]
               /\ i \in Nat /\ n = m + 1
    <3>1. /\ n = m + 1 /\ i + 1 \in 1..n /\ i \in DOMAIN r /\ i \in Nat
          /\ (Len(p) - m) + i = (Len(p) - n) + (i + 1)
      BY <1>1, <1>2, <2>2
    <3>2. p[(Len(p) - n) + (i + 1)] = SizeOf[q[i + 1]]
      BY <1>2, <3>1
    <3>3. QED
      BY <2>2, <3>1, <3>2
  <2>6. Fits(r, p)
    BY <2>3, <2>4, <2>5 DEF Fits
  <2>7. Fits(r, TailOf(p))
    <3>1. CASE p = <<>>
      BY <2>6, <3>1 DEF TailOf
    <3>2. CASE p # <<>>
      <4> DEFINE u == Tail(p)
      <4>1. Len(p) # 0
        BY <3>2
      <4>2. /\ Len(u) = Len(p) - 1 /\ Len(u) \in Nat
            /\ \A i \in 1..(Len(p) - 1) : u[i] = p[i + 1]
        BY <1>1, <3>2, <4>1
      <4> HIDE DEF u
      <4>3. m \in 0..Len(u)
        BY <1>1, <1>2, <4>1, <4>2
      <4>4. ASSUME NEW i \in 1..m PROVE u[(Len(u) - m) + i] = SizeOf[r[i]]
        <5>1. i \in Nat /\ n = m + 1
          BY <2>5
        <5>2. /\ (Len(u) - m) + i \in 1..(Len(p) - 1)
              /\ ((Len(u) - m) + i) + 1 = (Len(p) - m) + i
          BY <1>1, <2>3, <4>2, <4>3, <5>1
        <5>3. QED
          BY <2>5, <4>2, <5>2
      <4>5. Fits(r, u)
        BY <2>4, <4>3, <4>4 DEF Fits
      <4>6. QED
        BY <3>2, <4>5 DEF TailOf, u
    <3>3. QED
      BY <3>1, <3>2
  <2>8. QED
    BY <2>6, <2>7 DEF r
<1>6. ASSUME \A i \in DOMAIN q : q[i] # STOP, NEW e \in Events
      PROVE  Fits(Append(q, e), Append(p, SizeOf[e]))
  <2> DEFINE r == Append(q, e)
             x == SizeOf[e]
             u == Append(p, x)
  <2>1. e # STOP /\ x \in Nat /\ n = Len(q)
    <3>1. e # STOP /\ x \in Nat
      BY BusAssumption DEF Events, STOP
    <3>2. n >= Len(q)
      <4>1. Len(q) # 0 => Len(q) \in DOMAIN q
        BY <1>1
      <4>2. Len(q) # 0 => ~(Len(q) > n)
        BY <1>2, <1>6, <4>1
      <4>3. QED
        BY <1>1, <1>2, <4>2
    <3>3. n \in 0..Len(q)
      BY <1>2
    <3>4. n = Len(q)
      <4>1. \A k, l \in Nat : k >= l /\ k \in 0..l => k = l
        OBVIOUS
      <4>2. n \in Nat /\ Len(q) \in Nat
        BY <1>1, <3>3
      <4>3. QED
        BY <3>2, <3>3, <4>1, <4>2
    <3>5. QED
      BY <3>1, <3>4
  <2> HIDE DEF x
  <2>2. /\ Len(r) = n + 1 /\ DOMAIN r = 1..(n + 1) /\ r[n + 1] = e
        /\ \A i \in 1..n : r[i] = q[i] /\ i \in DOMAIN q
    BY <1>1, <2>1
  <2>3. /\ Len(u) = Len(p) + 1 /\ u[Len(p) + 1] = x
        /\ \A i \in 1..Len(p) : u[i] = p[i]
    BY <1>1, <2>1
  <2> HIDE DEF r, u
  <2>4. ASSUME NEW i \in 1..(n + 1)
        PROVE  /\ r[i] # STOP /\ ~(i > n + 1)
               /\ u[(Len(u) - (n + 1)) + i] = SizeOf[r[i]]
    <3>1. CASE i = n + 1
      <4>1. (Len(u) - (n + 1)) + i = Len(p) + 1 /\ ~(i > n + 1)
        BY <1>1, <1>2, <2>3, <3>1
      <4>2. QED
        BY <2>1, <2>2, <2>3, <3>1, <4>1 DEF x
    <3>2. CASE i # n + 1
      <4>1. /\ i \in 1..n /\ ~(i > n + 1)
            /\ (Len(u) - (n + 1)) + i = (Len(p) - n) + i
            /\ (Len(p) - n) + i \in 1..Len(p)
        <5>1. Len(p) \in Nat /\ n \in 0..Len(p) /\ Len(u) = Len(p) + 1
          BY <1>1, <2>3
        <5>2. i \in 1..n /\ ~(i > n + 1)
          BY <3>2, <5>1
        <5>3. (Len(u) - (n + 1)) + i = (Len(p) - n) + i
          BY <5>1, <5>2
        <5>4. (Len(p) - n) + i \in 1..Len(p)
          BY <5>1, <5>2
        <5>5. QED
          BY <5>2, <5>3, <5>4
      <4>2. r[i] = q[i] /\ q[i] # STOP
        BY <1>6, <2>2, <4>1
      <4>3. u[(Len(u) - (n + 1)) + i] = p[(Len(p) - n) + i]
        BY <2>3, <4>1
      <4>4. p[(Len(p) - n) + i] = SizeOf[q[i]]
        BY <1>2, <4>1
      <4>5. QED
        BY <4>1, <4>2, <4>3, <4>4
    <3>3. QED
      BY <3>1, <3>2
  <2>5. n + 1 \in 0..Len(u) /\ n + 1 \in 0..Len(r)
    BY <1>1, <1>2, <2>2, <2>3
  <2>6. Split(r, n + 1)
    BY <2>2, <2>4, <2>5 DEF Split
  <2>7. Fits(r, u)
    BY <2>4, <2>5, <2>6 DEF Fits
  <2>8. QED
    BY <2>7 DEF r, u, x
<1>7. QED
  BY <1>3, <1>4, <1>5, <1>6

\* Outside the lock the record of a queue is its pending sizes.
LEMMA FreeRecords ==
  /\ LockFree => \A s : Recorded(s) = pending[s]
  /\ LockFree' => \A s : Recorded(s)' = pending'[s]
<1>1. LockFree => \A s : Recorded(s) = pending[s]
  BY DEF LockFree, Recorded, Owed
<1>2. LockFree' => \A s : Recorded(s)' = pending'[s]
  BY DEF LockFree, Recorded, Owed
<1>3. QED
  BY <1>1, <1>2

\* A step that leaves alone the thread that has the lock.
LEMMA SameRecords ==
  ASSUME \A t \in Threads : thread[t].doing = "charging" <=> thread'[t].doing = "charging",
         \A t \in Threads : thread[t].doing = "charging" => thread'[t] = thread[t]
  PROVE  \A s : pending'[s] = pending[s] => Recorded(s)' = Recorded(s)
<1>1. \A s : Owed(s)' = Owed(s)
  BY DEF Owed
<1>2. ASSUME NEW s, pending'[s] = pending[s] PROVE Recorded(s)' = Recorded(s)
  <2>1. CASE Owed(s) = {}
    BY <1>1, <1>2, <2>1 DEF Recorded
  <2>2. CASE Owed(s) # {}
    <3> DEFINE u == CHOOSE t \in Owed(s) : TRUE
    <3>1. u \in Owed(s) /\ u = (CHOOSE t \in Owed(s)' : TRUE)
      BY <1>1, <2>2
    <3>2. thread'[u] = thread[u]
      BY <3>1 DEF Owed
    <3>3. Recorded(s)' = Append(pending'[s], SizeOf[thread'[u].event])
      BY <1>1, <2>2, <3>1 DEF Recorded
    <3>4. Recorded(s) = Append(pending[s], SizeOf[thread[u].event])
      BY <2>2 DEF Recorded
    <3>5. QED
      BY <1>2, <3>2, <3>3, <3>4
  <2>3. QED
    BY <2>1, <2>2
<1>3. QED
  BY <1>2

\* The records are sizes, and the subscribers finitely many.
LEMMA RecordTypes ==
  ASSUME BusInv
  PROVE  /\ IsFiniteSet(Attached) /\ Attached \in SUBSET Subscribers
         /\ \A s \in Subscribers : /\ Recorded(s) \in Seq(Nat)
                                   /\ Charged[s] = SumFunction(Recorded(s))
                                   /\ Charged[s] \in Nat
<1>1. /\ TypeOK /\ subs \in Seq(Subscribers)
      /\ \A i, j \in DOMAIN subs : subs[i] = subs[j] => i = j
  BY DEF BusInv, TypeOK, Membership
<1>2. IsFiniteSet(Attached) /\ Attached \in SUBSET Subscribers
  BY <1>1, Listed DEF Attached
<1>3. ASSUME NEW s \in Subscribers PROVE Recorded(s) \in Seq(Nat)
  <2>1. pending[s] \in Seq(Nat)
    BY <1>1 DEF TypeOK
  <2>2. CASE Owed(s) = {}
    BY <2>1, <2>2 DEF Recorded
  <2>3. CASE Owed(s) # {}
    <3> DEFINE u == CHOOSE t \in Owed(s) : TRUE
    <3>1. u \in Threads /\ thread[u].doing = "charging"
      BY <2>3 DEF Owed
    <3>2. SizeOf[thread[u].event] \in Nat
      BY <3>1, BusAssumption DEF BusInv, OneCharges, Events
    <3>3. Recorded(s) = Append(pending[s], SizeOf[thread[u].event])
      BY <2>3 DEF Recorded
    <3>4. QED
      BY <2>1, <3>2, <3>3, SequenceTypes
  <2>4. QED
    BY <2>2, <2>3
<1>4. ASSUME NEW s \in Subscribers PROVE Charged[s] = SumFunction(Recorded(s)) /\ Charged[s] \in Nat
  BY <1>3, SumOfSequence DEF Charged
<1>5. QED
  BY <1>2, <1>3, <1>4

\* What the invariant asks of the records and the budget.
Books == RecordsFit /\ BytesAddUp

\* A step that touches neither queues nor records.
LEMMA BooksStay ==
  ASSUME BusInv, UNCHANGED <<subs, queue, queuedBytes>>,
         \A s \in Subscribers : Recorded(s)' = Recorded(s)
  PROVE  Books'
<1>1. RecordsFit'
  BY DEF BusInv, RecordsFit
<1>2. Charged' = Charged /\ Attached' = Attached
  BY DEF Charged, Attached
<1>3. BytesAddUp'
  BY <1>2 DEF BusInv, BytesAddUp
<1>4. QED
  BY <1>1, <1>3 DEF Books

\* The event goes to the queues of K, and its size on their records.
LEMMA BooksOfPuts ==
  ASSUME BusInv, NEW e \in Events, NEW K, Puts(e, K),
         \A s \in Subscribers :
            Recorded(s)' = IF s \in K THEN Append(Recorded(s), SizeOf[e]) ELSE Recorded(s)
  PROVE  Books'
<1>1. /\ SizeOf[e] \in Nat /\ K \in SUBSET Attached /\ Attached \in SUBSET Subscribers
      /\ IsFiniteSet(Attached) /\ IsFiniteSet(K) /\ Attached' = Attached
      /\ \A s \in Subscribers : /\ Recorded(s) \in Seq(Nat)
                                /\ Charged[s] = SumFunction(Recorded(s)) /\ Charged[s] \in Nat
  BY RecordTypes, BusAssumption DEF Puts, Events, Attached
<1>2. ASSUME NEW s \in Subscribers PROVE Fits(queue[s], Recorded(s))'
  <2>1. /\ queue[s] \in Seq(Events \cup {STOP}) /\ Fits(queue[s], Recorded(s))
        /\ \A i \in DOMAIN queue[s] : queue[s][i] # STOP
    BY DEF BusInv, TypeOK, RecordsFit, StopsKnown, Puts
  <2>2. Fits(Append(queue[s], e), Append(Recorded(s), SizeOf[e]))
    BY <1>1, <2>1, FitsMoves
  <2>3. queue'[s] = IF s \in K THEN Append(queue[s], e) ELSE queue[s]
    BY DEF Puts
  <2>4. Fits(queue'[s], Recorded(s)')
    BY <2>1, <2>2, <2>3
  <2>5. QED
    BY <2>4 DEF Fits, Split
<1>3. queuedBytes' = SumFunctionOnSet(Charged', Attached')
  <2> DEFINE h == [s \in K |-> SizeOf[e]]
             f == Charged'
             g == Charged
  <2>1. ASSUME NEW s \in Subscribers
        PROVE  /\ f[s] = SumFunction(Recorded(s)')
               /\ s \in K => f[s] = g[s] + SizeOf[e]
               /\ s \notin K => f[s] = g[s]
    <3>1. f[s] = SumFunction(Recorded(s)')
      BY DEF Charged
    <3>2. SumFunction(Append(Recorded(s), SizeOf[e])) = SumFunction(Recorded(s)) + SizeOf[e]
      BY <1>1, SumOfAppend
    <3>3. QED
      BY <1>1, <3>1, <3>2
  <2> HIDE DEF f, g
  <2>2. \A s \in K : h[s] = SizeOf[e]
    OBVIOUS
  <2> HIDE DEF h
  <2>3. \A s \in Attached : f[s] \in Nat /\ g[s] \in Nat
    BY <1>1, <2>1 DEF g
  <2>4. SumFunctionOnSet(f, Attached) = SumFunctionOnSet(g, Attached) + SumFunctionOnSet(h, K)
    <3>1. \A s \in K : h[s] \in Nat /\ f[s] = g[s] + h[s]
      BY <1>1, <2>1, <2>2
    <3>2. \A s \in Attached \ K : f[s] = g[s]
      BY <1>1, <2>1
    <3>3. QED
      BY <1>1, <2>3, <3>1, <3>2, SumSplit
  <2>5. SumFunctionOnSet(h, K) = SizeOf[e] * Cardinality(K)
    BY <1>1, <2>2, SumConstant
  <2>6. queuedBytes = SumFunctionOnSet(g, Attached)
    BY DEF BusInv, BytesAddUp, g
  <2>7. QED
    BY <1>1, <2>4, <2>5, <2>6 DEF Puts, f
<1>4. queuedBytes' <= MaxBytes
  BY DEF Puts
<1>5. QED
  BY <1>2, <1>3, <1>4 DEF Books, RecordsFit, BytesAddUp

\* Whatever the budget is given back, it stays below its cap.
LEMMA Reclaims ==
  ASSUME BusInv, NEW b \in Nat, NEW n \in Nat
  PROVE  /\ \A r \in Nat : b = n + r => Reclaim(b, n) = r
         /\ b <= queuedBytes => Reclaim(b, n) <= MaxBytes /\ Reclaim(b, n) <= queuedBytes
<1>1. queuedBytes \in Nat /\ queuedBytes <= MaxBytes /\ MaxBytes \in Nat
  BY BusAssumption DEF BusInv, TypeOK, BytesAddUp
<1>2. QED
  BY <1>1 DEF Reclaim

\* The head of a record and the rest of it make up its sum.
LEMMA SumOfHead ==
  ASSUME NEW p \in Seq(Nat)
  PROVE  /\ SumFunction(p) = SumFunction(TailOf(p)) + HeadOr0(p)
         /\ SumFunction(TailOf(p)) \in Nat /\ HeadOr0(p) \in Nat
<1>1. CASE p = <<>>
  <2>1. SumFunction(p) = 0
    BY <1>1, SumOfSequence
  <2>2. QED
    BY <1>1, <2>1 DEF TailOf, HeadOr0
<1>2. CASE p # <<>>
  <2>1. SumFunction(p) = Head(p) + SumFunction(Tail(p)) /\ Tail(p) \in Seq(Nat) /\ Head(p) \in Nat
    BY <1>2, SumOfTail
  <2>2. SumFunction(Tail(p)) \in Nat
    BY <2>1, SumOfSequence
  <2>3. QED
    BY <1>2, <2>1, <2>2 DEF TailOf, HeadOr0
<1>3. QED
  BY <1>1, <1>2

LEMMA BooksOfStop ==
  ASSUME BusInv, NEW to, Sentinels(to), LockFree, LockFree'
  PROVE  Books'
<1> DEFINE here == to \cap Attached
           full == {s \in here : Full(s)}
<1>1. /\ Attached' = Attached /\ IsFiniteSet(Attached) /\ Attached \in SUBSET Subscribers
      /\ \A s \in Subscribers : Recorded(s)' = pending'[s] /\ Recorded(s) = pending[s]
      /\ \A s \in Subscribers : /\ pending[s] \in Seq(Nat)
                                /\ Charged[s] = SumFunction(pending[s]) /\ Charged[s] \in Nat
  BY RecordTypes, FreeRecords DEF Sentinels, Attached
<1>2. /\ \A s \in Subscribers :
            queue'[s] = IF s \in full THEN Append(Tail(queue[s]), STOP)
                        ELSE IF s \in here THEN Append(queue[s], STOP) ELSE queue[s]
      /\ \A s \in Subscribers :
            pending'[s] = IF s \in full THEN TailOf(pending[s]) ELSE pending[s]
      /\ \A s \in full : queue[s] # <<>> /\ Gives[s] \in Nat
      /\ queuedBytes' = Reclaim(queuedBytes, SumFunctionOnSet(Gives, full))
      /\ SumFunctionOnSet(Gives, full) \in Nat
      /\ full \in SUBSET Attached
  BY DEF Sentinels
<1> HIDE DEF full, here
<1>3. ASSUME NEW s \in Subscribers PROVE Fits(queue[s], Recorded(s))'
  <2>1. queue[s] \in Seq(Events \cup {STOP}) /\ Fits(queue[s], pending[s])
    BY <1>1 DEF BusInv, TypeOK, RecordsFit
  <2>2. Fits(Append(queue[s], STOP), pending[s])
    BY <1>1, <2>1, FitsMoves
  <2>3. queue[s] # <<>> => Fits(Append(Tail(queue[s]), STOP), TailOf(pending[s]))
    <3>1. queue[s] # <<>> => /\ Tail(queue[s]) \in Seq(Events \cup {STOP})
                             /\ TailOf(pending[s]) \in Seq(Nat)
                             /\ Fits(Tail(queue[s]), TailOf(pending[s]))
      BY <1>1, <2>1, FitsMoves, SequenceTypes
    <3>2. QED
      BY <3>1, FitsMoves
  <2>4. Fits(queue'[s], Recorded(s)')
    BY <1>1, <1>2, <2>1, <2>2, <2>3 DEF full
  <2>5. QED
    BY <2>4 DEF Fits, Split
<1>4. queuedBytes' = SumFunctionOnSet(Charged', Attached')
  <2> DEFINE f == Charged
             g == Charged'
  <2>1. ASSUME NEW s \in Subscribers
        PROVE  /\ g[s] \in Nat
               /\ s \in full => f[s] = g[s] + Gives[s]
               /\ s \notin full => f[s] = g[s]
    <3>1. g[s] = SumFunction(pending'[s])
      BY <1>1 DEF Charged
    <3>2. /\ SumFunction(pending[s]) = SumFunction(TailOf(pending[s])) + Gives[s]
          /\ SumFunction(TailOf(pending[s])) \in Nat
      BY <1>1, SumOfHead DEF Gives
    <3>3. QED
      BY <1>1, <1>2, <3>1, <3>2
  <2>2. queuedBytes = SumFunctionOnSet(f, Attached) /\ queuedBytes \in Nat
    BY DEF BusInv, BytesAddUp, TypeOK
  <2>3. \A s \in Attached : f[s] \in Nat
    BY <1>1
  <2> HIDE DEF f, g
  <2>4. /\ SumFunctionOnSet(f, Attached) = SumFunctionOnSet(g, Attached) + SumFunctionOnSet(Gives, full)
        /\ SumFunctionOnSet(g, Attached) \in Nat
    <3>1. \A s \in full : Gives[s] \in Nat /\ f[s] = g[s] + Gives[s]
      BY <1>1, <1>2, <2>1
    <3>2. \A s \in Attached \ full : f[s] = g[s]
      BY <1>1, <2>1
    <3>3. IsFiniteSet(Attached) /\ full \in SUBSET Attached
      BY <1>1, <1>2
    <3>4. \A s \in Attached : f[s] \in Nat /\ g[s] \in Nat
      BY <1>1, <2>1, <2>3
    <3>5. QED
      BY <3>1, <3>2, <3>3, <3>4, SumSplit
  <2>5. Reclaim(queuedBytes, SumFunctionOnSet(Gives, full)) = SumFunctionOnSet(g, Attached)
    BY <1>2, <2>2, <2>4 DEF Reclaim
  <2>6. QED
    BY <1>1, <1>2, <2>5 DEF g
<1>5. queuedBytes' <= MaxBytes
  BY <1>2, Reclaims DEF BusInv, TypeOK
<1>6. QED
  BY <1>3, <1>4, <1>5 DEF Books, RecordsFit, BytesAddUp

LEMMA BooksOfGet ==
  ASSUME BusInv, NEW s \in Attached, queue[s] # <<>>, LockFree \/ pending[s] = <<>>,
         UNCHANGED <<subs, thread>>,
         queue' = [queue EXCEPT ![s] = Tail(@)],
         pending' = [pending EXCEPT ![s] = TailOf(@)],
         queuedBytes' = Reclaim(queuedBytes, HeadOr0(pending[s]))
  PROVE  Books'
<1>1. /\ Attached' = Attached /\ IsFiniteSet(Attached) /\ s \in Subscribers
      /\ Attached \in SUBSET Subscribers
      /\ \A u \in Subscribers : /\ Recorded(u) \in Seq(Nat)
                                /\ Charged[u] = SumFunction(Recorded(u)) /\ Charged[u] \in Nat
  BY RecordTypes DEF Attached
<1>2. /\ pending \in [Subscribers -> Seq(Nat)] /\ queuedBytes \in Nat
      /\ queue \in [Subscribers -> Seq(Events \cup {STOP})]
      /\ queuedBytes = SumFunctionOnSet(Charged, Attached)
      /\ HeadOr0(pending[s]) \in Nat
  BY <1>1, SequenceTypes DEF BusInv, TypeOK, BytesAddUp
<1>3. /\ Recorded(s)' \in {Recorded(s), TailOf(Recorded(s))}
      /\ \A u \in Subscribers \ {s} : Recorded(u)' = Recorded(u)
      /\ SumFunction(Recorded(s)) = HeadOr0(pending[s]) + SumFunction(Recorded(s)')
      /\ SumFunction(Recorded(s)') \in Nat
  <2>1. \A u \in Subscribers \ {s} : Recorded(u)' = Recorded(u)
    BY <1>2, SameRecords
  <2>2. CASE LockFree
    <3>1. Recorded(s) = pending[s] /\ Recorded(s)' = TailOf(pending[s])
      BY <1>1, <1>2, <2>2, FreeRecords DEF LockFree
    <3>2. /\ SumFunction(pending[s]) = SumFunction(TailOf(pending[s])) + HeadOr0(pending[s])
          /\ SumFunction(TailOf(pending[s])) \in Nat
      BY <1>1, <1>2, SumOfHead
    <3>3. QED
      BY <1>2, <2>1, <3>1, <3>2
  <2>3. CASE pending[s] = <<>>
    <3>1. pending'[s] = pending[s] /\ HeadOr0(pending[s]) = 0
      BY <1>1, <1>2, <2>3 DEF TailOf, HeadOr0
    <3>2. Recorded(s)' = Recorded(s)
      BY <3>1, SameRecords
    <3>3. SumFunction(Recorded(s)) \in Nat
      BY <1>1
    <3>4. QED
      BY <2>1, <3>1, <3>2, <3>3
  <2>4. QED
    BY <2>2, <2>3
<1>4. ASSUME NEW u \in Subscribers PROVE Fits(queue[u], Recorded(u))'
  <2>1. queue[u] \in Seq(Events \cup {STOP}) /\ Fits(queue[u], Recorded(u))
    BY <1>2 DEF BusInv, RecordsFit
  <2>2. CASE u # s
    <3>1. queue'[u] = queue[u] /\ Recorded(u)' = Recorded(u)
      BY <1>2, <1>3, <2>2
    <3>2. Fits(queue'[u], Recorded(u)')
      BY <2>1, <3>1
    <3>3. QED
      BY <3>2 DEF Fits, Split
  <2>3. CASE u = s
    <3>1. Fits(Tail(queue[s]), Recorded(s)')
      BY <1>1, <1>3, <2>1, <2>3, FitsMoves
    <3>2. queue'[s] = Tail(queue[s])
      BY <1>1, <1>2
    <3>3. QED
      BY <2>3, <3>1, <3>2 DEF Fits, Split
  <2>4. QED
    BY <2>2, <2>3
<1>5. queuedBytes' = SumFunctionOnSet(Charged', Attached')
  <2> DEFINE f == Charged
             g == Charged'
  <2>1. /\ \A u \in Attached : f[u] \in Nat
        /\ \A u \in Attached \ {s} : g[u] = f[u]
        /\ g[s] = SumFunction(Recorded(s)') /\ g[s] \in Nat
        /\ f[s] = HeadOr0(pending[s]) + g[s]
    BY <1>1, <1>3 DEF Charged
  <2> HIDE DEF f, g
  <2> DEFINE rest == SumFunctionOnSet(f, Attached \ {s})
  <2>2. /\ SumFunctionOnSet(f, Attached) = f[s] + rest
        /\ SumFunctionOnSet(g, Attached) = g[s] + rest
        /\ rest \in Nat
    <3>1. IsFiniteSet(Attached) /\ s \in Attached
      BY <1>1
    <3>2. \A u \in Attached : f[u] \in Nat
      BY <2>1
    <3>3. \A u \in Attached \ {s} : g[u] = f[u]
      BY <2>1
    <3>4. SumFunctionOnSet(f, Attached) = f[s] + rest /\ rest \in Nat
      BY <3>1, <3>2, SumRemove
    <3>5. SumFunctionOnSet(g, Attached) = g[s] + SumFunctionOnSet(g, Attached \ {s})
      <4>1. \A u \in Attached : g[u] \in Nat
        BY <2>1
      <4>2. QED
        BY <3>1, <4>1, SumRemove
    <3>6. SumFunctionOnSet(g, Attached \ {s}) = rest
      <4>1. IsFiniteSet(Attached \ {s}) /\ \A u \in Attached \ {s} : g[u] = f[u] /\ f[u] \in Nat
        BY <3>1, <3>2, <3>3, FS_Subset
      <4>2. QED
        BY <4>1, SumSame
    <3>7. QED
      BY <3>4, <3>5, <3>6
  <2>3. queuedBytes = SumFunctionOnSet(f, Attached)
    BY <1>2 DEF f
  <2> HIDE DEF rest
  <2>4. queuedBytes = HeadOr0(pending[s]) + (g[s] + rest) /\ g[s] + rest \in Nat
    BY <1>2, <2>1, <2>2, <2>3
  <2>5. queuedBytes' = g[s] + rest
    BY <1>2, <2>4, Reclaims
  <2>6. QED
    BY <1>1, <2>2, <2>5 DEF g
<1>6. queuedBytes' <= MaxBytes
  BY <1>2, Reclaims
<1>7. QED
  BY <1>4, <1>5, <1>6 DEF Books, RecordsFit, BytesAddUp

\* Whoever leaves gives back what was on record for the queue.
LEMMA BooksOfDetach ==
  ASSUME BusInv, NEW s \in Attached, NEW b \in Nat, NEW q \in Seq(Nat), Detach(s, b, q),
         UNCHANGED thread, b <= queuedBytes,
         b = SumFunction(q) + SumFunctionOnSet(Charged, Attached \ {s})
  PROVE  Books'
<1>1. /\ IsFiniteSet(Attached) /\ s \in Subscribers /\ Attached \in SUBSET Subscribers
      /\ \A u \in Subscribers : Charged[u] = SumFunction(Recorded(u)) /\ Charged[u] \in Nat
  BY RecordTypes
<1>2. /\ LockFree /\ LockFree' /\ Attached' = Attached \ {s}
      /\ queuedBytes' = Reclaim(b, SumFunction(q)) /\ SumFunction(q) \in Nat
      /\ pending' = [pending EXCEPT ![s] = <<>>] /\ queue' = [queue EXCEPT ![s] = <<>>]
  BY DetachTypes DEF BusInv, LockFree
<1>3. /\ pending \in [Subscribers -> Seq(Nat)]
      /\ queue \in [Subscribers -> Seq(Events \cup {STOP})]
  BY DEF BusInv, TypeOK
<1>4. \A u \in Subscribers : Recorded(u) = pending[u] /\ Recorded(u)' = pending'[u]
  BY <1>2, FreeRecords
<1>5. ASSUME NEW u \in Subscribers PROVE Fits(queue[u], Recorded(u))'
  <2>1. /\ queue[u] \in Seq(Events \cup {STOP}) /\ pending[u] \in Seq(Nat)
        /\ Fits(queue[u], pending[u])
    BY <1>3, <1>4 DEF BusInv, RecordsFit
  <2>2. Fits(<<>>, <<>>)
    BY <2>1, FitsMoves
  <2>3. \/ queue'[u] = queue[u] /\ Recorded(u)' = pending[u]
        \/ queue'[u] = <<>> /\ Recorded(u)' = <<>>
    BY <1>2, <1>3, <1>4
  <2>4. Fits(queue'[u], Recorded(u)')
    BY <2>1, <2>2, <2>3
  <2>5. QED
    BY <2>4 DEF Fits, Split
<1>6. queuedBytes' = SumFunctionOnSet(Charged', Attached')
  <2> DEFINE f == Charged
             g == Charged'
  <2>1. /\ \A u \in Attached : f[u] \in Nat
        /\ \A u \in Attached \ {s} : g[u] = f[u]
    BY <1>1, <1>2, <1>3, <1>4 DEF Charged
  <2> HIDE DEF f, g
  <2> DEFINE rest == SumFunctionOnSet(f, Attached \ {s})
  <2>2. b = SumFunction(q) + rest
    BY DEF f
  <2>3. SumFunctionOnSet(g, Attached \ {s}) = rest /\ rest \in Nat
    <3>1. IsFiniteSet(Attached) /\ s \in Attached
      BY <1>1
    <3>2. \A u \in Attached : f[u] \in Nat
      BY <2>1
    <3>3. \A u \in Attached \ {s} : g[u] = f[u]
      BY <2>1
    <3>4. SumFunctionOnSet(g, Attached \ {s}) = rest
      <4>1. IsFiniteSet(Attached \ {s}) /\ \A u \in Attached \ {s} : g[u] = f[u] /\ f[u] \in Nat
        BY <3>1, <3>2, <3>3, FS_Subset
      <4>2. QED
        BY <4>1, SumSame
    <3>5. rest \in Nat
      BY <3>1, <3>2, SumRemove
    <3>6. QED
      BY <3>4, <3>5
  <2> HIDE DEF rest
  <2>4. Reclaim(b, SumFunction(q)) = rest
    BY <1>2, <2>2, <2>3, Reclaims
  <2>5. QED
    BY <1>2, <2>3, <2>4 DEF g
<1>7. queuedBytes' <= MaxBytes
  BY <1>2, Reclaims
<1>8. QED
  BY <1>5, <1>6, <1>7 DEF Books, RecordsFit, BytesAddUp

LEMMA BooksOfSubscribe ==
  ASSUME BusInv, NEW s \in Subscribers, Subscribe(s)
  PROVE  Books'
<1>1. /\ pc[s] = "out" /\ LockFree /\ LockFree' /\ subs' = Append(subs, s)
      /\ UNCHANGED <<queue, pending, queuedBytes, thread>>
  BY DEF Subscribe, LockFree
<1>2. /\ subs \in Seq(Subscribers) /\ s \notin Attached /\ pending[s] = <<>>
      /\ Attached' = Attached \cup {s}
  <2>1. subs \in Seq(Subscribers) /\ s \notin Attached /\ pending[s] = <<>>
    BY <1>1 DEF BusInv, TypeOK, Membership
  <2>2. Attached' = Attached \cup {s}
    BY <1>1, <2>1 DEF Attached, ToSet
  <2>3. QED
    BY <2>1, <2>2
<1>3. \A u : Recorded(u)' = Recorded(u)
  BY <1>1, SameRecords
<1>4. RecordsFit'
  BY <1>1, <1>3 DEF BusInv, RecordsFit
<1>5. Charged' = Charged
  BY <1>3 DEF Charged
<1>6. /\ IsFiniteSet(Attached) /\ Attached \in SUBSET Subscribers
      /\ \A u \in Subscribers : Charged[u] = SumFunction(Recorded(u)) /\ Charged[u] \in Nat
  BY RecordTypes
<1>7. Charged[s] = 0
  <2>1. Recorded(s) = <<>>
    BY <1>1, <1>2, FreeRecords
  <2>2. <<>> \in Seq(Nat)
    OBVIOUS
  <2>3. SumFunction(<<>>) = 0
    BY <2>2, SumOfSequence
  <2>4. QED
    BY <1>6, <2>1, <2>3
<1>8. SumFunctionOnSet(Charged, Attached \cup {s}) = SumFunctionOnSet(Charged, Attached)
  <2> DEFINE S == Attached \cup {s}
             f == Charged
  <2>1. IsFiniteSet(S) /\ s \in S /\ S \ {s} = Attached /\ \A u \in S : f[u] \in Nat
    BY <1>2, <1>6, FS_AddElement
  <2>2. f[s] = 0
    BY <1>7
  <2> HIDE DEF S, f
  <2>3. SumFunctionOnSet(f, S) = f[s] + SumFunctionOnSet(f, S \ {s}) /\ SumFunctionOnSet(f, S \ {s}) \in Nat
    BY <2>1, SumRemove
  <2>4. SumFunctionOnSet(f, S) = SumFunctionOnSet(f, Attached)
    <3>1. SumFunctionOnSet(f, S) = SumFunctionOnSet(f, S \ {s})
      BY <2>2, <2>3
    <3>2. QED
      BY <2>1, <3>1, Zenon
  <2>5. QED
    BY <2>4 DEF S, f
<1>9. BytesAddUp'
  BY <1>1, <1>2, <1>5, <1>8 DEF BusInv, BytesAddUp
<1>10. QED
  BY <1>4, <1>9 DEF Books

LEMMA BooksOfFanOut ==
  ASSUME BusInv, NEW e \in Events, FanOut(e), UNCHANGED thread
  PROVE  Books'
<1>1. LockFree /\ LockFree' /\ pending \in [Subscribers -> Seq(Nat)]
  BY FanOutPuts DEF LockFree, BusInv, TypeOK
<1>2. \A s : Recorded(s) = pending[s] /\ Recorded(s)' = pending'[s]
  BY <1>1, FreeRecords
<1>3. CASE UNCHANGED <<busVars, fanned>>
  BY <1>2, <1>3, BooksStay DEF busVars
<1>4. ASSUME NEW K \in SUBSET Attached, Puts(e, K), Charge(e, K) PROVE Books'
  <2>1. \A s \in Subscribers :
          Recorded(s)' = IF s \in K THEN Append(Recorded(s), SizeOf[e]) ELSE Recorded(s)
    BY <1>2, <1>4 DEF Charge
  <2>2. QED
    BY <1>4, <2>1, BooksOfPuts
<1>5. QED
  BY <1>3, <1>4, FanOutPuts

LEMMA BooksOfThread ==
  ASSUME BusInv, NEW t \in Threads, ThreadFanOut(t)
  PROVE  Books'
<1> DEFINE e == thread[t].event
<1>1. /\ LockFree /\ e \in Events /\ thread \in [Threads -> Activity]
      /\ \A s : Recorded(s) = pending[s]
  BY ThreadFans, FreeRecords DEF BusInv, TypeOK
<1>2. CASE thread' = [thread EXCEPT ![t] = Idle] /\ UNCHANGED <<busVars, fanned>>
  <2>1. LockFree'
    BY <1>1, <1>2 DEF LockFree, Idle
  <2>2. QED
    BY <1>1, <1>2, <2>1, FreeRecords, BooksStay DEF busVars
<1>3. ASSUME NEW K \in SUBSET Attached, Puts(e, K), UNCHANGED pending,
             thread' = [thread EXCEPT ![t].doing = "charging", ![t].takers = K]
      PROVE  Books'
  <2>1. /\ thread'[t].doing = "charging" /\ thread'[t].takers = K /\ thread'[t].event = e
        /\ \A u \in Threads \ {t} : thread'[u].doing # "charging"
    <3>1. thread'[t].doing = "charging" /\ thread'[t].takers = K /\ thread'[t].event = e
      BY <1>1, <1>3 DEF Activity
    <3>2. \A u \in Threads \ {t} : thread'[u] = thread[u]
      BY <1>1, <1>3
    <3>3. QED
      BY <1>1, <3>1, <3>2 DEF LockFree
  <2> HIDE DEF e
  <2>2. ASSUME NEW s \in Subscribers
        PROVE  Recorded(s)' = IF s \in K THEN Append(Recorded(s), SizeOf[e]) ELSE Recorded(s)
    <3>1. CASE s \in K
      <4>1. Owed(s)' = {t}
        BY <2>1, <3>1 DEF Owed
      <4>2. (CHOOSE u \in Owed(s)' : TRUE) = t /\ Owed(s)' # {}
        BY <4>1
      <4>3. Recorded(s)' = Append(pending'[s], SizeOf[thread'[t].event])
        BY <4>2 DEF Recorded
      <4>4. QED
        BY <1>1, <1>3, <2>1, <3>1, <4>3
    <3>2. CASE s \notin K
      <4>1. Owed(s)' = {}
        BY <2>1, <3>2 DEF Owed
      <4>2. QED
        BY <1>1, <1>3, <3>2, <4>1 DEF Recorded
    <3>3. QED
      BY <3>1, <3>2
  <2>3. QED
    BY <1>1, <1>3, <2>2, BooksOfPuts
<1>4. QED
  BY <1>2, <1>3, ThreadFans

LEMMA BooksOfCharge ==
  ASSUME BusInv, NEW t \in Threads, ThreadCharge(t)
  PROVE  Books'
<1>1. /\ thread \in [Threads -> Activity] /\ pending \in [Subscribers -> Seq(Nat)]
      /\ thread[t].doing = "charging"
      /\ \A u \in Threads \ {t} : thread[u].doing # "charging"
      /\ thread' = [thread EXCEPT ![t] = Idle]
      /\ UNCHANGED <<subs, queue, queuedBytes>>
      /\ pending' = [s \in Subscribers |->
            IF s \in thread[t].takers THEN Append(pending[s], SizeOf[thread[t].event])
                                      ELSE pending[s]]
  BY DEF BusInv, TypeOK, OneCharges, ThreadCharge, Charge
<1>2. LockFree'
  BY <1>1 DEF LockFree, Idle
<1>3. ASSUME NEW s \in Subscribers PROVE Recorded(s)' = Recorded(s)
  <2>1. Recorded(s)' = pending'[s]
    BY <1>2, FreeRecords
  <2>2. CASE s \in thread[t].takers
    <3>1. Owed(s) = {t}
      BY <1>1, <2>2 DEF Owed
    <3>2. (CHOOSE u \in Owed(s) : TRUE) = t /\ Owed(s) # {}
      BY <3>1
    <3>3. Recorded(s) = Append(pending[s], SizeOf[thread[t].event])
      BY <3>2 DEF Recorded
    <3>4. QED
      BY <1>1, <2>1, <2>2, <3>3
  <2>3. CASE s \notin thread[t].takers
    <3>1. Owed(s) = {}
      BY <1>1, <2>3 DEF Owed
    <3>2. QED
      BY <1>1, <2>1, <2>3, <3>1 DEF Recorded
  <2>4. QED
    BY <2>2, <2>3
<1>4. QED
  BY <1>1, <1>3, BooksStay

\* A subscriber that closes its generator, or exits on the sentinel.
LEMMA BooksOfLeaving ==
  ASSUME BusInv, NEW s \in Subscribers, Close(s) \/ (Get(s) /\ Head(queue[s]) = STOP)
  PROVE  Books'
<1>1. /\ queuedBytes \in Nat /\ queuedBytes = SumFunctionOnSet(Charged, Attached)
      /\ UNCHANGED thread
  BY DEF BusInv, TypeOK, BytesAddUp, Close, Get
<1>2. s \in Attached /\ LockFree
  BY DEF BusInv, Membership, Close, Get, Detach
<1>3. /\ IsFiniteSet(Attached) /\ \A u \in Attached : Charged[u] \in Nat
      /\ Recorded(s) = pending[s] /\ pending[s] \in Seq(Nat)
      /\ Charged[s] = SumFunction(pending[s])
  BY <1>2, RecordTypes, FreeRecords
<1> DEFINE rest == SumFunctionOnSet(Charged, Attached \ {s})
<1>4. queuedBytes = SumFunction(pending[s]) + rest /\ rest \in Nat
  <2> DEFINE f == Charged
  <2>1. /\ SumFunctionOnSet(f, Attached) = f[s] + SumFunctionOnSet(f, Attached \ {s})
        /\ SumFunctionOnSet(f, Attached \ {s}) \in Nat
    <3>1. \A u \in Attached : f[u] \in Nat
      BY <1>3
    <3> HIDE DEF f
    <3>2. QED
      BY <1>2, <1>3, <3>1, SumRemove
  <2>2. QED
    BY <1>1, <1>3, <2>1
<1>5. CASE Close(s)
  <2>1. Detach(s, queuedBytes, pending[s]) /\ queuedBytes <= queuedBytes
    BY <1>1, <1>5 DEF Close
  <2>2. QED
    BY <1>1, <1>2, <1>3, <1>4, <2>1, BooksOfDetach
<1>6. CASE Get(s) /\ Head(queue[s]) = STOP
  <2> DEFINE h == HeadOr0(pending[s])
             q == TailOf(pending[s])
             b == Reclaim(queuedBytes, h)
  <2>1. Detach(s, b, q) /\ b \in Nat /\ q \in Seq(Nat)
    BY <1>6, Gets
  <2>2. SumFunction(pending[s]) = SumFunction(q) + h /\ SumFunction(q) \in Nat /\ h \in Nat
    BY <1>3, SumOfHead
  <2>3. b = SumFunction(q) + rest /\ b <= queuedBytes
    <3> HIDE DEF rest, h, q
    <3>1. queuedBytes = h + (SumFunction(q) + rest) /\ SumFunction(q) + rest \in Nat
      BY <1>4, <2>2
    <3>2. QED
      BY <1>1, <2>2, <3>1, Reclaims
  <2> HIDE DEF h, q, b
  <2>4. QED
    BY <1>1, <1>2, <2>1, <2>3, BooksOfDetach
<1>7. QED
  BY <1>5, <1>6

LEMMA BooksKept ==
  ASSUME BusInv, Next
  PROVE  Books'
<1>1. TypeOK /\ thread \in [Threads -> Activity] /\ Attached \in SUBSET Subscribers
  BY DEF BusInv, TypeOK, Attached, ToSet
<1>2. ASSUME UNCHANGED <<subs, queue, queuedBytes, pending>>,
             \A t \in Threads : thread'[t] # thread[t] =>
                 thread[t].doing # "charging" /\ thread'[t].doing # "charging"
      PROVE  Books'
  BY <1>2, SameRecords, BooksStay
<1>3. CASE Reject \/ StopFromThread
  BY <1>2, <1>3 DEF Reject, StopFromThread, Stopping, busVars
<1>4. CASE PublishOnLoop
  BY <1>4, LoopRuns, BooksOfFanOut DEF PublishOnLoop
<1>5. ASSUME NEW to \in SUBSET Subscribers, InjectStop(to), LockFree, UNCHANGED thread
      PROVE  Books'
  <2>1. LockFree'
    BY <1>5 DEF LockFree
  <2>2. QED
    BY <1>5, <2>1, InjectPuts, BooksOfStop
<1>6. CASE StopHere
  BY <1>1, <1>5, <1>6 DEF StopHere, Stopping
<1>7. CASE RunCallback
  <2>1. LockFree /\ UNCHANGED thread
    BY <1>7 DEF RunCallback
  <2>2. QED
    BY <1>5, <1>7, <2>1, LoopRuns, BooksOfFanOut
<1>8. ASSUME NEW t \in Threads, ThreadAccept(t) \/ ThreadSchedule(t) PROVE Books'
  <2>1. UNCHANGED <<subs, queue, queuedBytes, pending>>
    BY <1>8 DEF ThreadAccept, ThreadSchedule, busVars
  <2>2. /\ \A u \in Threads \ {t} : thread'[u] = thread[u]
        /\ thread[t].doing # "charging"
    BY <1>1, <1>8 DEF ThreadAccept, ThreadSchedule
  <2>3. thread'[t].doing # "charging"
    <3>1. CASE ThreadAccept(t)
      BY <1>1, <3>1 DEF ThreadAccept, Idle
    <3>2. CASE ThreadSchedule(t)
      <4>1. thread'[t].doing \in {"idle", "fanning"}
        BY <1>1, <3>2 DEF ThreadSchedule, Idle, Handed, Activity
      <4>2. QED
        BY <4>1
    <3>3. QED
      BY <1>8, <3>1, <3>2
  <2>4. QED
    BY <1>2, <2>1, <2>2, <2>3
<1>9. ASSUME NEW t \in Threads, ThreadFanOut(t) \/ ThreadCharge(t) PROVE Books'
  BY <1>9, BooksOfThread, BooksOfCharge
<1>10. ASSUME NEW s \in Subscribers, Resume(s) \/ Abandon(s) PROVE Books'
  BY <1>2, <1>10 DEF Resume, Abandon, busVars
<1>11. ASSUME NEW s \in Subscribers, Subscribe(s) \/ Close(s) PROVE Books'
  BY <1>11, BooksOfSubscribe, BooksOfLeaving
<1>12. ASSUME NEW s \in Subscribers, Get(s) PROVE Books'
  <2>1. CASE Head(queue[s]) = STOP
    BY <1>12, <2>1, BooksOfLeaving
  <2>2. CASE Head(queue[s]) # STOP
    <3>1. UNCHANGED thread
      BY <1>12 DEF Get
    <3>2. QED
      BY <1>12, <2>2, <3>1, Gets, BooksOfGet
  <2>3. QED
    BY <2>1, <2>2
<1>13. QED
  BY <1>3, <1>4, <1>6, <1>7, <1>8, <1>9, <1>10, <1>11, <1>12 DEF Next

-----------------------------------------------------------------------------
(* The theorems                                                            *)

LEMMA BusStarts ==
  ASSUME Init
  PROVE  BusInv
<1>1. Attached = {} /\ LockFree /\ ~stopped
  BY DEF Init, Attached, ToSet, LockFree, Idle, stopped
<1>2. TypeOK
  <2>1. Idle \in Activity
    BY DEF Idle, Activity
  <2>2. 1 \in 1..(MaxEvents + 1)
    BY BusAssumption
  <2>3. <<>> \in Seq(Subscribers) /\ <<>> \in Seq(Events) /\ <<>> \in Seq(Nat)
    OBVIOUS
  <2>4. <<>> \in Seq(Events \cup {STOP}) /\ <<>> \in Seq(Callback)
    OBVIOUS
  <2> HIDE DEF Activity, Callback, Events
  <2>5. QED
    BY <2>1, <2>2, <2>3, <2>4 DEF Init, TypeOK
<1>3. Membership
  BY <1>1 DEF Init, Membership, Idle
<1>4. OneCharges /\ StopsKnown /\ FannedOnce
  BY DEF Init, OneCharges, StopsKnown, FannedOnce, CarriedOnce, Carries, Idle
<1>5. Ordered
  BY DEF Init, Ordered, OneAfterTheOther, InOrder
<1>6. \A s \in Subscribers : Recorded(s) = <<>> /\ queue[s] = <<>>
  BY <1>1, FreeRecords DEF Init
<1>7. RecordsFit
  <2>1. Fits(<<>>, <<>>)
    <3>1. 0 \in 0..Len(<<>>) /\ 1..0 = {} /\ DOMAIN <<>> = {}
      OBVIOUS
    <3>2. QED
      BY <3>1 DEF Fits, Split
  <2>2. QED
    BY <1>6, <2>1 DEF RecordsFit
<1>8. BytesAddUp
  <2>1. SumFunctionOnSet(Charged, {}) = 0
    BY FS_EmptySet, SumUnfolds
  <2>2. 0 <= MaxBytes
    BY BusAssumption
  <2>3. QED
    BY <1>1, <2>1, <2>2 DEF Init, BytesAddUp
<1>9. QED
  BY <1>2, <1>3, <1>4, <1>5, <1>7, <1>8 DEF BusInv

LEMMA BusStutters ==
  ASSUME BusInv, UNCHANGED vars
  PROVE  BusInv'
<1>1. /\ TypeOK' /\ Membership' /\ OneCharges' /\ StopsKnown'
  BY DEF BusInv, vars, TypeOK, Membership, OneCharges, StopsKnown, Attached, stopped
<1>2. FannedOnce' /\ Ordered'
  BY DEF BusInv, vars, FannedOnce, CarriedOnce, Fresh, Fanned, Carries, Ordered
<1>3. \A s : Recorded(s)' = Recorded(s)
  BY SameRecords DEF vars
<1>4. Books'
  BY <1>3, BooksStay DEF vars
<1>5. QED
  BY <1>1, <1>2, <1>4 DEF BusInv, Books

(* The bus keeps its books in every order of publishers, subscribers,        *)
(* threads and stops: the inductive invariant behind the theorems below    *)
(* (core/events/bus.py, class EventBus).                                   *)
THEOREM BusSound == Spec => []BusInv
<1>1. Init => BusInv
  BY BusStarts
<1>2. BusInv /\ [Next]_vars => BusInv'
  <2>1. ASSUME BusInv, Next PROVE BusInv'
    BY <2>1, TypeKept, MembershipKept, OneChargesKept, StopsKept, FannedOnceKept, OrderedKept,
       BooksKept DEF BusInv, Books
  <2>2. ASSUME BusInv, UNCHANGED vars PROVE BusInv'
    BY <2>2, BusStutters
  <2>3. QED
    BY <2>1, <2>2
<1>3. QED
  BY <1>1, <1>2, PTL DEF Spec

(* The variables keep their types: a budget that is given back never goes    *)
(* below zero, and nothing but events and sentinels is queued.             *)
THEOREM BusTypeCorrect == Spec => []TypeOK
<1>1. BusInv => TypeOK
  BY DEF BusInv
<1>2. QED
  BY <1>1, BusSound, PTL

(* No event ever sits behind a stop sentinel, also when a full queue gave up *)
(* its head for the sentinel or several stops queued one each, so that a   *)
(* subscriber that exits on it loses nothing (bus.py _put_stop, _fan_out). *)
THEOREM StopComesLast == Spec => []NothingBehindStop
<1>1. BusInv => NothingBehindStop
  <2> SUFFICES ASSUME BusInv, NEW s \in Subscribers,
                      NEW i \in 1..Len(queue[s]), NEW j \in 1..Len(queue[s]),
                      i < j, queue[s][i] = STOP
               PROVE  queue[s][j] = STOP
    BY DEF NothingBehindStop
  <2>1. queue[s] \in Seq(Events \cup {STOP}) /\ Fits(queue[s], Recorded(s))
    BY DEF BusInv, TypeOK, RecordsFit
  <2>2. DOMAIN queue[s] = 1..Len(queue[s]) /\ Len(queue[s]) \in Nat
    BY <2>1
  <2>3. PICK n \in 0..Len(queue[s]) : \A k \in 1..Len(queue[s]) : queue[s][k] = STOP <=> k > n
    BY <2>1, <2>2 DEF Fits, Split
  <2>4. i > n
    BY <2>3
  <2>5. j > n
    BY <2>2, <2>4
  <2>6. QED
    BY <2>3, <2>5
<1>2. QED
  BY <1>1, BusSound, PTL

(* What a subscriber got and what waits for it is in the order of the        *)
(* fan-outs and without repetition, whether an event was fanned out on the *)
(* loop, by a thread or through a callback (bus.py _fan_out).              *)
THEOREM DeliveryInOrder == Spec => []InPublishOrder
<1>1. ASSUME BusInv, NEW x, NEW y, Before(fanned, x, y)
      PROVE  Position(x) < Position(y)
  <2>1. /\ fanned \in Seq(Events) /\ DOMAIN fanned = 1..Len(fanned)
        /\ \A a, b \in DOMAIN fanned : fanned[a] = fanned[b] => a = b
    BY <1>1 DEF BusInv, TypeOK, FannedOnce
  <2>2. PICK a \in DOMAIN fanned, b \in DOMAIN fanned : a < b /\ fanned[a] = x /\ fanned[b] = y
    BY <1>1 DEF Before
  <2>3. Position(x) = a
    <3>1. Position(x) \in 1..Len(fanned) /\ fanned[Position(x)] = x
      BY <2>1, <2>2 DEF Position
    <3>2. QED
      BY <2>1, <2>2, <3>1
  <2>4. Position(y) = b
    <3>1. Position(y) \in 1..Len(fanned) /\ fanned[Position(y)] = y
      BY <2>1, <2>2 DEF Position
    <3>2. QED
      BY <2>1, <2>2, <3>1
  <2>5. QED
    BY <2>2, <2>3, <2>4
<1>2. BusInv => InPublishOrder
  <2> SUFFICES ASSUME BusInv, NEW s \in Subscribers,
                      NEW i \in 1..Len(delivered[s] \o queue[s]),
                      NEW j \in 1..Len(delivered[s] \o queue[s]),
                      i < j, STOP \notin {(delivered[s] \o queue[s])[i], (delivered[s] \o queue[s])[j]}
               PROVE  Position((delivered[s] \o queue[s])[i]) < Position((delivered[s] \o queue[s])[j])
    BY DEF InPublishOrder
  <2> DEFINE d == delivered[s]
             q == queue[s]
             all == d \o q
             m == Len(d)
  <2>1. /\ d \in Seq(Events) /\ q \in Seq(Events \cup {STOP})
        /\ OneAfterTheOther(fanned, d, q)
    BY DEF BusInv, TypeOK, Ordered
  <2>2. /\ m \in Nat /\ Len(q) \in Nat /\ DOMAIN d = 1..m /\ DOMAIN q = 1..Len(q)
        /\ Len(all) = m + Len(q)
        /\ \A k \in 1..m : all[k] = d[k]
        /\ \A k \in 1..Len(q) : all[m + k] = q[k]
    <3>1. /\ m \in Nat /\ Len(q) \in Nat /\ DOMAIN d = 1..m /\ DOMAIN q = 1..Len(q)
      BY <2>1
    <3>2. d \in Seq(Events \cup {STOP})
      BY <2>1
    <3> HIDE DEF d, q
    <3>3. /\ Len(all) = m + Len(q)
          /\ \A k \in 1..m : all[k] = d[k]
      BY <2>1, <3>1, <3>2
    <3>4. ASSUME NEW k \in 1..Len(q) PROVE all[m + k] = q[k]
      <4>1. m + k \in (m + 1)..(m + Len(q)) /\ (m + k) - m = k
        BY <3>1
      <4>2. QED
        BY <2>1, <3>1, <3>2, <4>1
    <3>5. QED
      BY <3>1, <3>3, <3>4
  <2>3. /\ i \in 1..Len(all) /\ j \in 1..Len(all) /\ i < j
        /\ all[i] # STOP /\ all[j] # STOP
    OBVIOUS
  <2> HIDE DEF d, q, all, m
  <2>4. Before(fanned, all[i], all[j])
    <3>1. CASE j \in 1..m
      <4>1. i \in 1..m
        BY <2>2, <2>3, <3>1
      <4>2. QED
        BY <2>1, <2>2, <2>3, <3>1, <4>1 DEF OneAfterTheOther, InOrder
    <3>2. CASE j \notin 1..m
      <4> DEFINE l == j - m
      <4>1. l \in 1..Len(q) /\ m + l = j
        BY <2>2, <2>3, <3>2
      <4> HIDE DEF l
      <4>2. all[j] = q[l] /\ l \in DOMAIN q
        BY <2>2, <4>1
      <4>3. CASE i \in 1..m
        BY <2>1, <2>2, <2>3, <4>2, <4>3 DEF OneAfterTheOther
      <4>4. CASE i \notin 1..m
        <5> DEFINE k == i - m
        <5>1. k \in 1..Len(q) /\ m + k = i /\ k < l
          BY <2>2, <2>3, <4>1, <4>4
        <5> HIDE DEF k
        <5>2. all[i] = q[k] /\ k \in DOMAIN q
          BY <2>2, <5>1
        <5>3. QED
          BY <2>1, <2>3, <4>2, <5>1, <5>2 DEF OneAfterTheOther, InOrder
      <4>5. QED
        BY <4>3, <4>4
    <3>3. QED
      BY <3>1, <3>2
  <2>5. Position(all[i]) < Position(all[j])
    BY <1>1, <2>4
  <2>6. QED
    BY <2>5 DEF all, d, q
<1>3. QED
  BY <1>2, BusSound, PTL

(* Outside the lock the budget is what the queues have on record, a record    *)
(* ends with the sizes of the events that wait, and the total stays within *)
(* the cap, whatever fan-outs, gets, departures and stops did to it        *)
(* (bus.py _fan_out, subscribe, _put_stop).                                *)
THEOREM BudgetIsSound == Spec => []BudgetCoversQueues
<1>1. ASSUME BusInv, LockFree
      PROVE  queuedBytes = SumFunction([s \in Attached |-> SumFunction(pending[s])])
  <2> DEFINE f == [s \in Attached |-> SumFunction(pending[s])]
             g == Charged
  <2>1. /\ IsFiniteSet(Attached) /\ Attached \in SUBSET Subscribers
        /\ \A s \in Subscribers : /\ Charged[s] = SumFunction(Recorded(s))
                                  /\ Charged[s] \in Nat /\ Recorded(s) = pending[s]
    BY <1>1, RecordTypes, FreeRecords
  <2>2. \A s \in Attached : f[s] = g[s] /\ g[s] \in Nat
    BY <2>1
  <2>3. SumFunction(f) = SumFunctionOnSet(f, Attached)
    BY DEF SumFunction
  <2>4. queuedBytes = SumFunctionOnSet(g, Attached)
    BY <1>1 DEF BusInv, BytesAddUp
  <2> HIDE DEF f, g
  <2>5. SumFunctionOnSet(f, Attached) = SumFunctionOnSet(g, Attached)
    BY <2>1, <2>2, SumSame
  <2>6. queuedBytes = SumFunction(f)
    BY <2>3, <2>4, <2>5
  <2>7. QED
    BY <2>6 DEF f
<1>2. ASSUME BusInv, LockFree, NEW s \in Subscribers
      PROVE  LET early == Len(pending[s]) - Waiting(s) IN
             /\ early >= 0
             /\ \A i \in 1..Waiting(s) : queue[s][i] # STOP =>
                   pending[s][early + i] = SizeOf[queue[s][i]]
  <2> DEFINE q == queue[s]
             p == pending[s]
  <2>1. /\ q \in Seq(Events \cup {STOP}) /\ p \in Seq(Nat) /\ Fits(q, p)
    BY <1>2, FreeRecords DEF BusInv, TypeOK, RecordsFit
  <2>2. /\ Len(q) \in Nat /\ DOMAIN q = 1..Len(q) /\ Len(p) \in Nat
    BY <2>1
  <2>3. PICK n \in 0..Len(p) :
           /\ n \in 0..Len(q) /\ \A i \in DOMAIN q : q[i] = STOP <=> i > n
           /\ \A i \in 1..n : p[(Len(p) - n) + i] = SizeOf[q[i]]
    BY <2>1 DEF Fits, Split
  <2>4. {i \in DOMAIN q : q[i] # STOP} = 1..n
    <3>1. \A i \in DOMAIN q : q[i] # STOP <=> ~(i > n)
      BY <2>3
    <3>2. QED
      BY <2>2, <2>3, <3>1
  <2>5. Cardinality(1..n) = n
    <3>1. n \in Nat
      OBVIOUS
    <3> HIDE DEF q, p
    <3>2. QED
      BY <3>1, FS_Interval
  <2>6. Waiting(s) = n
    BY <2>4, <2>5 DEF Waiting
  <2>7. Len(p) - n >= 0
    BY <2>2
  <2>8. QED
    BY <2>3, <2>6, <2>7
<1>3. BusInv => BudgetCoversQueues
  BY <1>1, <1>2 DEF BudgetCoversQueues, BusInv, BytesAddUp
<1>4. QED
  BY <1>3, BusSound, PTL

(* An event that subscribers are deprived of while the bus runs is counted   *)
(* by `dropped` in that very step: the fan-out alone deprives anybody, and *)
(* it counts whom it passed over (bus.py:6-7, _fan_out).                   *)
LEMMA NobodyDeprived ==
  ASSUME BusInv, UNCHANGED <<fanned, dropped>>,
         \A s \in Attached \cap Attached' : Kept(s)' = Kept(s)
  PROVE  dropped' - dropped = SumFunction([s \in Attached \cap Attached' |-> Deprived(s)])
<1> DEFINE S == Attached \cap Attached'
           f == [s \in S |-> Deprived(s)]
<1>1. IsFiniteSet(S)
  BY RecordTypes, FS_Subset
<1>2. dropped' - dropped = 0 /\ Len(fanned) \in Nat
  BY DEF BusInv, TypeOK
<1>3. \A s \in S : f[s] = 0
  <2>1. ASSUME NEW s \in S PROVE Kept(s) \in Nat
    <3>1. s \in Subscribers
      BY RecordTypes
    <3>2. queue[s] \in Seq(Events \cup {STOP}) /\ delivered[s] \in Seq(Events)
      BY <3>1 DEF BusInv, TypeOK
    <3>3. Len(queue[s]) \in Nat /\ Len(delivered[s]) \in Nat
      BY <3>2
    <3> DEFINE a == Len(delivered[s])
               b == Len(queue[s])
    <3>4. Kept(s) = a + b
      BY DEF Kept
    <3> HIDE DEF a, b
    <3>5. a \in Nat /\ b \in Nat
      BY <3>3 DEF a, b
    <3>6. QED
      BY <3>4, <3>5
  <2>2. ASSUME NEW s \in S PROVE Deprived(s) = 0
    <3>1. Kept(s)' = Kept(s) /\ Kept(s) \in Nat
      BY <2>1
    <3>2. QED
      BY <1>2, <3>1 DEF Deprived
  <2>3. QED
    BY <2>2
<1>4. SumFunction(f) = SumFunctionOnSet(f, S)
  BY DEF SumFunction
<1> HIDE DEF f, S
<1>5. SumFunctionOnSet(f, S) = 0
  <2>1. 0 \in Nat /\ Cardinality(S) \in Nat
    BY <1>1, FS_CardinalityType
  <2>2. SumFunctionOnSet(f, S) = 0 * Cardinality(S)
    BY <1>1, <1>3, <2>1, SumConstant
  <2>3. QED
    BY <2>1, <2>2
<1>6. dropped' - dropped = SumFunction(f)
  BY <1>2, <1>4, <1>5
<1>7. QED
  BY <1>6 DEF f, S

LEMMA PassedOver ==
  ASSUME BusInv, NEW e \in Events, NEW K, Puts(e, K), UNCHANGED delivered
  PROVE  dropped' - dropped = SumFunction([s \in Attached \cap Attached' |-> Deprived(s)])
<1> DEFINE S == Attached \cap Attached'
           g == [s \in S |-> Deprived(s)]
           f == [s \in S |-> 1]
           h == [s \in K |-> 1]
<1>1. /\ S = Attached /\ IsFiniteSet(S) /\ IsFiniteSet(K) /\ K \in SUBSET S
      /\ Cardinality(S) = Len(subs) /\ dropped \in Nat
      /\ dropped' = dropped + (Len(subs) - Cardinality(K))
  BY DEF Puts, Attached, BusInv, TypeOK
<1>2. ASSUME NEW s \in S PROVE Deprived(s) = IF s \in K THEN 0 ELSE 1
  <2>1. s \in Subscribers
    BY RecordTypes
  <2>2. /\ queue[s] \in Seq(Events \cup {STOP}) /\ delivered[s] \in Seq(Events)
        /\ fanned \in Seq(Events)
    BY <2>1 DEF BusInv, TypeOK
  <2>3. /\ Len(queue[s]) \in Nat /\ Len(delivered[s]) \in Nat /\ Len(fanned) \in Nat
        /\ Len(Append(queue[s], e)) = Len(queue[s]) + 1
        /\ Len(Append(fanned, e)) = Len(fanned) + 1
    BY <2>2
  <2>4. /\ queue'[s] = IF s \in K THEN Append(queue[s], e) ELSE queue[s]
        /\ fanned' = Append(fanned, e) /\ delivered' = delivered
    BY <2>1 DEF Puts
  <2> DEFINE a == Len(delivered[s])
             b == Len(queue[s])
             c == Len(queue'[s])
             n == Len(fanned)
             m == Len(fanned')
  <2>5. /\ Kept(s) = a + b /\ Kept(s)' = a + c /\ Deprived(s) = (m - n) - (Kept(s)' - Kept(s))
        /\ a \in Nat /\ b \in Nat /\ n \in Nat
    BY <2>3, <2>4 DEF Kept, Deprived
  <2>6. /\ m = n + 1
        /\ c = IF s \in K THEN b + 1 ELSE b
    BY <2>3, <2>4
  <2> HIDE DEF a, b, c, n, m
  <2>7. QED
    BY <2>5, <2>6
<1>3. /\ \A s \in S : f[s] = 1 /\ g[s] \in Nat
      /\ \A s \in K : h[s] = 1 /\ f[s] = g[s] + h[s]
      /\ \A s \in S \ K : f[s] = g[s]
  BY <1>1, <1>2
<1>4. SumFunction(g) = SumFunctionOnSet(g, S)
  BY DEF SumFunction
<1> HIDE DEF f, g, h, S
<1>5. /\ SumFunctionOnSet(f, S) = SumFunctionOnSet(g, S) + SumFunctionOnSet(h, K)
      /\ SumFunctionOnSet(g, S) \in Nat
  <2>1. \A s \in S : f[s] \in Nat /\ g[s] \in Nat
    BY <1>3
  <2>2. \A s \in K : h[s] \in Nat /\ f[s] = g[s] + h[s]
    BY <1>3
  <2>3. \A s \in S \ K : f[s] = g[s]
    BY <1>3
  <2>4. IsFiniteSet(S) /\ K \in SUBSET S
    BY <1>1
  <2>5. QED
    BY <2>1, <2>2, <2>3, <2>4, SumSplit
<1>6. /\ SumFunctionOnSet(f, S) = 1 * Cardinality(S) /\ Cardinality(S) \in Nat
      /\ SumFunctionOnSet(h, K) = 1 * Cardinality(K) /\ Cardinality(K) \in Nat
  <2>1. Cardinality(S) \in Nat /\ Cardinality(K) \in Nat
    BY <1>1, FS_CardinalityType
  <2>2. SumFunctionOnSet(f, S) = 1 * Cardinality(S)
    BY <1>1, <1>3, SumConstant
  <2>3. SumFunctionOnSet(h, K) = 1 * Cardinality(K)
    BY <1>1, <1>3, SumConstant
  <2>4. QED
    BY <2>1, <2>2, <2>3
<1>7. dropped' - dropped = SumFunction(g)
  <2>1. dropped' - dropped = Cardinality(S) - Cardinality(K)
    BY <1>1, <1>6
  <2>2. SumFunctionOnSet(g, S) = Cardinality(S) - Cardinality(K)
    BY <1>5, <1>6
  <2>3. QED
    BY <1>4, <2>1, <2>2
<1>8. QED
  BY <1>7 DEF g, S

\* What a step of the running bus drops it counts.
Counts == dropped' - dropped = SumFunction([s \in Attached \cap Attached' |-> Deprived(s)])

LEMMA StepsCount ==
  ASSUME BusInv, Next, ~stopped'
  PROVE  Counts
<1>1. ASSUME UNCHANGED <<fanned, dropped, queue, delivered>> PROVE Counts
  BY <1>1, NobodyDeprived DEF Counts, Kept
<1>2. ASSUME NEW e \in Events, FanOut(e), UNCHANGED delivered PROVE Counts
  <2>1. CASE UNCHANGED <<busVars, fanned>>
    BY <1>1, <1>2, <2>1 DEF busVars
  <2>2. ASSUME NEW K \in SUBSET Attached, Puts(e, K) PROVE Counts
    BY <1>2, <2>2, PassedOver DEF Counts
  <2>3. QED
    BY <1>2, <2>1, <2>2, FanOutPuts
<1>3. CASE Reject
  BY <1>1, <1>3 DEF Reject, busVars
<1>4. CASE PublishOnLoop
  BY <1>2, <1>4, LoopRuns DEF PublishOnLoop
<1>5. CASE StopHere \/ StopFromThread
  <2>1. stops' = stops + 1 /\ stops \in Nat
    BY <1>5 DEF StopHere, StopFromThread, Stopping, BusInv, TypeOK
  <2>2. QED
    BY <2>1 DEF stopped
<1>6. CASE RunCallback
  <2>1. UNCHANGED delivered
    BY <1>6 DEF RunCallback
  <2>2. QED
    BY <1>2, <1>6, <2>1, LoopRuns
<1>7. ASSUME NEW t \in Threads, ThreadAccept(t) \/ ThreadSchedule(t) \/ ThreadCharge(t)
      PROVE  Counts
  BY <1>1, <1>7 DEF ThreadAccept, ThreadSchedule, ThreadCharge, busVars
<1>8. ASSUME NEW t \in Threads, ThreadFanOut(t) PROVE Counts
  <2>1. UNCHANGED delivered /\ thread[t].event \in Events
    BY <1>8, ThreadFans DEF ThreadFanOut
  <2>2. CASE UNCHANGED <<busVars, fanned>>
    BY <1>1, <2>1, <2>2 DEF busVars
  <2>3. ASSUME NEW K \in SUBSET Attached, Puts(thread[t].event, K) PROVE Counts
    BY <2>1, <2>3, PassedOver DEF Counts
  <2>4. QED
    BY <1>8, <2>2, <2>3, ThreadFans
<1>9. ASSUME NEW s \in Subscribers, Subscribe(s) \/ Resume(s) \/ Abandon(s) PROVE Counts
  BY <1>1, <1>9 DEF Subscribe, Resume, Abandon, busVars
<1>10. ASSUME NEW s \in Attached, NEW b \in Nat, NEW q \in Seq(Nat), Detach(s, b, q),
              UNCHANGED <<fanned, dropped, delivered>>
       PROVE  Counts
  <2>1. Attached' = Attached \ {s} /\ queue' = [queue EXCEPT ![s] = <<>>]
    BY <1>10, DetachTypes DEF BusInv
  <2>2. ASSUME NEW u \in Attached \cap Attached' PROVE Kept(u)' = Kept(u)
    <3>1. u # s /\ u \in Subscribers /\ queue \in [Subscribers -> Seq(Events \cup {STOP})]
      BY <2>1, RecordTypes DEF BusInv, TypeOK
    <3>2. queue'[u] = queue[u]
      BY <2>1, <3>1
    <3>3. QED
      BY <1>10, <3>2 DEF Kept
  <2>3. QED
    BY <1>10, <2>2, NobodyDeprived DEF Counts
<1>11. ASSUME NEW s \in Subscribers, Close(s) PROVE Counts
  <2>1. s \in Attached /\ queuedBytes \in Nat /\ pending[s] \in Seq(Nat)
    BY <1>11 DEF Close, BusInv, Membership, TypeOK
  <2>2. QED
    BY <1>10, <1>11, <2>1 DEF Close
<1>12. ASSUME NEW s \in Subscribers, Get(s) PROVE Counts
  <2>1. UNCHANGED <<fanned, dropped>>
    BY <1>12 DEF Get
  <2>2. CASE Head(queue[s]) = STOP
    BY <1>10, <1>12, <2>1, <2>2, Gets DEF Get
  <2>3. CASE Head(queue[s]) # STOP
    <3>1. /\ s \in Attached /\ queue[s] # <<>> /\ subs' = subs
          /\ queue' = [queue EXCEPT ![s] = Tail(@)]
          /\ delivered' = [delivered EXCEPT ![s] = Append(@, Head(queue[s]))]
      BY <1>12, <2>3, Gets DEF Get
    <3>2. ASSUME NEW u \in Attached PROVE Kept(u)' = Kept(u)
      <4> DEFINE q == queue[u]
                 d == delivered[u]
      <4>1. /\ u \in Subscribers /\ q \in Seq(Events \cup {STOP}) /\ d \in Seq(Events)
            /\ queue \in [Subscribers -> Seq(Events \cup {STOP})]
            /\ delivered \in [Subscribers -> Seq(Events)]
        BY RecordTypes DEF BusInv, TypeOK
      <4>2. CASE u # s
        <5>1. queue'[u] = queue[u] /\ delivered'[u] = delivered[u]
          BY <3>1, <4>1, <4>2
        <5>2. QED
          BY <5>1 DEF Kept
      <4>3. CASE u = s
        <5> DEFINE x == Head(q)
        <5>1. queue'[u] = Tail(q) /\ delivered'[u] = Append(d, x)
          BY <3>1, <4>1, <4>3
        <5>2. q # <<>> /\ Len(q) \in Nat /\ Len(q) # 0 /\ Len(d) \in Nat
          BY <3>1, <4>1, <4>3
        <5>3. Len(Tail(q)) = Len(q) - 1 /\ Len(Append(d, x)) = Len(d) + 1
          BY <4>1, <5>2
        <5>4. Kept(u) = Len(d) + Len(q) /\ Kept(u)' = Len(Append(d, x)) + Len(Tail(q))
          BY <5>1 DEF Kept
        <5> DEFINE a == Len(d)
                   b == Len(q)
                   c == Len(Append(d, x))
                   n == Len(Tail(q))
        <5>5. a \in Nat /\ b \in Nat /\ n = b - 1 /\ c = a + 1
          BY <5>2, <5>3
        <5>6. Kept(u) = a + b /\ Kept(u)' = c + n
          BY <5>4
        <5> HIDE DEF a, b, c, n
        <5>7. QED
          BY <5>5, <5>6
      <4>4. QED
        BY <4>2, <4>3
    <3>3. Attached \cap Attached' = Attached
      BY <3>1 DEF Attached
    <3>4. QED
      BY <2>1, <3>2, <3>3, NobodyDeprived DEF Counts
  <2>4. QED
    BY <2>2, <2>3
<1>13. QED
  BY <1>3, <1>4, <1>5, <1>6, <1>7, <1>8, <1>9, <1>11, <1>12 DEF Next

(* Drops are observable: in each step of the running bus `dropped` grows by  *)
(* the number of subscribers that an event fanned out did not reach        *)
(* (bus.py:6-7, _fan_out).                                                 *)
THEOREM DropsAreObservable == Spec => DropsAreCounted
<1>1. ASSUME BusInv, Next PROVE ~stopped' => Counts
  BY <1>1, StepsCount
<1>2. BusInv /\ [Next]_vars => [~stopped' => Counts]_vars
  BY <1>1
<1>3. QED
  BY <1>2, BusSound, PTL DEF Spec, DropsAreCounted, Counts

=============================================================================
