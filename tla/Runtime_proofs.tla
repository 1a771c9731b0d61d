--------------------------- MODULE Runtime_proofs ---------------------------
(* Theorems about what one runtime owns: RequestAdmission, InstanceLock and *)
(* RegistryStore, for every value of their constants.                       *)
EXTENDS RequestAdmission, InstanceLock, RegistryStore, Integers, FiniteSetTheorems,
        WellFoundedInduction, TLAPS

-----------------------------------------------------------------------------
(* Request admission                                                      *)
-----------------------------------------------------------------------------
(* Every non-empty set of naturals has a least element.  It is what stands  *)
(* in for induction in this development: a property of all the positions   *)
(* of a sequence is proved by taking the least position that refutes it.   *)
LEMMA LeastNatural ==
  ASSUME NEW T \in SUBSET Nat, T # {}
  PROVE  \E n \in T : \A m \in T : n <= m
<1> DEFINE Below == OpToRel(<, Nat)
<1>1. IsWellFoundedOn(Below, Nat)
  BY NatLessThanWellFounded
<1>2. \A x, y \in Nat : x < y => <<x, y>> \in Below
  BY DEF OpToRel
<1> HIDE DEF Below
<1>3. PICK x \in T : \A y \in T : ~(<<y, x>> \in Below)
  BY <1>1, WFMin
<1>4. \A y \in T : ~(y < x)
  BY <1>2, <1>3
<1>5. QED
  BY <1>4

(* Removing an element from a set of finite cardinality counts one less,    *)
(* adding a new one counts one more, and a set with an element is counted. *)
LEMMA CountAdd ==
  ASSUME NEW S, IsFiniteSet(S), NEW x, x \notin S
  PROVE  IsFiniteSet(S \cup {x}) /\ Cardinality(S \cup {x}) = Cardinality(S) + 1
BY FS_AddElement

LEMMA CountRemove ==
  ASSUME NEW S, IsFiniteSet(S), NEW x \in S
  PROVE  /\ IsFiniteSet(S \ {x})
         /\ Cardinality(S \ {x}) = Cardinality(S) - 1
         /\ Cardinality(S) \in Nat \ {0}
BY FS_RemoveElement, FS_CardinalityType, FS_EmptySet

(* A set whose parts, one for each value of f, have at most q members each  *)
(* has no more members than q for every value.  It is an induction over    *)
(* finite sets, in the form of a smallest set that refutes the claim.      *)
Values(f, T) == {f[x] : x \in T}

LEMMA CountByValue ==
  ASSUME NEW S, IsFiniteSet(S), NEW f, NEW q \in Nat,
         \A x \in S : Cardinality({y \in S : f[y] = f[x]}) <= q
  PROVE  /\ IsFiniteSet(Values(f, S))
         /\ Cardinality(S) <= Cardinality(Values(f, S)) * q
<1> DEFINE Bounded(T) == /\ IsFiniteSet(Values(f, T))
                         /\ Cardinality(T) <= Cardinality(Values(f, T)) * q
           Sizes == {n \in Nat : \E T \in SUBSET S : Cardinality(T) = n /\ ~Bounded(T)}
<1>1. ASSUME NEW T \in SUBSET S
      PROVE  IsFiniteSet(T) /\ Cardinality(T) \in Nat
  BY FS_Subset, FS_CardinalityType
<1>2. ASSUME NEW T \in SUBSET S, ~Bounded(T),
             \A U \in SUBSET S : Cardinality(U) < Cardinality(T) => Bounded(U)
      PROVE  FALSE
  <2>1. CASE T = {}
    <3>1. Values(f, T) = {}
      BY <2>1 DEF Values
    <3>2. Bounded(T)
      BY <2>1, <3>1, FS_EmptySet
    <3>3. QED
      BY <1>2, <3>2
  <2>2. ASSUME NEW x \in T
        PROVE  FALSE
    <3> DEFINE P == {y \in T : f[y] = f[x]}
               U == T \ P
    <3>1. IsFiniteSet(P) /\ Cardinality(P) \in Nat \ {0}
      BY <1>1, FS_EmptySet
    <3>2. Cardinality(P) <= q
      <4> DEFINE R == {y \in S : f[y] = f[x]}
      <4>1. P \in SUBSET R /\ IsFiniteSet(R) /\ Cardinality(R) <= q
        BY <1>1
      <4>2. Cardinality(R) \in Nat /\ Cardinality(P) <= Cardinality(R)
        BY <4>1, FS_Subset, FS_CardinalityType
      <4>3. QED
        BY <3>1, <4>1, <4>2
    <3>3. U \in SUBSET S /\ Cardinality(U) = Cardinality(T) - Cardinality(P)
      <4>1. T \cap P = P
        OBVIOUS
      <4>2. QED
        BY <1>1, <4>1, FS_Difference
    <3> HIDE DEF P
    <3>4. Bounded(U)
      BY <1>1, <1>2, <3>1, <3>3
    <3>5. /\ Values(f, T) = Values(f, U) \cup {f[x]}
          /\ f[x] \notin Values(f, U)
      BY DEF Values, P
    <3>6. /\ IsFiniteSet(Values(f, T))
          /\ Cardinality(Values(f, T)) = Cardinality(Values(f, U)) + 1
          /\ Cardinality(Values(f, U)) \in Nat
      BY <3>4, <3>5, CountAdd, FS_CardinalityType
    <3> DEFINE c == Cardinality(Values(f, U))
    <3>7. c * q + q = (c + 1) * q
      BY <3>6
    <3>8. Cardinality(T) <= c * q + q
      <4>1. c * q \in Nat
        BY <3>6
      <4>2. Cardinality(T) = Cardinality(U) + Cardinality(P) /\ Cardinality(U) <= c * q
        BY <1>1, <3>1, <3>3, <3>4
      <4>3. QED
        BY <1>1, <3>1, <3>2, <3>3, <4>1, <4>2
    <3>9. QED
      BY <1>2, <3>6, <3>7, <3>8
  <2>3. QED
    BY <2>1, <2>2
<1>3. Sizes = {}
  <2> SUFFICES ASSUME Sizes # {} PROVE FALSE
    OBVIOUS
  <2>1. PICK n \in Sizes : \A m \in Sizes : n <= m
    BY LeastNatural
  <2>2. PICK T \in SUBSET S : Cardinality(T) = n /\ ~Bounded(T)
    BY <2>1
  <2> HIDE DEF Bounded
  <2>3. ASSUME NEW U \in SUBSET S, Cardinality(U) < Cardinality(T)
        PROVE  Bounded(U)
    BY <1>1, <2>1, <2>2, <2>3
  <2>4. QED
    BY <1>2, <2>2, <2>3
<1>4. Bounded(S)
  <2> HIDE DEF Bounded
  <2>1. QED
    BY <1>1, <1>3
<1>5. QED
  BY <1>4

(* q is the end of g, and f elements of g come before it.                  *)
EndOf(q, g, f) ==
    /\ f \in Nat
    /\ Len(g) = f + Len(q)
    /\ \A i \in 1..Len(q) : q[i] = g[i + f]

(* Appending the same element to both keeps q the end of g.                *)
LEMMA EndOfAppend ==
  ASSUME NEW S, NEW g \in Seq(S), NEW q \in Seq(S), NEW x \in S, NEW f,
         EndOf(q, g, f)
  PROVE  EndOf(Append(q, x), Append(g, x), f)
<1>1. /\ Len(Append(q, x)) = Len(q) + 1
      /\ Len(Append(g, x)) = Len(g) + 1
      /\ Len(q) \in Nat
      /\ Len(g) \in Nat
      /\ f \in Nat
      /\ Len(g) = f + Len(q)
  BY DEF EndOf
<1>2. ASSUME NEW i \in 1..(Len(q) + 1)
      PROVE  Append(q, x)[i] = Append(g, x)[i + f]
  <2>1. CASE i <= Len(q)
    <3>1. i \in 1..Len(q) /\ i + f \in 1..Len(g)
      BY <2>1, <1>1
    <3>2. q[i] = g[i + f]
      BY <3>1 DEF EndOf
    <3>3. QED
      BY <3>1, <3>2
  <2>2. CASE i = Len(q) + 1
    <3>1. i + f = Len(g) + 1
      BY <2>2, <1>1
    <3>2. QED
      BY <2>2, <3>1
  <2>3. QED
    BY <1>1, <2>1, <2>2
<1>3. QED
  BY <1>1, <1>2, SMTT(30) DEF EndOf

(* Dropping the first n elements of q leaves an end of g.                  *)
LEMMA EndOfDrop ==
  ASSUME NEW S, NEW g \in Seq(S), NEW q \in Seq(S), NEW f, EndOf(q, g, f),
         NEW n \in 0..Len(q)
  PROVE  EndOf(SubSeq(q, n + 1, Len(q)), g, f + n)
<1> DEFINE r == SubSeq(q, n + 1, Len(q))
<1>1. /\ Len(q) \in Nat
      /\ f \in Nat
      /\ Len(g) = f + Len(q)
      /\ Len(r) = Len(q) - n
      /\ \A i \in 1..Len(r) : r[i] = q[i + n]
  BY DEF EndOf
<1>2. ASSUME NEW i \in 1..(Len(q) - n)
      PROVE  r[i] = g[i + (f + n)]
  <2>1. i + n \in 1..Len(q) /\ (i + n) + f = i + (f + n)
    BY <1>1, SMTT(30)
  <2>2. QED
    BY <1>1, <2>1 DEF EndOf
<1> HIDE DEF r
<1>3. Len(g) = (f + n) + Len(r) /\ f + n \in Nat
  BY <1>1
<1>4. EndOf(r, g, f + n)
  BY <1>1, <1>2, <1>3 DEF EndOf
<1>5. QED
  BY <1>4 DEF r

-----------------------------------------------------------------------------
(* The while loop of RateLimiter.allow stops: it pops a number of hits that *)
(* are all stale, and the next one, if there is one, is not.               *)
LEMMA PoppedProperties ==
  ASSUME NEW q \in Seq(Nat), now \in Nat
  PROVE  /\ Popped(q) \in 0..Len(q)
         /\ \A i \in 1..Popped(q) : Stale(q[i])
         /\ Popped(q) < Len(q) => ~Stale(q[Popped(q) + 1])
<1> DEFINE Stops == {n \in 0..Len(q) : n < Len(q) => ~Stale(q[n + 1])}
<1>1. Stops \in SUBSET Nat /\ Stops # {}
  <2>1. Len(q) \in Stops
    OBVIOUS
  <2>2. QED
    BY <2>1
<1>2. PICK n \in Stops : \A m \in Stops : n <= m
  BY <1>1, LeastNatural
<1>3. \A i \in 1..n : Stale(q[i])
  <2> SUFFICES ASSUME NEW i \in 1..n, ~Stale(q[i])
               PROVE  FALSE
    OBVIOUS
  <2>1. i - 1 \in Stops /\ n \in Nat
    OBVIOUS
  <2> HIDE DEF Stops
  <2>2. n <= i - 1
    BY <2>1, <1>2
  <2>3. QED
    BY <2>1, <2>2
<1>4. \E m \in 0..Len(q) : /\ \A i \in 1..m : Stale(q[i])
                           /\ m < Len(q) => ~Stale(q[m + 1])
  BY <1>2, <1>3
<1>5. QED
  BY <1>4 DEF Popped

(* What is left of the deque is a suffix of it.                            *)
LEMMA PrunedProperties ==
  ASSUME NEW q \in Seq(Nat), now \in Nat
  PROVE  /\ Pruned(q) \in Seq(Nat)
         /\ Len(Pruned(q)) = Len(q) - Popped(q)
         /\ \A i \in 1..Len(Pruned(q)) : Pruned(q)[i] = q[i + Popped(q)]
BY PoppedProperties, SMTT(30) DEF Pruned

-----------------------------------------------------------------------------
(* Every variable keeps its type.                                          *)
THEOREM AdmissionTypeCorrect == AdmissionSpec => []AdmissionTypeOK
<1>1. AdmissionInit => AdmissionTypeOK
  BY DEF AdmissionInit, AdmissionTypeOK
<1>2. AdmissionTypeOK /\ [AdmissionNext]_admissionVars => AdmissionTypeOK'
  <2> SUFFICES ASSUME AdmissionTypeOK, [AdmissionNext]_admissionVars
               PROVE  AdmissionTypeOK'
    OBVIOUS
  <2> USE AdmissionAssumption
  <2>1. ASSUME NEW k \in RateKeys
        PROVE  Pruned(hits[k]) \in Seq(Nat)
    BY PrunedProperties DEF AdmissionTypeOK
  <2>2. CASE Tick
    BY <2>2 DEF Tick, gateVars, AdmissionTypeOK
  <2>3. ASSUME NEW r \in Requests, RateLimited(r)
        PROVE  AdmissionTypeOK'
    BY <2>1, <2>3 DEF RateLimited, gateVars, AdmissionTypeOK
  <2>4. ASSUME NEW r \in Requests, Refuse(r)
        PROVE  AdmissionTypeOK'
    BY <2>1, <2>4 DEF Refuse, Hit, gateVars, AdmissionTypeOK
  <2>5. ASSUME NEW r \in Requests, Admit(r)
        PROVE  AdmissionTypeOK'
    BY <2>1, <2>5 DEF Admit, Hit, AdmissionTypeOK
  <2>6. ASSUME NEW r \in Requests, ReleaseSlot(r)
        PROVE  AdmissionTypeOK'
    BY <2>6 DEF ReleaseSlot, AdmissionTypeOK
  <2>7. CASE UNCHANGED admissionVars
    BY <2>7 DEF admissionVars, AdmissionTypeOK
  <2>8. QED
    BY <2>2, <2>3, <2>4, <2>5, <2>6, <2>7 DEF AdmissionNext
<1>3. QED
  BY <1>1, <1>2, PTL DEF AdmissionSpec

-----------------------------------------------------------------------------
(* The counters of the gate count the requests in flight.                  *)

(* GateCountsRequests is inductive once the sets it counts are finite.     *)
GateInv == IsFiniteSet(running) /\ GateCountsRequests

LEMMA OfFinite ==
  ASSUME IsFiniteSet(running), NEW p
  PROVE  IsFiniteSet(Of(p))
BY FS_Subset DEF Of

(* Admitting a request raises exactly the counters of its principal.       *)
LEMMA AdmitKeepsGateInv ==
  ASSUME AdmissionTypeOK, GateInv, NEW r \in Requests, Admit(r)
  PROVE  GateInv'
<1> USE AdmissionAssumption
<1> DEFINE p == PrincipalOf[r]
<1>1. /\ IsFiniteSet(running')
      /\ Cardinality(running') = Cardinality(running) + 1
  BY CountAdd DEF Admit, GateInv
<1>2. Of(p)' = Of(p) \cup {r} /\ r \notin Of(p)
  BY DEF Admit, Of, AdmissionTypeOK
<1>3. Cardinality(Of(p)') = Cardinality(Of(p)) + 1
  BY <1>2, CountAdd, OfFinite DEF GateInv
<1>4. \A o \in Principals \ {p} : Of(o)' = Of(o)
  BY DEF Admit, Of, AdmissionTypeOK
<1>5. inFlight < Limit /\ perPrincipal[p] < Quota
  BY DEF Admit, GlobalFull, QuotaFull, AdmissionTypeOK
<1>6. (inFlight = Cardinality(running) /\ Cardinality(running) <= Limit)'
  BY <1>1, <1>5 DEF Admit, GateInv, GateCountsRequests, AdmissionTypeOK
<1>7. ASSUME NEW o \in Principals
      PROVE  (perPrincipal[o] = Cardinality(Of(o)) /\ Cardinality(Of(o)) <= Quota)'
  <2>1. CASE o = p
    BY <2>1, <1>3, <1>5 DEF Admit, GateInv, GateCountsRequests, AdmissionTypeOK
  <2>2. CASE o # p
    BY <2>2, <1>4 DEF Admit, GateInv, GateCountsRequests, AdmissionTypeOK
  <2>3. QED
    BY <2>1, <2>2
<1>8. QED
  BY <1>1, <1>6, <1>7 DEF GateInv, GateCountsRequests

(* Releasing it gives exactly those slots back: neither clamp of release   *)
(* is ever what makes the counters right.                                  *)
LEMMA ReleaseKeepsGateInv ==
  ASSUME AdmissionTypeOK, GateInv, NEW r \in Requests, ReleaseSlot(r)
  PROVE  GateInv'
<1> USE AdmissionAssumption
<1> DEFINE p == PrincipalOf[r]
<1>1. /\ IsFiniteSet(running')
      /\ Cardinality(running') = Cardinality(running) - 1
      /\ Cardinality(running) \in Nat \ {0}
  BY CountRemove DEF ReleaseSlot, GateInv
<1>2. Of(p)' = Of(p) \ {r} /\ r \in Of(p)
  BY DEF ReleaseSlot, Of, AdmissionTypeOK
<1>3. /\ Cardinality(Of(p)') = Cardinality(Of(p)) - 1
      /\ Cardinality(Of(p)) \in Nat \ {0}
  BY <1>2, CountRemove, OfFinite DEF GateInv
<1>4. \A o \in Principals \ {p} : Of(o)' = Of(o)
  BY DEF ReleaseSlot, Of, AdmissionTypeOK
<1>5. (inFlight = Cardinality(running) /\ Cardinality(running) <= Limit)'
  BY <1>1 DEF ReleaseSlot, GateInv, GateCountsRequests, AdmissionTypeOK
<1>6. ASSUME NEW o \in Principals
      PROVE  (perPrincipal[o] = Cardinality(Of(o)) /\ Cardinality(Of(o)) <= Quota)'
  <2>1. CASE o = p
    BY <2>1, <1>3, SMTT(30) DEF ReleaseSlot, GateInv, GateCountsRequests, AdmissionTypeOK
  <2>2. CASE o # p
    BY <2>2, <1>4 DEF ReleaseSlot, GateInv, GateCountsRequests, AdmissionTypeOK
  <2>3. QED
    BY <2>1, <2>2
<1>7. QED
  BY <1>1, <1>5, <1>6 DEF GateInv, GateCountsRequests

LEMMA GateSound == AdmissionSpec => []GateInv
<1>1. AdmissionInit => GateInv
  <2> SUFFICES ASSUME AdmissionInit PROVE GateInv
    OBVIOUS
  <2>1. running = {} /\ \A p : Of(p) = {}
    BY DEF AdmissionInit, Of
  <2>2. /\ IsFiniteSet(running)
        /\ Cardinality(running) = 0
        /\ \A p : Cardinality(Of(p)) = 0
    BY <2>1, FS_EmptySet
  <2>3. QED
    BY <2>2, AdmissionAssumption DEF AdmissionInit, GateInv, GateCountsRequests
<1>2. AdmissionTypeOK /\ GateInv /\ [AdmissionNext]_admissionVars => GateInv'
  <2> SUFFICES ASSUME AdmissionTypeOK, GateInv, [AdmissionNext]_admissionVars
               PROVE  GateInv'
    OBVIOUS
  <2>1. CASE UNCHANGED gateVars
    BY <2>1 DEF gateVars, GateInv, GateCountsRequests, Of
  <2>2. ASSUME NEW r \in Requests, Admit(r)
        PROVE  GateInv'
    BY <2>2, AdmitKeepsGateInv
  <2>3. ASSUME NEW r \in Requests, ReleaseSlot(r)
        PROVE  GateInv'
    BY <2>3, ReleaseKeepsGateInv
  <2>4. QED
    BY <2>1, <2>2, <2>3 DEF AdmissionNext, admissionVars, gateVars, Tick, RateLimited, Refuse
<1>3. QED
  BY <1>1, <1>2, AdmissionTypeCorrect, PTL DEF AdmissionSpec

(* No slot leaks and none is given back twice: the two counters are the    *)
(* requests in flight, hence both ceilings bound real handlers.            *)
THEOREM GateCorrect == AdmissionSpec => []GateCountsRequests
<1>1. GateInv => GateCountsRequests
  BY DEF GateInv
<1>2. QED
  BY <1>1, GateSound, PTL

(* The requests in flight fill no more than the quotas of the principals    *)
(* that have some.                                                         *)
LEMMA QuotasHoldAll ==
  ASSUME AdmissionTypeOK, GateInv
  PROVE  Cardinality(running) <= Cardinality(ActivePrincipals) * Quota
<1>1. ASSUME NEW x \in running
      PROVE  Cardinality({y \in running : PrincipalOf[y] = PrincipalOf[x]}) <= Quota
  <2>1. PrincipalOf[x] \in Principals
    BY AdmissionAssumption DEF AdmissionTypeOK
  <2>2. QED
    BY <2>1 DEF GateInv, GateCountsRequests, Of
<1>2. Values(PrincipalOf, running) = ActivePrincipals
  BY AdmissionAssumption DEF Values, ActivePrincipals, Of, AdmissionTypeOK
<1>3. Quota \in Nat /\ IsFiniteSet(running)
  BY AdmissionAssumption DEF GateInv
<1>4. QED
  BY <1>1, <1>2, <1>3, CountByValue

(* A caller with nothing in flight is refused by the gate only when the     *)
(* quotas of the active principals fill the process.                       *)
THEOREM NoisyNeighbourHolds == AdmissionSpec => NoisyNeighbour
<1>1. ASSUME AdmissionTypeOK, GateInv, NEW r \in Requests, Refuse(r), Of(PrincipalOf[r]) = {}
      PROVE  Cardinality(ActivePrincipals) * Quota >= Limit
  <2>1. PrincipalOf[r] \in Principals /\ Quota \in Nat \ {0} /\ Limit \in Nat
    BY AdmissionAssumption
  <2>2. ~QuotaFull(PrincipalOf[r])
    <3>1. perPrincipal[PrincipalOf[r]] = 0
      BY <1>1, <2>1, FS_EmptySet DEF GateInv, GateCountsRequests
    <3>2. QED
      BY <2>1, <3>1 DEF QuotaFull
  <2>3. Cardinality(running) >= Limit
    BY <1>1, <2>2 DEF Refuse, GlobalFull, GateInv, GateCountsRequests
  <2>4. Cardinality(running) <= Cardinality(ActivePrincipals) * Quota
    BY <1>1, QuotasHoldAll
  <2>5. Cardinality(running) = Limit
    BY <1>1, <2>1, <2>3, FS_CardinalityType DEF GateInv, GateCountsRequests
  <2>6. QED
    BY <2>4, <2>5
<1>2. ASSUME AdmissionTypeOK, GateInv
      PROVE  [\A r \in Requests : Refuse(r) /\ Of(PrincipalOf[r]) = {}
                 => Cardinality(ActivePrincipals) * Quota >= Limit]_admissionVars
  BY <1>1, <1>2
<1>3. QED
  BY <1>2, GateSound, AdmissionTypeCorrect, PTL DEF NoisyNeighbour

-----------------------------------------------------------------------------
(* The sliding window.                                                     *)

(* What the deque of a bucket remembers of the hits it granted: it is the  *)
(* end of that history, it never holds more than RateLimit of them, what   *)
(* it has forgotten has left the window, and the clock orders the history. *)
Remembers(q, g) ==
    /\ Len(q) <= RateLimit
    /\ \E f \in Nat : EndOf(q, g, f) /\ \A i \in 1..f : Stale(g[i])

Ordered(g) ==
    /\ \A i \in 1..Len(g) : g[i] <= now
    /\ \A i, j \in 1..Len(g) : i <= j => g[i] <= g[j]

Spread(g) ==
    \A i, j \in 1..Len(g) : j - i >= RateLimit => g[j] - g[i] > Window

WindowInv ==
    \A k \in RateKeys :
        Remembers(hits[k], granted[k]) /\ Ordered(granted[k]) /\ Spread(granted[k])

(* Pruning forgets only what is stale.                                     *)
LEMMA PruneRemembers ==
  ASSUME now \in Nat, NEW q \in Seq(Nat), NEW g \in Seq(Nat), Remembers(q, g)
  PROVE  Remembers(Pruned(q), g)
<1> USE AdmissionAssumption
<1>1. PICK f \in Nat : EndOf(q, g, f) /\ \A i \in 1..f : Stale(g[i])
  BY DEF Remembers
<1> DEFINE n == Popped(q)
<1>2. n \in 0..Len(q) /\ \A i \in 1..n : Stale(q[i])
  BY PoppedProperties
<1> HIDE DEF n
<1>3. EndOf(SubSeq(q, n + 1, Len(q)), g, f + n)
  BY <1>1, <1>2, EndOfDrop
<1>4. ASSUME NEW i \in 1..(f + n)
      PROVE  Stale(g[i])
  <2>1. CASE i <= f
    BY <2>1, <1>1
  <2>2. CASE i > f
    <3>1. i - f \in 1..n /\ i - f \in 1..Len(q) /\ (i - f) + f = i
      BY <2>2, <1>2
    <3>2. q[i - f] = g[i]
      BY <3>1, <1>1 DEF EndOf
    <3>3. QED
      BY <3>1, <3>2, <1>2
  <2>3. QED
    BY <2>1, <2>2, <1>2
<1>5. Pruned(q) = SubSeq(q, n + 1, Len(q)) /\ f + n \in Nat
  BY <1>2 DEF Pruned, n
<1>6. Len(Pruned(q)) <= RateLimit
  BY <1>2, <1>5 DEF Remembers
<1>7. QED
  BY <1>3, <1>4, <1>5, <1>6 DEF Remembers

(* A hit granted after pruning is more than a window away from the         *)
(* RateLimit-th hit before it, because that one is already forgotten.      *)
LEMMA GrantSpreads ==
  ASSUME now \in Nat, NEW q \in Seq(Nat), NEW g \in Seq(Nat),
         Remembers(q, g), Ordered(g), Spread(g), Len(q) < RateLimit
  PROVE  /\ Remembers(Append(q, now), Append(g, now))
         /\ Ordered(Append(g, now))
         /\ Spread(Append(g, now))
<1> USE AdmissionAssumption
<1>1. PICK f \in Nat : EndOf(q, g, f) /\ \A i \in 1..f : Stale(g[i])
  BY DEF Remembers
<1>2. /\ Len(Append(g, now)) = Len(g) + 1
      /\ Len(g) \in Nat /\ Len(q) \in Nat
      /\ Append(g, now)[Len(g) + 1] = now
      /\ \A i \in 1..Len(g) : Append(g, now)[i] = g[i] /\ g[i] \in Nat
      /\ Len(g) = f + Len(q)
  BY <1>1 DEF EndOf
<1>3. Remembers(Append(q, now), Append(g, now))
  <2>1. EndOf(Append(q, now), Append(g, now), f)
    BY <1>1, EndOfAppend
  <2>2. Len(Append(q, now)) <= RateLimit
    BY <1>2
  <2>3. \A i \in 1..f : Stale(Append(g, now)[i])
    BY <1>1, <1>2
  <2>4. QED
    BY <2>1, <2>2, <2>3 DEF Remembers
<1>4. Ordered(Append(g, now))
  BY <1>2 DEF Ordered
<1>5. ASSUME NEW i \in 1..(Len(g) + 1), NEW j \in 1..(Len(g) + 1),
             j - i >= RateLimit
      PROVE  Append(g, now)[j] - Append(g, now)[i] > Window
  <2>1. CASE j <= Len(g)
    <3>1. i \in 1..Len(g) /\ j \in 1..Len(g)
      BY <2>1, <1>2, <1>5
    <3>2. QED
      BY <3>1, <1>2, <1>5 DEF Spread
  <2>2. CASE j = Len(g) + 1
    <3>1. i \in 1..f /\ i \in 1..Len(g)
      BY <2>2, <1>2, <1>5
    <3>2. QED
      BY <2>2, <3>1, <1>1, <1>2 DEF Stale
  <2>3. QED
    BY <2>1, <2>2, <1>2
<1>6. QED
  BY <1>2, <1>3, <1>4, <1>5 DEF Spread

(* Time only makes more of the history stale.                              *)
LEMMA TickKeepsWindow ==
  ASSUME AdmissionTypeOK, WindowInv, Tick
  PROVE  WindowInv'
<1> USE AdmissionAssumption
<1>1. /\ now \in Nat /\ now' = now + 1
      /\ UNCHANGED <<hits, granted>>
      /\ \A k \in RateKeys : granted[k] \in Seq(Nat) /\ hits[k] \in Seq(Nat)
  BY DEF Tick, AdmissionTypeOK
<1>2. ASSUME NEW k \in RateKeys
      PROVE  (Remembers(hits[k], granted[k]) /\ Ordered(granted[k]) /\ Spread(granted[k]))'
  <2> DEFINE g == granted[k]
             q == hits[k]
  <2>1. PICK f \in Nat : EndOf(q, g, f) /\ \A i \in 1..f : Stale(g[i])
    BY DEF WindowInv, Remembers
  <2>2. \A i \in 1..Len(g) : g[i] \in Nat /\ g[i] <= now
    BY <1>1 DEF WindowInv, Ordered
  <2>3. f <= Len(g)
    BY <1>1, <2>1 DEF EndOf
  <2> HIDE DEF g, q
  <2>4. \A i \in 1..f : now' - g[i] > Window
    BY <1>1, <2>1, <2>2, <2>3 DEF Stale
  <2>5. \A i \in 1..Len(g) : g[i] <= now'
    BY <1>1, <2>2
  <2>6. g' = g /\ q' = q
    BY <1>1 DEF g, q
  <2>7. /\ (Len(q) <= RateLimit)'
        /\ (\E n \in Nat : EndOf(q, g, n) /\ \A i \in 1..n : Stale(g[i]))'
    <3>1. Len(q') <= RateLimit
      BY <2>6 DEF WindowInv, Remembers, q
    <3>2. EndOf(q', g', f)
      BY <2>1, <2>6
    <3>3. \A i \in 1..f : Stale(g[i])'
      BY <2>4, <2>6 DEF Stale
    <3>4. QED
      BY <3>1, <3>2, <3>3, <2>1, <2>6 DEF EndOf
  <2>8. Ordered(g)' /\ Spread(g)'
    BY <2>5, <2>6 DEF WindowInv, Ordered, Spread, g
  <2>9. QED
    BY <2>7, <2>8 DEF Remembers, g, q
<1>3. QED
  BY <1>2 DEF WindowInv

(* A request prunes the deque of its bucket and may append to it.          *)
LEMMA RequestKeepsWindow ==
  ASSUME AdmissionTypeOK, WindowInv, NEW k \in RateKeys, now' = now,
         \/ Hit(k)
         \/ hits' = [hits EXCEPT ![k] = Pruned(@)] /\ granted' = granted
  PROVE  WindowInv'
<1> USE AdmissionAssumption
<1>1. ASSUME NEW o \in RateKeys
      PROVE  /\ hits[o] \in Seq(Nat) /\ granted[o] \in Seq(Nat) /\ now \in Nat
             /\ Pruned(hits[o]) \in Seq(Nat)
             /\ Remembers(hits[o], granted[o])
             /\ Remembers(Pruned(hits[o]), granted[o])
             /\ Ordered(granted[o]) /\ Spread(granted[o])
  BY PruneRemembers, PrunedProperties DEF AdmissionTypeOK, WindowInv
<1>2. ASSUME NEW q, NEW g
      PROVE  /\ Remembers(q, g)' <=> Remembers(q, g)
             /\ Ordered(g)' <=> Ordered(g)
             /\ Spread(g)' <=> Spread(g)
  BY DEF Remembers, Ordered, Spread, Stale, EndOf
<1>3. ASSUME NEW o \in RateKeys
      PROVE  /\ Remembers(hits'[o], granted'[o])
             /\ Ordered(granted'[o])
             /\ Spread(granted'[o])
  <2>1. CASE o # k
    BY <1>1, <2>1 DEF Hit, AdmissionTypeOK
  <2>2. CASE o = k /\ Hit(k)
    <3>1. Len(Pruned(hits[k])) < RateLimit
      BY <2>2 DEF Hit, UnderRate
    <3>2. /\ hits'[k] = Append(Pruned(hits[k]), now)
          /\ granted'[k] = Append(granted[k], now)
      BY <2>2 DEF Hit, AdmissionTypeOK
    <3>3. QED
      BY <1>1, <2>2, <3>1, <3>2, GrantSpreads
  <2>3. CASE o = k /\ hits' = [hits EXCEPT ![k] = Pruned(@)] /\ granted' = granted
    BY <1>1, <2>3 DEF AdmissionTypeOK
  <2>4. QED
    BY <2>1, <2>2, <2>3
<1>4. QED
  BY <1>2, <1>3 DEF WindowInv

(* No closed window of the clock holds more than RateLimit granted hits of *)
(* one bucket, although the limiter forgets what it pops.                  *)
THEOREM SlidingWindowCorrect == AdmissionSpec => []SlidingWindow
<1>1. AdmissionInit => WindowInv
  BY AdmissionAssumption DEF AdmissionInit, WindowInv, Remembers, Ordered, Spread, EndOf
<1>2. AdmissionTypeOK /\ WindowInv /\ [AdmissionNext]_admissionVars => WindowInv'
  <2> SUFFICES ASSUME AdmissionTypeOK, WindowInv, [AdmissionNext]_admissionVars
               PROVE  WindowInv'
    OBVIOUS
  <2>1. CASE Tick
    BY <2>1, TickKeepsWindow
  <2>2. ASSUME NEW r \in Requests, RateLimited(r) \/ Refuse(r) \/ Admit(r)
        PROVE  WindowInv'
    <3>1. RateKeyOf[r] \in RateKeys
      BY AdmissionAssumption
    <3>2. QED
      BY <2>2, <3>1, RequestKeepsWindow DEF RateLimited, Refuse, Admit
  <2>3. CASE UNCHANGED <<now, hits, granted>>
    BY <2>3 DEF WindowInv, Remembers, Ordered, Spread, Stale, EndOf
  <2>4. QED
    BY <2>1, <2>2, <2>3 DEF AdmissionNext, admissionVars, ReleaseSlot
<1>3. WindowInv => SlidingWindow
  BY DEF WindowInv, SlidingWindow, Spread
<1>4. QED
  BY <1>1, <1>2, <1>3, AdmissionTypeCorrect, PTL DEF AdmissionSpec

-----------------------------------------------------------------------------
(* The instance lock, for every set of processes                          *)

-----------------------------------------------------------------------------
(* The invariant                                                           *)

\* Not yet through open(): whoever has created the file is past these.
Seeking == Contending \ {"write"}
Fresh(p) == pc[p] \in Seeking \cup {"new", "refused"}

\* A process that has created the file, and has not given it up.
Owning(p) == pc[p] \in {"write", "held", "releasing", "unlinking"}

\* The file is the one p created, and says so once p has written it.
OwnFile(p) == file.by = p /\ file.text = IF pc[p] = "write" THEN "empty" ELSE "pid"

\* The histories see whoever meets another process.
MeetingsNoted ==
    \A p, q \in Procs : p # q =>
        /\ pc[p] \in Contending /\ pc[q] \in Contending => p \in rivals
        /\ Alive(p) /\ Alive(q) => p \in hindered

\* A process lives once: what it created it does not find at its start.
FileIsOthers == \A p \in Procs : Fresh(p) /\ file.by = p => file.text \in {"none", "junk"}

(* Owners have the file.  Whoever is about to discard it without a rival    *)
(* has seen that there is none, and no owner can have come since.           *)
OwnersHaveTheFile ==
    ~contested =>
        \A p \in Procs :
            /\ Owning(p) => OwnFile(p)
            /\ pc[p] \in {"restat", "rename"} /\ p \notin rivals
                 => \A q \in Procs : ~Owning(q)

(* A process that has met nobody has not been refused.  It spends at most   *)
(* one attempt, and then finds no file; what looked settled stays so.      *)
AloneSucceeds ==
    \A p \in Procs : p \notin hindered =>
        /\ pc[p] # "refused"
        /\ pc[p] \in {"recheck", "restat"} => ~LooksMidWrite
        /\ pc[p] \in Seeking \cup {"new"} =>
             attempts[p] = 0 \/ (attempts[p] = 1 /\ pc[p] = "open" /\ file = NoFile)

\* Whoever may still count an attempt has not spent them all.
AttemptsLeft == \A p \in Procs : pc[p] \in Contending \ {"open"} => MayTry(p)

LockInv == TypeOK /\ AttemptsLeft /\ MeetingsNoted /\ FileIsOthers /\ OwnersHaveTheFile /\ AloneSucceeds

-----------------------------------------------------------------------------
(* One step                                                                *)

(* Every step keeps the types; attempts are counted only while some are     *)
(* left.                                                                   *)
LEMMA TypeKept == LockInv /\ Next => TypeOK'
<1> SUFFICES ASSUME LockInv, Next PROVE TypeOK'
  OBVIOUS
<1> USE LockAssumption DEF LockInv, TypeOK, AttemptsLeft, MayTry, Contenders, Alive,
      NoFile, Junk, Contending, Goto, CountAttempt, history
<1>1. CASE Age
  <2>1. file \in [by : Procs, text : {"empty", "pid"}, fresh : BOOLEAN]
    BY <1>1 DEF Age
  <2>2. file' \in [by : Procs, text : {"empty", "pid"}, fresh : BOOLEAN]
    BY <1>1, <2>1 DEF Age
  <2>3. QED
    BY <1>1, <2>2 DEF Age
<1>2. ASSUME NEW p \in Procs, Create(p) PROVE TypeOK'
  BY <1>2 DEF Create
<1>3. ASSUME NEW p \in Procs, FileExists(p) PROVE TypeOK'
  BY <1>3 DEF FileExists
<1>4. ASSUME NEW p \in Procs, OpenFails(p) PROVE TypeOK'
  BY <1>4 DEF OpenFails
<1>5. ASSUME NEW p \in Procs, GiveUp(p) PROVE TypeOK'
  BY <1>5 DEF GiveUp
<1>6. ASSUME NEW p \in Procs, ReadHolder(p) PROVE TypeOK'
  BY <1>6 DEF ReadHolder
<1>7. ASSUME NEW p \in Procs, StatFile(p) PROVE TypeOK'
  BY <1>7 DEF StatFile
<1>8. ASSUME NEW p \in Procs, Recheck(p) PROVE TypeOK'
  BY <1>8 DEF Recheck
<1>9. ASSUME NEW p \in Procs, RestatFile(p) PROVE TypeOK'
  BY <1>9 DEF RestatFile
<1>10. ASSUME NEW p \in Procs, Rename(p) PROVE TypeOK'
  BY <1>10 DEF Rename
<1>11. ASSUME NEW p \in Procs, RenameFails(p) PROVE TypeOK'
  BY <1>11 DEF RenameFails
<1>12. ASSUME NEW p \in Procs, Write(p) PROVE TypeOK'
  BY <1>12 DEF Write
<1>13. ASSUME NEW p \in Procs, ReleaseCheck(p) PROVE TypeOK'
  BY <1>13 DEF ReleaseCheck
<1>14. ASSUME NEW p \in Procs, Unlink(p) PROVE TypeOK'
  BY <1>14 DEF Unlink
<1>15. ASSUME NEW p \in Procs, Start(p) PROVE TypeOK'
  BY <1>15 DEF Start
<1>16. ASSUME NEW p \in Procs, Release(p) PROVE TypeOK'
  BY <1>16 DEF Release
<1>17. ASSUME NEW p \in Procs, Crash(p) PROVE TypeOK'
  BY <1>17 DEF Crash
<1>18. QED
  BY <1>1, <1>2, <1>3, <1>4, <1>5, <1>6, <1>7, <1>8, <1>9,
     <1>10, <1>11, <1>12, <1>13, <1>14, <1>15, <1>16, <1>17 DEF Next, Step

(* Whoever counts an attempt goes back to open, where it is checked.        *)
LEMMA AttemptsKept == LockInv /\ Next => AttemptsLeft'
<1> SUFFICES ASSUME LockInv, Next PROVE AttemptsLeft'
  OBVIOUS
<1> USE LockAssumption DEF LockInv, TypeOK, AttemptsLeft, MayTry,
      NoFile, Junk, Contending, Goto, CountAttempt, history
<1>1. CASE Age
  BY <1>1 DEF Age
<1>2. ASSUME NEW p \in Procs, Create(p) PROVE AttemptsLeft'
  BY <1>2 DEF Create
<1>3. ASSUME NEW p \in Procs, FileExists(p) PROVE AttemptsLeft'
  BY <1>3 DEF FileExists
<1>4. ASSUME NEW p \in Procs, OpenFails(p) PROVE AttemptsLeft'
  BY <1>4 DEF OpenFails
<1>5. ASSUME NEW p \in Procs, GiveUp(p) PROVE AttemptsLeft'
  BY <1>5 DEF GiveUp
<1>6. ASSUME NEW p \in Procs, ReadHolder(p) PROVE AttemptsLeft'
  BY <1>6 DEF ReadHolder
<1>7. ASSUME NEW p \in Procs, StatFile(p) PROVE AttemptsLeft'
  BY <1>7 DEF StatFile
<1>8. ASSUME NEW p \in Procs, Recheck(p) PROVE AttemptsLeft'
  BY <1>8 DEF Recheck
<1>9. ASSUME NEW p \in Procs, RestatFile(p) PROVE AttemptsLeft'
  BY <1>9 DEF RestatFile
<1>10. ASSUME NEW p \in Procs, Rename(p) PROVE AttemptsLeft'
  BY <1>10 DEF Rename
<1>11. ASSUME NEW p \in Procs, RenameFails(p) PROVE AttemptsLeft'
  BY <1>11 DEF RenameFails
<1>12. ASSUME NEW p \in Procs, Write(p) PROVE AttemptsLeft'
  BY <1>12 DEF Write
<1>13. ASSUME NEW p \in Procs, ReleaseCheck(p) PROVE AttemptsLeft'
  BY <1>13 DEF ReleaseCheck
<1>14. ASSUME NEW p \in Procs, Unlink(p) PROVE AttemptsLeft'
  BY <1>14 DEF Unlink
<1>15. ASSUME NEW p \in Procs, Start(p) PROVE AttemptsLeft'
  BY <1>15 DEF Start
<1>16. ASSUME NEW p \in Procs, Release(p) PROVE AttemptsLeft'
  BY <1>16 DEF Release
<1>17. ASSUME NEW p \in Procs, Crash(p) PROVE AttemptsLeft'
  BY <1>17 DEF Crash
<1>18. QED
  BY <1>1, <1>2, <1>3, <1>4, <1>5, <1>6, <1>7, <1>8, <1>9,
     <1>10, <1>11, <1>12, <1>13, <1>14, <1>15, <1>16, <1>17 DEF Next, Step

(* Only a start brings a process among others, and it notes all of them.    *)
LEMMA MeetingsKept == LockInv /\ Next => MeetingsNoted'
<1> SUFFICES ASSUME LockInv, Next PROVE MeetingsNoted'
  OBVIOUS
<1> USE LockAssumption DEF LockInv, TypeOK, MeetingsNoted, Contenders, Alive,
      NoFile, Junk, Contending, Goto, CountAttempt, history
<1>1. CASE Age
  BY <1>1 DEF Age
<1>2. ASSUME NEW p \in Procs, Create(p) PROVE MeetingsNoted'
  BY <1>2 DEF Create
<1>3. ASSUME NEW p \in Procs, FileExists(p) PROVE MeetingsNoted'
  BY <1>3 DEF FileExists
<1>4. ASSUME NEW p \in Procs, OpenFails(p) PROVE MeetingsNoted'
  BY <1>4 DEF OpenFails
<1>5. ASSUME NEW p \in Procs, GiveUp(p) PROVE MeetingsNoted'
  BY <1>5 DEF GiveUp
<1>6. ASSUME NEW p \in Procs, ReadHolder(p) PROVE MeetingsNoted'
  BY <1>6 DEF ReadHolder
<1>7. ASSUME NEW p \in Procs, StatFile(p) PROVE MeetingsNoted'
  BY <1>7 DEF StatFile
<1>8. ASSUME NEW p \in Procs, Recheck(p) PROVE MeetingsNoted'
  BY <1>8 DEF Recheck
<1>9. ASSUME NEW p \in Procs, RestatFile(p) PROVE MeetingsNoted'
  BY <1>9 DEF RestatFile
<1>10. ASSUME NEW p \in Procs, Rename(p) PROVE MeetingsNoted'
  BY <1>10 DEF Rename
<1>11. ASSUME NEW p \in Procs, RenameFails(p) PROVE MeetingsNoted'
  BY <1>11 DEF RenameFails
<1>12. ASSUME NEW p \in Procs, Write(p) PROVE MeetingsNoted'
  BY <1>12 DEF Write
<1>13. ASSUME NEW p \in Procs, ReleaseCheck(p) PROVE MeetingsNoted'
  BY <1>13 DEF ReleaseCheck
<1>14. ASSUME NEW p \in Procs, Unlink(p) PROVE MeetingsNoted'
  BY <1>14 DEF Unlink
<1>15. ASSUME NEW p \in Procs, Start(p) PROVE MeetingsNoted'
  BY <1>15 DEF Start
<1>16. ASSUME NEW p \in Procs, Release(p) PROVE MeetingsNoted'
  BY <1>16 DEF Release
<1>17. ASSUME NEW p \in Procs, Crash(p) PROVE MeetingsNoted'
  BY <1>17 DEF Crash
<1>18. QED
  BY <1>1, <1>2, <1>3, <1>4, <1>5, <1>6, <1>7, <1>8, <1>9,
     <1>10, <1>11, <1>12, <1>13, <1>14, <1>15, <1>16, <1>17 DEF Next, Step

(* Only a creation makes the file one's own, and it ends the search.        *)
LEMMA OthersKept == LockInv /\ Next => FileIsOthers'
<1> SUFFICES ASSUME LockInv, Next PROVE FileIsOthers'
  OBVIOUS
<1> USE LockAssumption DEF LockInv, TypeOK, FileIsOthers, Fresh, Seeking,
      NoFile, Junk, Contending, Goto, CountAttempt, history
<1>1. CASE Age
  BY <1>1 DEF Age
<1>2. ASSUME NEW p \in Procs, Create(p) PROVE FileIsOthers'
  BY <1>2 DEF Create
<1>3. ASSUME NEW p \in Procs, FileExists(p) PROVE FileIsOthers'
  BY <1>3 DEF FileExists
<1>4. ASSUME NEW p \in Procs, OpenFails(p) PROVE FileIsOthers'
  BY <1>4 DEF OpenFails
<1>5. ASSUME NEW p \in Procs, GiveUp(p) PROVE FileIsOthers'
  BY <1>5 DEF GiveUp
<1>6. ASSUME NEW p \in Procs, ReadHolder(p) PROVE FileIsOthers'
  BY <1>6 DEF ReadHolder
<1>7. ASSUME NEW p \in Procs, StatFile(p) PROVE FileIsOthers'
  BY <1>7 DEF StatFile
<1>8. ASSUME NEW p \in Procs, Recheck(p) PROVE FileIsOthers'
  BY <1>8 DEF Recheck
<1>9. ASSUME NEW p \in Procs, RestatFile(p) PROVE FileIsOthers'
  BY <1>9 DEF RestatFile
<1>10. ASSUME NEW p \in Procs, Rename(p) PROVE FileIsOthers'
  BY <1>10 DEF Rename
<1>11. ASSUME NEW p \in Procs, RenameFails(p) PROVE FileIsOthers'
  BY <1>11 DEF RenameFails
<1>12. ASSUME NEW p \in Procs, Write(p) PROVE FileIsOthers'
  BY <1>12 DEF Write
<1>13. ASSUME NEW p \in Procs, ReleaseCheck(p) PROVE FileIsOthers'
  BY <1>13 DEF ReleaseCheck
<1>14. ASSUME NEW p \in Procs, Unlink(p) PROVE FileIsOthers'
  BY <1>14 DEF Unlink
<1>15. ASSUME NEW p \in Procs, Start(p) PROVE FileIsOthers'
  BY <1>15 DEF Start
<1>16. ASSUME NEW p \in Procs, Release(p) PROVE FileIsOthers'
  BY <1>16 DEF Release
<1>17. ASSUME NEW p \in Procs, Crash(p) PROVE FileIsOthers'
  BY <1>17 DEF Crash
<1>18. QED
  BY <1>1, <1>2, <1>3, <1>4, <1>5, <1>6, <1>7, <1>8, <1>9,
     <1>10, <1>11, <1>12, <1>13, <1>14, <1>15, <1>16, <1>17 DEF Next, Step

(* A creation finds no file, so no owner.  A file is discarded when its     *)
(* holder is dead or it names none: an owner that has written is alive and *)
(* named, and one that still writes is a rival of whoever discards.        *)
LEMMA OwnersKept == LockInv /\ Next => OwnersHaveTheFile'
<1> SUFFICES ASSUME LockInv, Next PROVE OwnersHaveTheFile'
  OBVIOUS
<1> USE LockAssumption DEF LockInv, TypeOK, MeetingsNoted, OwnersHaveTheFile, Owning, OwnFile,
      Holder, HeldByLive, Alive,
      NoFile, Junk, Contending, Goto, CountAttempt, history
<1>1. CASE Age
  BY <1>1 DEF Age
<1>2. ASSUME NEW p \in Procs, Create(p) PROVE OwnersHaveTheFile'
  BY <1>2 DEF Create
<1>3. ASSUME NEW p \in Procs, FileExists(p) PROVE OwnersHaveTheFile'
  BY <1>3 DEF FileExists
<1>4. ASSUME NEW p \in Procs, OpenFails(p) PROVE OwnersHaveTheFile'
  BY <1>4 DEF OpenFails
<1>5. ASSUME NEW p \in Procs, GiveUp(p) PROVE OwnersHaveTheFile'
  BY <1>5 DEF GiveUp
<1>6. ASSUME NEW p \in Procs, ReadHolder(p) PROVE OwnersHaveTheFile'
  BY <1>6 DEF ReadHolder
<1>7. ASSUME NEW p \in Procs, StatFile(p) PROVE OwnersHaveTheFile'
  BY <1>7 DEF StatFile
<1>8. ASSUME NEW p \in Procs, Recheck(p) PROVE OwnersHaveTheFile'
  <2>1. CASE pc'[p] # "rename"
    BY <1>8, <2>1 DEF Recheck
  <2>2. ASSUME ~contested, pc'[p] = "rename", NEW q \in Procs PROVE ~Owning(q)'
    <3>1. ~HeldByLive /\ Holder # {} /\ pc' = [pc EXCEPT ![p] = "rename"]
      BY <1>8, <2>2 DEF Recheck
    <3>2. CASE q = p
      BY <3>1, <3>2
    <3>3. CASE q # p /\ pc[q] = "write"
      BY <1>8, <2>2, <3>1, <3>3 DEF Recheck
    <3>4. CASE q # p /\ pc[q] # "write"
      BY <2>2, <3>1, <3>4
    <3>5. QED
      BY <3>2, <3>3, <3>4
  <2>3. QED
    BY <1>8, <2>1, <2>2 DEF Recheck
<1>9. ASSUME NEW p \in Procs, RestatFile(p) PROVE OwnersHaveTheFile'
  BY <1>9 DEF RestatFile
<1>10. ASSUME NEW p \in Procs, Rename(p) PROVE OwnersHaveTheFile'
  BY <1>10 DEF Rename
<1>11. ASSUME NEW p \in Procs, RenameFails(p) PROVE OwnersHaveTheFile'
  BY <1>11 DEF RenameFails
<1>12. ASSUME NEW p \in Procs, Write(p) PROVE OwnersHaveTheFile'
  BY <1>12 DEF Write
<1>13. ASSUME NEW p \in Procs, ReleaseCheck(p) PROVE OwnersHaveTheFile'
  BY <1>13 DEF ReleaseCheck
<1>14. ASSUME NEW p \in Procs, Unlink(p) PROVE OwnersHaveTheFile'
  BY <1>14 DEF Unlink
<1>15. ASSUME NEW p \in Procs, Start(p) PROVE OwnersHaveTheFile'
  BY <1>15 DEF Start
<1>16. ASSUME NEW p \in Procs, Release(p) PROVE OwnersHaveTheFile'
  BY <1>16 DEF Release
<1>17. ASSUME NEW p \in Procs, Crash(p) PROVE OwnersHaveTheFile'
  BY <1>17 DEF Crash
<1>18. QED
  BY <1>1, <1>2, <1>3, <1>4, <1>5, <1>6, <1>7, <1>8, <1>9,
     <1>10, <1>11, <1>12, <1>13, <1>14, <1>15, <1>16, <1>17 DEF Next, Step

(* Alone, a process finds no living holder and no file that changes under   *)
(* it: the one attempt it needs is the one that moves the leftover away.   *)
LEMMA AloneKept == LockInv /\ Next => AloneSucceeds'
<1> SUFFICES ASSUME LockInv, Next PROVE AloneSucceeds'
  OBVIOUS
<1> USE LockAssumption DEF LockInv, TypeOK, MeetingsNoted, FileIsOthers, AloneSucceeds, Fresh, Seeking,
      LooksMidWrite, Holder, HeldByLive, Alive, MayTry,
      NoFile, Junk, Contending, Goto, CountAttempt, history
<1>1. CASE Age
  BY <1>1 DEF Age
<1>2. ASSUME NEW p \in Procs, Create(p) PROVE AloneSucceeds'
  BY <1>2 DEF Create
<1>3. ASSUME NEW p \in Procs, FileExists(p) PROVE AloneSucceeds'
  BY <1>3 DEF FileExists
<1>4. ASSUME NEW p \in Procs, OpenFails(p) PROVE AloneSucceeds'
  BY <1>4 DEF OpenFails
<1>5. ASSUME NEW p \in Procs, GiveUp(p) PROVE AloneSucceeds'
  BY <1>5 DEF GiveUp
<1>6. ASSUME NEW p \in Procs, ReadHolder(p) PROVE AloneSucceeds'
  BY <1>6 DEF ReadHolder
<1>7. ASSUME NEW p \in Procs, StatFile(p) PROVE AloneSucceeds'
  BY <1>7 DEF StatFile
<1>8. ASSUME NEW p \in Procs, Recheck(p) PROVE AloneSucceeds'
  BY <1>8 DEF Recheck
<1>9. ASSUME NEW p \in Procs, RestatFile(p) PROVE AloneSucceeds'
  BY <1>9 DEF RestatFile
<1>10. ASSUME NEW p \in Procs, Rename(p) PROVE AloneSucceeds'
  BY <1>10 DEF Rename
<1>11. ASSUME NEW p \in Procs, RenameFails(p) PROVE AloneSucceeds'
  BY <1>11 DEF RenameFails
<1>12. ASSUME NEW p \in Procs, Write(p) PROVE AloneSucceeds'
  BY <1>12 DEF Write
<1>13. ASSUME NEW p \in Procs, ReleaseCheck(p) PROVE AloneSucceeds'
  BY <1>13 DEF ReleaseCheck
<1>14. ASSUME NEW p \in Procs, Unlink(p) PROVE AloneSucceeds'
  BY <1>14 DEF Unlink
<1>15. ASSUME NEW p \in Procs, Start(p) PROVE AloneSucceeds'
  BY <1>15 DEF Start
<1>16. ASSUME NEW p \in Procs, Release(p) PROVE AloneSucceeds'
  BY <1>16 DEF Release
<1>17. ASSUME NEW p \in Procs, Crash(p) PROVE AloneSucceeds'
  BY <1>17 DEF Crash
<1>18. QED
  BY <1>1, <1>2, <1>3, <1>4, <1>5, <1>6, <1>7, <1>8, <1>9,
     <1>10, <1>11, <1>12, <1>13, <1>14, <1>15, <1>16, <1>17 DEF Next, Step

-----------------------------------------------------------------------------
(* Every reachable state                                                   *)

(* The inductive invariant of the lock: who has the file, who has met whom, *)
(* and what each process knows at every system call of acquire and release *)
(* (instance_lock.py acquire, _discard_stale, release).                    *)
THEOREM LockSound == Spec => []LockInv
<1>1. Init => LockInv
  <2> SUFFICES ASSUME Init PROVE LockInv
    OBVIOUS
  <2>1. /\ file \in {NoFile, Junk}
        /\ \A p \in Procs : pc[p] = "new" /\ attempts[p] = 0
    BY DEF Init
  <2>2. TypeOK
    <3>1. attempts \in [Procs -> 0..ReclaimAttempts]
      BY LockAssumption DEF Init
    <3>2. QED
      BY <2>1, <3>1 DEF Init, TypeOK
  <2>3. AttemptsLeft /\ MeetingsNoted /\ OwnersHaveTheFile /\ AloneSucceeds
    BY <2>1 DEF AttemptsLeft, MeetingsNoted, OwnersHaveTheFile, AloneSucceeds, Owning,
       Contending, Seeking, Alive
  <2>4. FileIsOthers
    BY <2>1 DEF FileIsOthers, NoFile, Junk
  <2>5. QED
    BY <2>2, <2>3, <2>4 DEF LockInv
<1>2. LockInv /\ [Next]_vars => LockInv'
  <2>1. CASE UNCHANGED vars
    BY <2>1 DEF vars, history, LockInv, TypeOK, AttemptsLeft, MeetingsNoted, FileIsOthers,
       OwnersHaveTheFile, AloneSucceeds, Fresh, Alive, Owning, OwnFile, MayTry, LooksMidWrite
  <2>2. CASE LockInv /\ Next
    <3>1. TypeOK' /\ AttemptsLeft' /\ MeetingsNoted'
      BY <2>2, TypeKept, AttemptsKept, MeetingsKept
    <3>2. FileIsOthers' /\ OwnersHaveTheFile' /\ AloneSucceeds'
      BY <2>2, OthersKept, OwnersKept, AloneKept
    <3>3. QED
      BY <3>1, <3>2 DEF LockInv
  <2>3. QED
    BY <2>1, <2>2
<1>3. QED
  BY <1>1, <1>2, PTL DEF Spec

(* File, processes and histories have their types, and no process spends    *)
(* more attempts than it has.                                              *)
THEOREM LockTypeCorrect == Spec => []TypeOK
<1>1. LockInv => TypeOK
  BY DEF LockInv
<1>2. QED
  BY <1>1, LockSound, PTL

(* At most one runtime works on the store, for any number of processes that *)
(* start, stop and die at any step, as long as no process that had a rival *)
(* in acquire has discarded a lock file (instance_lock.py:1-8).            *)
THEOREM MutualExclusion == Spec => []AtMostOneHolder
<1>1. LockInv => AtMostOneHolder
  <2> SUFFICES ASSUME LockInv, ~contested PROVE Cardinality(Holders) <= 1
    BY DEF AtMostOneHolder
  <2>1. \A p, q \in Holders : p = q
    BY DEF LockInv, OwnersHaveTheFile, Owning, OwnFile, Holders
  <2>2. CASE Holders = {}
    BY <2>2, FS_EmptySet
  <2>3. ASSUME NEW p \in Holders PROVE Cardinality(Holders) <= 1
    <3>1. Holders = {p}
      BY <2>1
    <3>2. QED
      BY <3>1, FS_Singleton
  <2>4. QED
    BY <2>2, <2>3
<1>2. QED
  BY <1>1, LockSound, PTL

(* Whatever a dead process left in the store, an instance that meets no     *)
(* living one and no I/O error gets the lock (instance_lock.py:15-17).     *)
THEOREM NoLeftoverKeepsOut == Spec => []AloneGetsTheLock
<1>1. LockInv => AloneGetsTheLock
  BY DEF LockInv, AloneSucceeds, AloneGetsTheLock
<1>2. QED
  BY <1>1, LockSound, PTL

-----------------------------------------------------------------------------
(* The registry store, for one saver at a time (MaxSavers = 1) and any    *)
(* number of threads and changes                                          *)

(* Where the one saver stands.  Memory does not change while it saves, so   *)
(* its snapshot is all of memory.                                          *)
SaverInv(t) ==
    LET tmp == inode["tmp"] IN
    /\ At(t, "idle") => saver[t] = Idle
    /\ ~At(t, "idle") => saver[t].change \in mem
    /\ saver[t].step \in {"open", "write", "backup", "publish"} => saver[t].snap = mem
    /\ At(t, "write") => saver[t].fd = tmp /\ tmp # None /\ tmp \in torn
    /\ saver[t].step \in {"backup", "publish"} =>
          tmp # None /\ tmp \notin torn /\ content[tmp] = mem
    /\ At(t, "answer") => inode["primary"] # None /\ content[inode["primary"]] = mem

(* No name but tmp leads to a torn file, no two names to the same one.      *)
DiskInv ==
    /\ \A n \in {"primary", "bak"} : inode[n] # None => inode[n] \notin torn
    /\ \A m, n \in Names : inode[m] # None /\ inode[m] = inode[n] => m = n

StoreInv ==
    /\ StoreTypeOK
    /\ \A t, u \in Threads : ~At(t, "idle") /\ ~At(u, "idle") => t = u
    /\ DiskInv
    /\ \A t \in Threads : SaverInv(t)

LEMMA NumbersOfInodes == Inodes \subseteq Nat \ {None}
BY StoreAssumption, FS_CardinalityType DEF Inodes, None

(* What a start finds depends on the two names only.                        *)
LEMMA LoadIs ==
  ASSUME DiskInv
  PROVE  Load = IF inode["primary"] # None THEN content[inode["primary"]]
                ELSE IF inode["bak"] # None THEN content[inode["bak"]] ELSE {}
BY DEF DiskInv, Load, Readable

(* A change begins only when nobody saves.                                  *)
LEMMA SavingNone ==
  ASSUME MaxSavers = 1, StoreInv, Cardinality(Saving) < MaxSavers
  PROVE  \A t \in Threads : At(t, "idle")
<1>1. IsFiniteSet(Saving)
  BY StoreAssumption, FS_Subset DEF Saving
<1>2. Cardinality(Saving) = 0
  BY <1>1, FS_CardinalityType
<1>3. Saving = {}
  BY <1>1, <1>2, FS_EmptySet
<1>4. QED
  BY <1>3 DEF Saving

LEMMA InitStore == StoreInit => StoreInv
<1> SUFFICES ASSUME StoreInit PROVE StoreInv
  OBVIOUS
<1>1. StoreTypeOK
  BY StoreAssumption DEF StoreInit, StoreTypeOK, Idle, Changes, Names
<1>2. DiskInv
  BY DEF StoreInit, DiskInv
<1>3. QED
  BY <1>1, <1>2 DEF StoreInit, StoreInv, SaverInv, At, Idle

(* Steps of one thread.  The others are idle, so that their part of the     *)
(* invariant holds whatever becomes of the files.                          *)
LEMMA OthersIdle ==
  ASSUME StoreInv, NEW t \in Threads, ~At(t, "idle"),
         StoreTypeOK', DiskInv', SaverInv(t)',
         \A u \in Threads \ {t} : saver'[u] = saver[u]
  PROVE  StoreInv'
<1>1. ASSUME NEW u \in Threads, u # t
      PROVE  At(u, "idle") /\ saver[u] = Idle /\ saver'[u] = Idle
  BY <1>1 DEF StoreInv, SaverInv
<1>2. \A u, w \in Threads : ~At(u, "idle")' /\ ~At(w, "idle")' => u = w
  BY <1>1 DEF At, Idle
<1>3. \A u \in Threads : SaverInv(u)'
  BY <1>1 DEF SaverInv, At, Idle
<1>4. QED
  BY <1>2, <1>3 DEF StoreInv

LEMMA ChangeStep ==
  ASSUME MaxSavers = 1, StoreInv, NEW t \in Threads, Change(t)
  PROVE  /\ StoreInv'
         /\ next \in Changes /\ mem' = mem \cup {next} /\ Load' = Load /\ acked' = acked
<1>1. \A u \in Threads : At(u, "idle") /\ saver[u] = Idle
  BY SavingNone DEF Change, StoreInv, SaverInv
<1>2. /\ next \in Changes /\ mem' = mem \cup {next} /\ next' = next + 1 /\ acked' = acked
      /\ inode' = inode /\ content' = content /\ torn' = torn
      /\ saver' = [saver EXCEPT ![t] = [Idle EXCEPT !.step = "list", !.change = next]]
  BY DEF Change, disk
<1>3. Load' = Load
  BY <1>2 DEF Load, Readable
<1>4. /\ saver'[t] = [step |-> "list", change |-> next, snap |-> {}, fd |-> None]
      /\ \A u \in Threads \ {t} : saver'[u] = Idle
  BY <1>1, <1>2 DEF Idle, StoreInv, StoreTypeOK
<1>5. StoreTypeOK'
  <2>1. saver'[t] \in [step : {"idle", "list", "open", "write", "backup", "publish", "answer"},
                       change : Changes \cup {0}, snap : SUBSET Changes,
                       fd : Inodes \cup {None}]
    <3>1. next \in Changes
      BY <1>2
    <3>2. saver'[t] = [step |-> "list", change |-> next, snap |-> {}, fd |-> None]
      BY <1>4
    <3>3. QED
      BY <3>1, <3>2
  <2>2. next' \in 1..(MaxChanges + 1)
    BY <1>2, StoreAssumption DEF Changes
  <2>3. QED
    BY <1>2, <2>1, <2>2 DEF StoreInv, StoreTypeOK
<1>6. DiskInv'
  BY <1>2 DEF StoreInv, DiskInv
<1>7. \A u \in Threads : SaverInv(u)'
  BY <1>2, <1>4 DEF SaverInv, At, Idle
<1>8. \A u, w \in Threads : ~At(u, "idle")' /\ ~At(w, "idle")' => u = w
  BY <1>4 DEF At, Idle
<1>9. QED
  BY <1>2, <1>3, <1>5, <1>6, <1>7, <1>8 DEF StoreInv

LEMMA ListStep ==
  ASSUME StoreInv, NEW t \in Threads, List(t)
  PROVE  StoreInv' /\ mem' = mem /\ Load' = Load /\ acked' = acked
<1>1. /\ mem' = mem /\ acked' = acked /\ next' = next
      /\ inode' = inode /\ content' = content /\ torn' = torn
      /\ saver' = [saver EXCEPT ![t].snap = mem, ![t].step = "open"]
      /\ saver[t].step = "list"
  BY DEF List, At, disk
<1>2. StoreTypeOK'
  BY <1>1 DEF StoreInv, StoreTypeOK
<1>3. DiskInv'
  BY <1>1 DEF StoreInv, DiskInv
<1>4. /\ saver'[t].step = "open" /\ saver'[t].snap = mem /\ saver'[t].change = saver[t].change
      /\ \A u \in Threads \ {t} : saver'[u] = saver[u]
  BY <1>1 DEF StoreInv, StoreTypeOK
<1>5. SaverInv(t)'
  BY <1>1, <1>4 DEF StoreInv, SaverInv, At
<1>6. QED
  BY <1>1, <1>2, <1>3, <1>4, <1>5, OthersIdle DEF Load, Readable, At

LEMMA OpenTmpStep ==
  ASSUME StoreInv, NEW t \in Threads, OpenTmp(t)
  PROVE  StoreInv' /\ mem' = mem /\ Load' = Load /\ acked' = acked
<1>1. PICK i \in Inodes :
         /\ IF inode["tmp"] # None THEN i = inode["tmp"] ELSE i \notin InUse
         /\ inode' = [inode EXCEPT !["tmp"] = i]
         /\ torn' = torn \cup {i}
         /\ content' = [content EXCEPT ![i] = {}]
         /\ saver' = [saver EXCEPT ![t].fd = i, ![t].step = "write"]
  BY DEF OpenTmp
<1>2. mem' = mem /\ acked' = acked /\ next' = next /\ saver[t].step = "open"
  BY DEF OpenTmp, At
<1>3. i # None /\ i # inode["primary"] /\ i # inode["bak"]
  BY <1>1, NumbersOfInodes DEF StoreInv, DiskInv, InUse, Names
<1>4. /\ inode'["tmp"] = i /\ inode'["primary"] = inode["primary"]
      /\ inode'["bak"] = inode["bak"]
  BY <1>1 DEF StoreInv, StoreTypeOK, Names
<1>5. StoreTypeOK'
  BY <1>1, <1>2 DEF StoreInv, StoreTypeOK
<1>6. DiskInv'
  BY <1>1, <1>3, <1>4 DEF StoreInv, DiskInv, Names
<1>7. Load' = Load
  <2>1. \A n \in {"primary", "bak"} : inode[n] # None => content'[inode[n]] = content[inode[n]]
    BY <1>1, <1>3 DEF StoreInv, StoreTypeOK
  <2>2. QED
    BY <1>1, <1>3, <1>4, <2>1 DEF Load, Readable
<1>8. /\ saver'[t].step = "write" /\ saver'[t].fd = i
      /\ saver'[t].snap = saver[t].snap /\ saver'[t].change = saver[t].change
      /\ \A u \in Threads \ {t} : saver'[u] = saver[u]
  BY <1>1 DEF StoreInv, StoreTypeOK
<1>9. SaverInv(t)'
  BY <1>1, <1>2, <1>3, <1>4, <1>8 DEF StoreInv, SaverInv, At
<1>10. QED
  BY <1>2, <1>5, <1>6, <1>7, <1>8, <1>9, OthersIdle DEF At

LEMMA WriteTmpStep ==
  ASSUME StoreInv, NEW t \in Threads, WriteTmp(t)
  PROVE  StoreInv' /\ mem' = mem /\ Load' = Load /\ acked' = acked
<1> DEFINE i == saver[t].fd
<1>1. /\ mem' = mem /\ acked' = acked /\ next' = next /\ inode' = inode
      /\ saver[t].step = "write"
      /\ content' = [content EXCEPT ![i] = saver[t].snap]
      /\ saver' = [saver EXCEPT ![t].fd = None, ![t].step = "backup"]
  BY DEF WriteTmp, At
<1>2. i = inode["tmp"] /\ i # None /\ i \in torn /\ saver[t].snap = mem
  BY <1>1 DEF StoreInv, SaverInv, At
<1>3. torn' = torn \ {i}
  BY <1>2 DEF WriteTmp
<1>4. i \in Inodes /\ i # inode["primary"] /\ i # inode["bak"]
  BY <1>2 DEF StoreInv, StoreTypeOK, DiskInv, Names
<1>5. StoreTypeOK'
  BY <1>1, <1>3 DEF StoreInv, StoreTypeOK
<1>6. DiskInv'
  BY <1>1, <1>3 DEF StoreInv, DiskInv
<1>7. Load' = Load
  <2>1. \A n \in {"primary", "bak"} : content'[inode[n]] = content[inode[n]]
                                      /\ (inode[n] \in torn' <=> inode[n] \in torn)
    BY <1>1, <1>3, <1>4 DEF StoreInv, StoreTypeOK
  <2>2. QED
    BY <1>1, <2>1 DEF Load, Readable
<1>8. /\ saver'[t].step = "backup"
      /\ saver'[t].snap = saver[t].snap /\ saver'[t].change = saver[t].change
      /\ \A u \in Threads \ {t} : saver'[u] = saver[u]
  BY <1>1 DEF StoreInv, StoreTypeOK
<1>9. content'[i] = mem
  BY <1>1, <1>2, <1>4 DEF StoreInv, StoreTypeOK
<1>10. SaverInv(t)'
  BY <1>1, <1>2, <1>3, <1>8, <1>9 DEF StoreInv, SaverInv, At
<1>11. QED
  BY <1>1, <1>5, <1>6, <1>7, <1>8, <1>10, OthersIdle DEF At

LEMMA MoveToBakStep ==
  ASSUME StoreInv, NEW t \in Threads, MoveToBak(t)
  PROVE  StoreInv' /\ mem' = mem /\ Load' = Load /\ acked' = acked
<1>1. /\ mem' = mem /\ acked' = acked /\ next' = next /\ content' = content /\ torn' = torn
      /\ saver[t].step = "backup" /\ saver' = [saver EXCEPT ![t].step = "publish"]
      /\ \/ inode["primary"] # None /\ inode' = BackUp(inode)
         \/ inode' = inode
  BY DEF MoveToBak, At, StepTo
<1>2. /\ inode'["tmp"] = inode["tmp"]
      /\ inode["primary"] # None /\ inode' = BackUp(inode) =>
            inode'["bak"] = inode["primary"] /\ inode'["primary"] = None
  BY <1>1 DEF BackUp, StoreInv, StoreTypeOK, Names
<1>3. StoreTypeOK'
  <2>1. inode' \in [Names -> Inodes \cup {None}]
    BY <1>1 DEF BackUp, StoreInv, StoreTypeOK, Names
  <2>2. saver' = [saver EXCEPT ![t] = [saver[t] EXCEPT !.step = "publish"]]
    BY <1>1
  <2>3. [saver[t] EXCEPT !.step = "publish"] \in
           [step : {"idle", "list", "open", "write", "backup", "publish", "answer"},
            change : Changes \cup {0}, snap : SUBSET Changes, fd : Inodes \cup {None}]
    BY DEF StoreInv, StoreTypeOK
  <2>4. QED
    BY <1>1, <2>1, <2>2, <2>3 DEF StoreInv, StoreTypeOK
<1>4. DiskInv'
  BY <1>1, <1>2 DEF StoreInv, DiskInv, Names
<1>5. Load' = Load
  <2>1. Load' = IF inode'["primary"] # None THEN content'[inode'["primary"]]
                ELSE IF inode'["bak"] # None THEN content'[inode'["bak"]] ELSE {}
    BY <1>4 DEF DiskInv, Load, Readable
  <2>2. QED
    BY <1>1, <1>2, <2>1, LoadIs DEF StoreInv
<1>6. /\ saver'[t].step = "publish"
      /\ saver'[t].snap = saver[t].snap /\ saver'[t].change = saver[t].change
      /\ \A u \in Threads \ {t} : saver'[u] = saver[u]
  BY <1>1 DEF StoreInv, StoreTypeOK
<1>7. SaverInv(t)'
  BY <1>1, <1>2, <1>6 DEF StoreInv, SaverInv, At
<1>8. QED
  BY <1>1, <1>3, <1>4, <1>5, <1>6, <1>7, OthersIdle DEF At

(* The rename is where everything in memory becomes durable at once.        *)
LEMMA PublishStep ==
  ASSUME StoreInv, NEW t \in Threads, Publish(t)
  PROVE  StoreInv' /\ mem' = mem /\ Load' = mem /\ acked' = acked
<1>1. saver[t].step = "publish" /\ inode["tmp"] # None
  BY DEF Publish, StoreInv, SaverInv, At
<1>2. /\ mem' = mem /\ acked' = acked /\ next' = next /\ content' = content /\ torn' = torn
      /\ saver' = [saver EXCEPT ![t].step = "answer"]
      /\ inode' = Renamed(inode)
  BY <1>1 DEF Publish, StepTo
<1>3. /\ inode'["primary"] = inode["tmp"] /\ inode'["tmp"] = None
      /\ inode'["bak"] = inode["bak"]
  BY <1>2 DEF Renamed, StoreInv, StoreTypeOK, Names
<1>4. content[inode["tmp"]] = mem /\ inode["tmp"] \notin torn
  BY <1>1 DEF StoreInv, SaverInv
<1>5. StoreTypeOK'
  <2>1. inode' \in [Names -> Inodes \cup {None}]
    BY <1>2 DEF Renamed, StoreInv, StoreTypeOK, Names
  <2>2. QED
    BY <1>2, <2>1 DEF StoreInv, StoreTypeOK
<1>6. DiskInv'
  BY <1>2, <1>3, <1>4 DEF StoreInv, DiskInv, Names
<1>7. Load' = mem
  BY <1>1, <1>2, <1>3, <1>4 DEF Load, Readable
<1>8. /\ saver'[t].step = "answer" /\ saver'[t].change = saver[t].change
      /\ \A u \in Threads \ {t} : saver'[u] = saver[u]
  BY <1>2 DEF StoreInv, StoreTypeOK
<1>9. SaverInv(t)'
  BY <1>1, <1>2, <1>3, <1>4, <1>8 DEF StoreInv, SaverInv, At
<1>10. QED
  BY <1>1, <1>2, <1>5, <1>6, <1>7, <1>8, <1>9, OthersIdle DEF At

(* A save that ends, well or badly, leaves the files as they are.           *)
LEMMA EndStep ==
  ASSUME StoreInv, NEW t \in Threads, ~At(t, "idle"),
         saver' = [saver EXCEPT ![t] = Idle],
         acked' \in SUBSET Changes, mem' = mem, next' = next, UNCHANGED disk
  PROVE  StoreInv' /\ Load' = Load
<1>1. /\ inode' = inode /\ content' = content /\ torn' = torn
      /\ saver'[t] = Idle
      /\ \A u \in Threads \ {t} : saver'[u] = saver[u]
  BY DEF disk, StoreInv, StoreTypeOK
<1>2. StoreTypeOK'
  BY <1>1 DEF StoreInv, StoreTypeOK, Idle
<1>3. DiskInv' /\ Load' = Load
  BY <1>1 DEF StoreInv, DiskInv, Load, Readable
<1>4. SaverInv(t)'
  BY <1>1 DEF SaverInv, At, Idle
<1>5. QED
  BY <1>1, <1>2, <1>3, <1>4, OthersIdle

LEMMA SaveFailsStep ==
  ASSUME StoreInv, NEW t \in Threads, SaveFails(t)
  PROVE  StoreInv' /\ mem' = mem /\ Load' = Load /\ acked' = acked
BY EndStep DEF SaveFails, At, StoreInv, StoreTypeOK

LEMMA AnswerStep ==
  ASSUME StoreInv, NEW t \in Threads, Answer(t)
  PROVE  /\ StoreInv'
         /\ mem' = mem /\ Load' = Load
         /\ saver[t].change \in Changes \cap Load /\ acked' = acked \cup {saver[t].change}
<1>1. /\ saver[t].step = "answer" /\ mem' = mem
      /\ acked' = acked \cup {saver[t].change}
  BY DEF Answer, At
<1>2. saver[t].change \in mem /\ mem \subseteq Changes
  BY <1>1 DEF StoreInv, SaverInv, StoreTypeOK, At
<1>3. Load = mem
  BY <1>1, LoadIs DEF StoreInv, SaverInv, At
<1>4. StoreInv' /\ Load' = Load
  BY <1>1, <1>2, EndStep DEF Answer, At, StoreInv, StoreTypeOK
<1>5. QED
  BY <1>1, <1>2, <1>3, <1>4

LEMMA RestartStep ==
  ASSUME StoreInv, Restart
  PROVE  StoreInv' /\ mem' = Load /\ Load' = Load /\ acked' = acked
<1>1. /\ inode' = inode /\ content' = content /\ torn' = torn
      /\ mem' = Load /\ acked' = acked /\ next' = next
      /\ \A t \in Threads : saver'[t] = Idle
      /\ saver' = [t \in Threads |-> Idle]
  BY DEF Restart, Loaded, disk
<1>2. Load \subseteq Changes
  BY LoadIs DEF StoreInv, StoreTypeOK, Names
<1>3. Idle \in [step : {"idle", "list", "open", "write", "backup", "publish", "answer"},
                change : Changes \cup {0}, snap : SUBSET Changes, fd : Inodes \cup {None}]
  BY DEF Idle
<1>4. StoreTypeOK'
  BY <1>1, <1>2, <1>3 DEF StoreInv, StoreTypeOK
<1>5. DiskInv' /\ Load' = Load
  BY <1>1 DEF StoreInv, DiskInv, Load, Readable
<1>6. \A t \in Threads : SaverInv(t)' /\ At(t, "idle")'
  BY <1>1 DEF SaverInv, At, Idle
<1>7. QED
  BY <1>1, <1>4, <1>5, <1>6 DEF StoreInv

LEMMA StutterStep ==
  ASSUME StoreInv, UNCHANGED storeVars
  PROVE  StoreInv' /\ mem' = mem /\ Load' = Load /\ acked' = acked
BY DEF storeVars, StoreInv, StoreTypeOK, DiskInv, SaverInv, At, Load, Readable

-----------------------------------------------------------------------------
LEMMA StoreInvariant ==
  ASSUME MaxSavers = 1
  PROVE  StoreSpec => []StoreInv
<1>1. StoreInv /\ [StoreNext]_storeVars => StoreInv'
  BY ChangeStep, ListStep, OpenTmpStep, WriteTmpStep, MoveToBakStep, PublishStep,
     SaveFailsStep, AnswerStep, RestartStep, StutterStep DEF StoreNext
<1>2. QED
  BY <1>1, InitStore, PTL DEF StoreSpec

(* Every variable keeps its type: what a save snapshots, what a file holds  *)
(* and what a start loads are changes that were made, and three inodes      *)
(* suffice besides the open ones (store.py:90-119).                        *)
THEOREM StoreTypeCorrect ==
  ASSUME MaxSavers = 1
  PROVE  StoreSpec => []StoreTypeOK
<1>1. StoreInv => StoreTypeOK
  BY DEF StoreInv
<1>2. QED
  BY <1>1, StoreInvariant, PTL

(* What was acknowledged is in memory and on disk.  Memory matters too: the *)
(* next save writes memory and nothing else.                               *)
AckedInv == acked \subseteq mem /\ acked \subseteq Load

LEMMA AckedStep ==
  ASSUME MaxSavers = 1, StoreInv, AckedInv, [StoreNext]_storeVars
  PROVE  AckedInv'
<1>1. CASE UNCHANGED storeVars
  BY <1>1, StutterStep DEF AckedInv
<1>2. CASE Restart
  BY <1>2, RestartStep DEF AckedInv
<1>3. ASSUME NEW t \in Threads, Change(t)
      PROVE  AckedInv'
  BY <1>3, ChangeStep DEF AckedInv
<1>4. ASSUME NEW t \in Threads,
             List(t) \/ OpenTmp(t) \/ WriteTmp(t) \/ MoveToBak(t) \/ SaveFails(t)
      PROVE  AckedInv'
  BY <1>4, ListStep, OpenTmpStep, WriteTmpStep, MoveToBakStep, SaveFailsStep DEF AckedInv
<1>5. ASSUME NEW t \in Threads, Publish(t)
      PROVE  AckedInv'
  BY <1>5, PublishStep DEF AckedInv
<1>6. ASSUME NEW t \in Threads, Answer(t)
      PROVE  AckedInv'
  <2>1. Load = mem
    BY <1>6, LoadIs DEF Answer, StoreInv, SaverInv, At
  <2>2. QED
    BY <1>6, <2>1, AnswerStep DEF AckedInv
<1>7. QED
  BY <1>1, <1>2, <1>3, <1>4, <1>5, <1>6 DEF StoreNext

(* A change whose caller was answered is found by every later start,        *)
(* wherever the process dies (store.py:106-112), as long as saves do not    *)
(* overlap; store_two_savers shows that they must not.                      *)
THEOREM StoreCorrect ==
  ASSUME MaxSavers = 1
  PROVE  StoreSpec => []AcknowledgedSurvives
<1>1. StoreInit => AckedInv
  BY DEF StoreInit, AckedInv
<1>2. StoreInv /\ AckedInv /\ [StoreNext]_storeVars => AckedInv'
  BY AckedStep
<1>3. AckedInv => AcknowledgedSurvives
  BY DEF AckedInv, AcknowledgedSurvives
<1>4. QED
  BY <1>1, <1>2, <1>3, StoreInvariant, PTL DEF StoreSpec

-----------------------------------------------------------------------------
(* Each step of a save maps to a step of the durable set or to none: only   *)
(* the rename of Publish commits.                                          *)
LEMMA StepRefines ==
  ASSUME MaxSavers = 1, StoreInv, [StoreNext]_storeVars
  PROVE  [Durable!Next]_Durable!vars
<1>1. CASE UNCHANGED storeVars
  BY <1>1, StutterStep DEF Durable!vars
<1>2. CASE Restart
  BY <1>2, RestartStep DEF Durable!Next, Durable!Restart
<1>3. ASSUME NEW t \in Threads, Change(t)
      PROVE  Durable!Next
  BY <1>3, ChangeStep DEF Durable!Next, Durable!Change
<1>4. ASSUME NEW t \in Threads,
             List(t) \/ OpenTmp(t) \/ WriteTmp(t) \/ MoveToBak(t) \/ SaveFails(t)
      PROVE  UNCHANGED Durable!vars
  BY <1>4, ListStep, OpenTmpStep, WriteTmpStep, MoveToBakStep, SaveFailsStep
  DEF Durable!vars
<1>5. ASSUME NEW t \in Threads, Publish(t)
      PROVE  Durable!Next
  BY <1>5, PublishStep DEF Durable!Next, Durable!Commit
<1>6. ASSUME NEW t \in Threads, Answer(t)
      PROVE  Durable!Next
  BY <1>6, AnswerStep DEF Durable!Next, Durable!Acknowledge
<1>7. QED
  BY <1>1, <1>2, <1>3, <1>4, <1>5, <1>6 DEF StoreNext

(* A save is atomic for whoever restarts: with what a start would load as   *)
(* the durable part, the store implements the durable set, if saves do not  *)
(* overlap (store.py:90-119, "versioned, crash-safe store").                *)
THEOREM StoreImplementsDurableSet ==
  ASSUME MaxSavers = 1
  PROVE  StoreSpec => SavesAtomically
<1>1. StoreInit => Durable!Init
  BY DEF StoreInit, Durable!Init, Load, Readable, Names
<1>2. StoreInv /\ [StoreNext]_storeVars => [Durable!Next]_Durable!vars
  BY StepRefines
<1>3. QED
  BY <1>1, <1>2, StoreInvariant, PTL DEF StoreSpec, SavesAtomically, Durable!Spec

=============================================================================
