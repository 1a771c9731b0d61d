-------------------------- MODULE RequestAdmission --------------------------
(***************************************************************************)
(* Admission of HTTP requests: the sliding-window RateLimiter and the      *)
(* ConcurrencyGate of core/security/rate_limit.py, as the middleware of    *)
(* core/runtime/app.py drives them.  The middleware runs on the event      *)
(* loop: allow, then try_acquire, then the handler, and release of the     *)
(* same principal in the `finally`, whatever the handler did (returned,    *)
(* raised, or was cancelled).                                              *)
(*                                                                         *)
(* The limiter knows a request by the first characters of its key, so two  *)
(* principals may share a bucket (RateKeyOf is any function); the gate     *)
(* knows it by the digest of the whole key (PrincipalOf).                  *)
(***************************************************************************)
EXTENDS Integers, Sequences, FiniteSets

CONSTANTS
    Requests,     \* requests that may be in flight at the same time
    Principals,   \* budget principals: digest of a key, peer, or "-"
    RateKeys,     \* buckets of the rate limiter
    PrincipalOf,  \* principal_key of each request
    RateKeyOf,    \* rate_key of each request
    Limit,        \* max_concurrent_requests
    Quota,        \* max_concurrent_per_principal, already min(limit, .)
    RateLimit,    \* rate_limit_per_minute
    Window,       \* the 60 seconds of the sliding window, in ticks
    MaxTime       \* bound: the clock stops here

ASSUME AdmissionAssumption ==
    /\ PrincipalOf \in [Requests -> Principals]
    /\ RateKeyOf \in [Requests -> RateKeys]
    /\ Limit \in Nat \ {0}
    /\ Quota \in 1..Limit
    /\ RateLimit \in Nat
    /\ Window \in Nat
    /\ MaxTime \in Nat

VARIABLES
    now,           \* time.monotonic()
    hits,          \* RateLimiter._hits: the deque of each bucket
    inFlight,      \* ConcurrencyGate._in_flight
    perPrincipal,  \* ConcurrencyGate._per_principal, 0 for an absent key
    running,       \* requests between a granted try_acquire and their release
    granted        \* history: every hit the limiter ever granted, per bucket

gateVars == <<inFlight, perPrincipal, running>>
admissionVars == <<now, hits, inFlight, perPrincipal, running, granted>>

Of(p) == {r \in running : PrincipalOf[r] = p}

AdmissionInit ==
    /\ now = 0
    /\ hits = [k \in RateKeys |-> <<>>]
    /\ inFlight = 0
    /\ perPrincipal = [p \in Principals |-> 0]
    /\ running = {}
    /\ granted = [k \in RateKeys |-> <<>>]

-----------------------------------------------------------------------------
(* RateLimiter.allow                                                       *)

\* Mutated form of Stale: a hit exactly one window old is dropped.
StaleInclusive(t) == now - t >= Window

Stale(t) == now - t > Window

\* How many hits the while loop pops off the front of the deque.
Popped(q) ==
    CHOOSE n \in 0..Len(q) :
        /\ \A i \in 1..n : Stale(q[i])
        /\ n < Len(q) => ~Stale(q[n + 1])

Pruned(q) == SubSeq(q, Popped(q) + 1, Len(q))

UnderRate(k) == Len(Pruned(hits[k])) < RateLimit

\* A granted hit is appended; it is spent even if the gate then refuses.
Hit(k) ==
    /\ UnderRate(k)
    /\ hits' = [hits EXCEPT ![k] = Append(Pruned(@), now)]
    /\ granted' = [granted EXCEPT ![k] = Append(@, now)]

\* 429 "Rate limit exceeded": the deque was pruned all the same.
RateLimited(r) ==
    LET k == RateKeyOf[r] IN
    /\ r \notin running
    /\ ~UnderRate(k)
    /\ hits' = [hits EXCEPT ![k] = Pruned(@)]
    /\ UNCHANGED <<now, gateVars, granted>>

-----------------------------------------------------------------------------
(* ConcurrencyGate.try_acquire: two ceilings, the global one first.        *)

GlobalFull == inFlight >= Limit

\* Mutated form of QuotaFull: only the global ceiling is left.
QuotaFullDropped(p) == p \notin Principals

QuotaFull(p) == perPrincipal[p] >= Quota

Admit(r) ==
    LET p == PrincipalOf[r] IN
    /\ r \notin running
    /\ Hit(RateKeyOf[r])
    /\ ~GlobalFull
    /\ ~QuotaFull(p)
    /\ inFlight' = inFlight + 1
    /\ perPrincipal' = [perPrincipal EXCEPT ![p] = @ + 1]
    /\ running' = running \cup {r}
    /\ UNCHANGED now

\* 429 "Concurrency limit exceeded": the handler never runs.
Refuse(r) ==
    /\ r \notin running
    /\ Hit(RateKeyOf[r])
    /\ GlobalFull \/ QuotaFull(PrincipalOf[r])
    /\ UNCHANGED <<now, gateVars>>

-----------------------------------------------------------------------------
(* ConcurrencyGate.release, from the middleware's `finally`.               *)

\* Mutated form of ReleaseSlot: the handler and the middleware both release.
ReleaseTwice(r) ==
    LET p == PrincipalOf[r] IN
    /\ r \in running
    /\ running' = running \ {r}
    /\ inFlight' = inFlight - 2
    /\ perPrincipal' = [perPrincipal EXCEPT ![p] = @ - 2]
    /\ UNCHANGED <<now, hits, granted>>

\* Mutated form of ReleaseSlot: the global counter is left as it was.
ReleaseLeaksSlot(r) ==
    LET p == PrincipalOf[r] IN
    /\ r \in running
    /\ running' = running \ {r}
    /\ perPrincipal' = [perPrincipal EXCEPT ![p] = IF @ <= 1 THEN 0 ELSE @ - 1]
    /\ UNCHANGED <<now, hits, granted, inFlight>>

ReleaseSlot(r) ==
    LET p == PrincipalOf[r] IN
    /\ r \in running
    /\ running' = running \ {r}
    /\ inFlight' = IF inFlight > 0 THEN inFlight - 1 ELSE inFlight
    /\ perPrincipal' = [perPrincipal EXCEPT ![p] = IF @ <= 1 THEN 0 ELSE @ - 1]
    /\ UNCHANGED <<now, hits, granted>>

Tick ==
    /\ now < MaxTime
    /\ now' = now + 1
    /\ UNCHANGED <<hits, gateVars, granted>>

AdmissionNext ==
    \/ Tick
    \/ \E r \in Requests :
          \/ RateLimited(r)
          \/ Refuse(r)
          \/ Admit(r)
          \/ ReleaseSlot(r)

AdmissionSpec == AdmissionInit /\ [][AdmissionNext]_admissionVars

-----------------------------------------------------------------------------
(* Properties                                                              *)

AdmissionTypeOK ==
    /\ now \in Nat
    /\ hits \in [RateKeys -> Seq(Nat)]
    /\ inFlight \in Nat
    /\ perPrincipal \in [Principals -> Nat]
    /\ running \in SUBSET Requests
    /\ granted \in [RateKeys -> Seq(Nat)]

(* The two counters are exactly the requests in flight: no slot leaks and   *)
(* none is given back twice, so both ceilings bound real handlers          *)
(* (rate_limit.py ConcurrencyGate, app.py `finally`).                      *)
GateCountsRequests ==
    /\ inFlight = Cardinality(running)
    /\ \A p \in Principals : perPrincipal[p] = Cardinality(Of(p))
    /\ Cardinality(running) <= Limit
    /\ \A p \in Principals : Cardinality(Of(p)) <= Quota

(* A caller with nothing in flight is refused by the gate only when so many *)
(* other principals are active that their quotas fill the process: one     *)
(* noisy caller cannot deny the others (rate_limit.py:3-5, N046).          *)
ActivePrincipals == {p \in Principals : Of(p) # {}}

NoisyNeighbour ==
    [][\A r \in Requests :
          (Refuse(r) /\ Of(PrincipalOf[r]) = {})
             => Cardinality(ActivePrincipals) * Quota >= Limit]_admissionVars

(* No closed window of the clock holds more than RateLimit granted hits of  *)
(* one bucket, although the limiter forgets the hits it pops               *)
(* (rate_limit.py RateLimiter.allow).                                      *)
SlidingWindow ==
    \A k \in RateKeys : \A i, j \in 1..Len(granted[k]) :
        j - i >= RateLimit => granted[k][j] - granted[k][i] > Window

=============================================================================
