------------------------ MODULE AccessControl_proofs ------------------------
(* Theorems about AccessControl, for every value of its constants.          *)
EXTENDS AccessControl, Integers, FiniteSetTheorems, WellFoundedInduction, TLAPS

-----------------------------------------------------------------------------
(* Every non-empty set of naturals has a least element.  It is what stands  *)
(* in for induction in this development: a property of all the positions   *)
(* of a sequence is proved by taking the least position that refutes it.   *)
LEMMA LeastNatural ==
  ASSUME NEW T \in SUBSET Nat, T # {}
  PROVE  \E n \in T : \A m \in T : n <= m
<1> DEFINE Below == OpToRel(<, Nat)
<1>1. IsWellFoundedOn(Below, Nat)
  BY NatLessThanWellFounded
<1>2. \A x, y \in Nat : x < y => <<x, y>> \in Below
  BY DEF OpToRel
<1> HIDE DEF Below
<1>3. PICK x \in T : \A y \in T : ~(<<y, x>> \in Below)
  BY <1>1, WFMin
<1>4. \A y \in T : ~(y < x)
  BY <1>2, <1>3
<1>5. QED
  BY <1>4

-----------------------------------------------------------------------------
(* The invariant                                                           *)

Sessions == [key : Keys, dead : BOOLEAN]
Stages == {"idle", "resolve", "overlay", "session", "key", "live", "app", "effect",
           "body", "old-overlay", "revoke-old", "register", "copy"}
CallRecords ==
    [at : Stages, kind : Kinds \cup {None}, key : Keys \cup {None}, role : Roles \cup {None},
     sid : Nat, granted : BOOLEAN, old : Keys \cup {None}, new : Keys \cup {None},
     grade : Roles \cup {None}, line : Keys \cup {None}]

\* The registry and the histories have their types.
RegistryType ==
    /\ revoked \subseteq Keys
    /\ overlay \in [Keys -> Roles \cup {None}]
    /\ sessions \in Seq(Sessions)
    /\ scopes \in [Keys -> (SUBSET Apps) \cup {Unset}]
    /\ call \in [Workers -> CallRecords]
    /\ cut \subseteq Workers /\ late \in [Workers -> 0..2]
    /\ heirOf \in [Keys -> Keys \cup {None}]
    /\ contested \subseteq Keys /\ narrow \subseteq Keys
    /\ calls \in 0..MaxCalls /\ restarts \in 0..MaxRestarts

\* A key whose role one list of the Settings gives.
Listed(g) == g \in Keys /\ Cardinality(Lists[g]) = 1

\* What a call knows at each stage: c is its record.
CallOK(c) ==
    /\ c.at # "idle" => c.key \in Keys
    /\ c.at \in {"idle", "resolve", "overlay", "session"} => c.sid = 0
    /\ c.at \in {"old-overlay", "revoke-old", "register", "copy"} => c.old \in Keys /\ c.new \in Keys
    /\ c.at \in {"revoke-old", "register", "copy"} => Listed(c.line) /\ c.grade = SettingsRole(c.line)
    /\ c.at \in {"register", "copy"} => Lists[c.new] = {}

\* A worker is bound to a session of its key, which is dead once it is cut.
Bound(w) ==
    /\ call[w].sid \in 0..Len(sessions)
    /\ call[w].sid # 0 => sessions[call[w].sid].key = call[w].key
    /\ w \in cut => call[w].sid # 0 /\ sessions[call[w].sid].dead
    /\ late[w] <= 1
    /\ late[w] # 0 => w \in cut /\ call[w].at \in {"key", "live"}

\* A key in the overlay has the role of the Settings key it descends from.
OverlayOK(k) ==
    /\ InSettings(k) => heirOf[k] = k
    /\ overlay[k] # None => /\ k \notin revoked /\ Lists[k] = {}
                            /\ Listed(heirOf[k]) /\ overlay[k] = SettingsRole(heirOf[k])

Heir(k, g) == k \in Keys /\ Active(k) /\ heirOf[k] = g

\* A credential nobody rotates twice at once: one rotation, one heir, which
\* is the key under rotation until it is revoked, and none from then on.
LineOK(g) ==
    /\ \A v, w \in Workers :
          Rotating(v) /\ Rotating(w) /\ call[v].line = g /\ call[w].line = g => v = w
    /\ \A j, k \in Keys : Heir(j, g) /\ Heir(k, g) => j = k
    /\ \A w \in Workers : call[w].line = g =>
          /\ At(w, "revoke-old") => \A k \in Keys : Heir(k, g) => k = call[w].old
          /\ At(w, "register") => \A k \in Keys : ~Heir(k, g)

\* A restricted key without restriction is about to get one.
NarrowOK(k) ==
    k \in narrow /\ Scopes(k) = {} =>
        \E w \in Workers : At(w, "copy") /\ call[w].new = k /\ scopes[call[w].old] # Unset

AccessInv ==
    /\ RegistryType
    /\ \A w \in Workers : CallOK(call[w]) /\ Bound(w)
    /\ \A k \in Keys : OverlayOK(k) /\ NarrowOK(k)
    /\ \A g \in Keys \ contested : Listed(g) => LineOK(g)

-----------------------------------------------------------------------------
(* Lists, sessions and names                                               *)

LEMMA RolesFinite == IsFiniteSet(Roles)
<1>1. IsFiniteSet({}) /\ IsFiniteSet({"viewer"})
  BY FS_EmptySet, FS_Singleton
<1>2. IsFiniteSet({"viewer"} \cup {"operator"})
  BY <1>1, FS_AddElement
<1>3. IsFiniteSet(({"viewer"} \cup {"operator"}) \cup {"automator"})
  BY <1>2, FS_AddElement
<1>4. IsFiniteSet((({"viewer"} \cup {"operator"}) \cup {"automator"}) \cup {"admin"})
  BY <1>3, FS_AddElement
<1>5. Roles = (({"viewer"} \cup {"operator"}) \cup {"automator"}) \cup {"admin"}
  BY DEF Roles
<1>6. QED
  BY <1>4, <1>5

\* A key in one list has the role of that list.
LEMMA ListedRole ==
  ASSUME NEW g, Listed(g)
  PROVE  SettingsRole(g) \in Roles /\ Lists[g] # {} /\ InSettings(g)
<1>1. Lists[g] \subseteq Roles
  BY AccessAssumption DEF Listed
<1>2. IsFiniteSet(Lists[g])
  BY <1>1, RolesFinite, FS_Subset
<1>3. PICK r : Lists[g] = {r}
  BY <1>2, FS_Singleton DEF Listed
<1>4. r \in Roles
  BY <1>1, <1>3
<1>5. SettingsRole(g) \in Roles
  BY <1>3, <1>4 DEF SettingsRole
<1>6. QED
  BY <1>3, <1>5 DEF InSettings

\* What resolve_role accepts: a listed key, or one of the overlay.
LEMMA KnownIsListed ==
  ASSUME NEW k \in Keys
  PROVE  Known(k) <=> k \notin revoked /\ Listed(k)
BY DEF Known, Listed

LEMMA FirstOfSet ==
  ASSUME NEW S \in SUBSET Nat, S # {}
  PROVE  First(S) \in S
<1>1. \E s \in S : \A t \in S : s <= t
  BY LeastNatural
<1>2. QED
  BY <1>1 DEF First

\* issue_session answers with a session of the key.
LEMMA FirstLive ==
  ASSUME RegistryType, NEW k, LiveOf(k) # {}
  PROVE  /\ First(LiveOf(k)) \in 1..Len(sessions)
         /\ sessions[First(LiveOf(k))].key = k
<1>1. DOMAIN sessions = 1..Len(sessions) /\ Len(sessions) \in Nat
  BY DEF RegistryType
<1>2. LiveOf(k) \in SUBSET Nat
  BY <1>1 DEF LiveOf
<1>3. First(LiveOf(k)) \in LiveOf(k)
  BY <1>2, FirstOfSet
<1>4. QED
  BY <1>1, <1>3 DEF LiveOf

\* Flags are set on sessions that stay where they are.
LEMMA FlagKeeps ==
  ASSUME RegistryType, NEW ss, Flag(ss)
  PROVE  /\ sessions' \in Seq(Sessions) /\ Len(sessions') = Len(sessions)
         /\ \A s \in 1..Len(sessions) :
               /\ sessions'[s].key = sessions[s].key
               /\ sessions[s].dead \/ s \in ss => sessions'[s].dead
<1>1. /\ DOMAIN sessions = 1..Len(sessions) /\ Len(sessions) \in Nat
      /\ \A s \in 1..Len(sessions) : sessions[s] \in Sessions
  BY DEF RegistryType
<1>2. \A s \in 1..Len(sessions) :
        /\ [sessions[s] EXCEPT !.dead = @ \/ s \in ss] \in Sessions
        /\ [sessions[s] EXCEPT !.dead = @ \/ s \in ss].key = sessions[s].key
        /\ [sessions[s] EXCEPT !.dead = @ \/ s \in ss].dead = (sessions[s].dead \/ s \in ss)
  BY <1>1 DEF Sessions
<1>3. sessions' = [s \in 1..Len(sessions) |-> [sessions[s] EXCEPT !.dead = @ \/ s \in ss]]
  BY <1>1 DEF Flag
<1>4. sessions' \in Seq(Sessions) /\ Len(sessions') = Len(sessions)
  BY <1>1, <1>2, <1>3
<1>5. QED
  BY <1>2, <1>3, <1>4

-----------------------------------------------------------------------------
(* Types and the initial state                                             *)

LEMMA InvIsTyped == AccessInv => TypeOK
BY DEF AccessInv, RegistryType, TypeOK, CallRecords, Stages, Sessions, Bound

LEMMA IdleOK == Idle \in CallRecords /\ CallOK(Idle)
<1>1. Idle \in CallRecords
  BY DEF Idle, CallRecords, Stages, Kinds
<1>2. QED
  BY <1>1 DEF CallOK, Idle

\* What a server starts with, also after a restart: the registry is kept in
\* memory only.
Empty ==
    /\ revoked = {} /\ overlay = [k \in Keys |-> None] /\ sessions = <<>>
    /\ scopes = [k \in Keys |-> Unset] /\ call = [w \in Workers |-> Idle]
    /\ cut = {} /\ late = [w \in Workers |-> 0]
    /\ heirOf = [k \in Keys |-> IF InSettings(k) THEN k ELSE None]
    /\ contested = {} /\ narrow = {}
    /\ calls \in 0..MaxCalls /\ restarts \in 0..MaxRestarts

LEMMA EmptyInv == Empty => AccessInv
<1> SUFFICES ASSUME Empty
             PROVE  AccessInv
  OBVIOUS
<1> USE DEF Empty
<1>1. RegistryType
  <2>1. sessions \in Seq(Sessions) /\ overlay \in [Keys -> Roles \cup {None}]
    OBVIOUS
  <2>2. scopes \in [Keys -> (SUBSET Apps) \cup {Unset}]
    <3>1. Unset \in (SUBSET Apps) \cup {Unset}
      OBVIOUS
    <3>2. QED
      BY <3>1
  <2>3. heirOf \in [Keys -> Keys \cup {None}]
    OBVIOUS
  <2>4. call \in [Workers -> CallRecords] /\ late \in [Workers -> 0..2]
    BY IdleOK
  <2>5. QED
    BY <2>1, <2>2, <2>3, <2>4 DEF RegistryType
<1>2. \A w \in Workers : call[w] = Idle
  OBVIOUS
<1>3. \A w \in Workers : CallOK(call[w]) /\ Bound(w)
  BY <1>2, IdleOK DEF Bound, Idle
<1>4. \A k \in Keys : OverlayOK(k) /\ NarrowOK(k)
  BY DEF OverlayOK, NarrowOK
<1>5. ASSUME NEW g \in Keys
      PROVE  LineOK(g)
  <2>1. \A w \in Workers : ~Rotating(w) /\ ~At(w, "revoke-old") /\ ~At(w, "register")
    BY <1>2 DEF Rotating, At, Idle
  <2>2. ASSUME NEW k \in Keys, Active(k), heirOf[k] = g
        PROVE  k = g
    <3>1. Known(k)
      BY <2>2 DEF Active
    <3>2. InSettings(k)
      BY <3>1, KnownIsListed, ListedRole
    <3>3. QED
      BY <2>2, <3>2
  <2>3. QED
    BY <2>1, <2>2 DEF LineOK, Heir
<1>6. QED
  BY <1>1, <1>3, <1>4, <1>5 DEF AccessInv

-----------------------------------------------------------------------------
(* Steps that rotate nothing                                               *)

\* Where nothing is accepted that was not, and no rotation begins, a line of
\* heirs stays as it is.
LEMMA LineKept ==
  ASSUME NEW g, LineOK(g), revoked \subseteq revoked',
         \A k \in Keys : overlay'[k] \in {overlay[k], None}, heirOf' = heirOf,
         \A w \in Workers : call'[w] = call[w]
                            \/ call'[w].at \notin {"revoke-old", "register", "copy"}
  PROVE  LineOK(g)'
<1>1. \A k \in Keys : Heir(k, g)' => Heir(k, g)
  BY DEF Heir, Active, Known, MayBeOverlay
<1>2. \A w \in Workers : call'[w] = call[w] \/ ~Rotating(w)'
  BY DEF Rotating
<1>3. \A v, w \in Workers : Rotating(v)' /\ Rotating(w)' /\ call'[v].line = g /\ call'[w].line = g
                            => v = w
  BY <1>2 DEF LineOK, Rotating
<1>4. \A j, k \in Keys : Heir(j, g)' /\ Heir(k, g)' => j = k
  BY <1>1 DEF LineOK
<1>5. ASSUME NEW w \in Workers, call'[w].line = g
      PROVE  /\ At(w, "revoke-old")' => \A k \in Keys : Heir(k, g)' => k = call'[w].old
             /\ At(w, "register")' => \A k \in Keys : ~(Heir(k, g)')
  BY <1>1, <1>5 DEF LineOK, At
<1>6. QED
  BY <1>3, <1>4, <1>5 DEF LineOK

\* Sessions are added and flagged, never taken back.
SessionsGrow ==
    /\ sessions' \in Seq(Sessions)
    /\ Len(sessions') >= Len(sessions)
    /\ \A s \in 1..Len(sessions) : /\ sessions'[s].key = sessions[s].key
                                   /\ sessions[s].dead => sessions'[s].dead

\* Worker v is cut off when its session dies, and stays cut off.
CutsSound(v) ==
    /\ v \in cut' => v \in cut \/ (call[v].sid # 0 /\ sessions'[call[v].sid].dead)
    /\ v \in cut => v \in cut'
    /\ late'[v] = late[v]

LEMMA SessionsStay ==
  ASSUME RegistryType, sessions' = sessions
  PROVE  SessionsGrow
BY DEF SessionsGrow, RegistryType

\* A worker other than the one that moves stays bound.
LEMMA BoundKept ==
  ASSUME RegistryType, NEW w \in Workers, Bound(w), call'[w] = call[w], SessionsGrow, CutsSound(w)
  PROVE  Bound(w)'
<1>1. /\ Len(sessions) \in Nat /\ Len(sessions') \in Nat
      /\ call[w].sid \in 0..Len(sessions) /\ call[w].sid \in 0..Len(sessions')
  BY DEF RegistryType, Bound, SessionsGrow
<1>2. QED
  BY <1>1 DEF Bound, SessionsGrow, CutsSound

\* Types and the calls, when worker w goes on as c.
LEMMA CallStep ==
  ASSUME AccessInv, NEW w \in Workers, NEW c \in CallRecords, CallOK(c),
         call' = [call EXCEPT ![w] = c],
         revoked' \subseteq Keys, overlay' \in [Keys -> Roles \cup {None}],
         scopes' \in [Keys -> (SUBSET Apps) \cup {Unset}], heirOf' \in [Keys -> Keys \cup {None}],
         contested' \subseteq Keys, narrow' \subseteq Keys,
         SessionsGrow, cut' \subseteq Workers, late' \in [Workers -> 0..2],
         \A v \in Workers \ {w} : CutsSound(v),
         Bound(w)',
         calls' \in 0..MaxCalls, restarts' \in 0..MaxRestarts
  PROVE  /\ RegistryType'
         /\ \A v \in Workers : CallOK(call[v])' /\ Bound(v)'
         /\ call'[w] = c /\ \A v \in Workers \ {w} : call'[v] = call[v]
<1>1. RegistryType /\ call \in [Workers -> CallRecords]
  BY DEF AccessInv, RegistryType
<1>2. call'[w] = c /\ \A v \in Workers \ {w} : call'[v] = call[v]
  BY <1>1
<1>3. RegistryType'
  BY <1>1 DEF RegistryType, SessionsGrow
<1>4. ASSUME NEW v \in Workers \ {w}
      PROVE  Bound(v)'
  <2>1. Bound(v)
    BY DEF AccessInv
  <2>2. QED
    BY <1>1, <1>2, <2>1, BoundKept
<1>5. QED
  BY <1>2, <1>3, <1>4 DEF AccessInv, CallOK

\* The registry accepts no key it did not accept, and a key it no longer
\* accepts has left the overlay.
NoNewKeys ==
    /\ revoked \subseteq revoked' /\ revoked' \subseteq Keys
    /\ overlay' \in [Keys -> Roles \cup {None}]
    /\ \A k \in Keys : /\ overlay'[k] \in {overlay[k], None}
                       /\ k \in revoked' \ revoked => overlay'[k] = None

LEMMA OverlayKept ==
  ASSUME NEW k \in Keys, OverlayOK(k), NoNewKeys, heirOf' = heirOf
  PROVE  OverlayOK(k)'
BY DEF OverlayOK, NoNewKeys

\* The step of one call after which no rotation has gone further.
LEMMA BroadStep ==
  ASSUME AccessInv, NEW w \in Workers, NEW c \in CallRecords, CallOK(c),
         call' = [call EXCEPT ![w] = c],
         c.at \notin {"revoke-old", "register", "copy"},
         NoNewKeys, UNCHANGED <<heirOf, contested>>,
         scopes' \in [Keys -> (SUBSET Apps) \cup {Unset}], narrow' \subseteq Keys,
         \A k \in Keys : NarrowOK(k)',
         SessionsGrow, cut' \subseteq Workers, late' \in [Workers -> 0..2],
         \A v \in Workers \ {w} : CutsSound(v),
         Bound(w)',
         calls' \in 0..MaxCalls, restarts' \in 0..MaxRestarts
  PROVE  AccessInv'
<1>1. /\ heirOf' \in [Keys -> Keys \cup {None}] /\ contested' \subseteq Keys
      /\ revoked' \subseteq Keys /\ overlay' \in [Keys -> Roles \cup {None}]
  BY DEF AccessInv, RegistryType, NoNewKeys
<1>2. /\ RegistryType' /\ \A v \in Workers : CallOK(call[v])' /\ Bound(v)'
      /\ call'[w] = c /\ \A v \in Workers \ {w} : call'[v] = call[v]
  BY <1>1, CallStep
<1>3. \A k \in Keys : OverlayOK(k)'
  BY OverlayKept DEF AccessInv
<1>4. ASSUME NEW g \in Keys \ contested', Listed(g)
      PROVE  LineOK(g)'
  <2>1. LineOK(g)
    BY <1>4 DEF AccessInv
  <2>2. \A v \in Workers : call'[v] = call[v]
                           \/ call'[v].at \notin {"revoke-old", "register", "copy"}
    BY <1>2
  <2>3. QED
    BY <2>1, <2>2, LineKept DEF NoNewKeys
<1>5. QED
  BY <1>2, <1>3, <1>4 DEF AccessInv

LEMMA NarrowKept ==
  ASSUME NEW k \in Keys, NarrowOK(k), narrow' = narrow, scopes' = scopes,
         \A v \in Workers : At(v, "copy") => call'[v] = call[v]
  PROVE  NarrowOK(k)'
BY DEF NarrowOK, Scopes, At

\* The step of one call that leaves the registry alone, but for sessions.
LEMMA OwnStep ==
  ASSUME AccessInv, NEW w \in Workers, NEW c \in CallRecords, CallOK(c),
         call' = [call EXCEPT ![w] = c], ~At(w, "copy"),
         c.at \notin {"revoke-old", "register", "copy"},
         UNCHANGED <<revoked, overlay, scopes, heirOf, contested, narrow>>,
         SessionsGrow, cut' \subseteq Workers, late' \in [Workers -> 0..2],
         \A v \in Workers \ {w} : CutsSound(v),
         Bound(w)',
         calls' \in 0..MaxCalls, restarts' \in 0..MaxRestarts
  PROVE  AccessInv'
<1>1. /\ scopes' \in [Keys -> (SUBSET Apps) \cup {Unset}] /\ narrow' \subseteq Keys /\ NoNewKeys
      /\ call \in [Workers -> CallRecords]
  BY DEF AccessInv, RegistryType, NoNewKeys
<1>2. \A k \in Keys : NarrowOK(k)'
  <2>1. \A v \in Workers : At(v, "copy") => call'[v] = call[v]
    BY <1>1
  <2>2. QED
    BY <2>1, NarrowKept DEF AccessInv
<1>3. QED
  BY <1>1, <1>2, BroadStep

\* What the gate and issue_session write into the record of a call.
Moved(c, at, sid, granted) == [c EXCEPT !.sid = sid, !.granted = granted, !.at = at]

LEMMA MovedRecord ==
  ASSUME NEW c \in CallRecords, NEW at \in Stages, NEW sid \in Nat,
         NEW granted, granted \in BOOLEAN
  PROVE  /\ Moved(c, at, sid, granted) \in CallRecords
         /\ Moved(c, at, sid, granted).sid = sid
         /\ Moved(c, at, sid, granted).at = at
         /\ Moved(c, at, sid, granted).key = c.key
BY DEF Moved, CallRecords

\* A step that changes nothing but the record of its call.
LEMMA QuietStep ==
  ASSUME AccessInv, NEW w \in Workers, NEW c \in CallRecords, CallOK(c),
         call' = [call EXCEPT ![w] = c], ~At(w, "copy"),
         c.at \notin {"revoke-old", "register", "copy"},
         UNCHANGED <<registry, history, restarts>>, calls' \in 0..MaxCalls,
         c.sid = call[w].sid, c.key = call[w].key \/ c.sid = 0,
         late[w] # 0 => c.at \in {"key", "live"}
  PROVE  AccessInv'
<1>1. /\ call \in [Workers -> CallRecords] /\ sessions \in Seq(Sessions) /\ Len(sessions) \in Nat
      /\ cut \subseteq Workers /\ late \in [Workers -> 0..2] /\ restarts \in 0..MaxRestarts
      /\ Bound(w)
  BY DEF AccessInv, RegistryType
<1>2. UNCHANGED <<revoked, overlay, sessions, scopes, heirOf, contested, narrow, cut, late>>
  BY DEF registry, history
<1>3. Bound(w)'
  BY <1>1, <1>2 DEF Bound
<1>4. SessionsGrow
  BY <1>2, SessionsStay DEF AccessInv
<1>5. \A v \in Workers \ {w} : CutsSound(v)
  BY <1>2 DEF CutsSound
<1>6. QED
  BY <1>1, <1>2, <1>3, <1>4, <1>5, OwnStep

LEMMA RefuseStep ==
  ASSUME AccessInv, NEW w \in Workers, ~At(w, "copy"), Refuse(w)
  PROVE  AccessInv'
<1>1. /\ call \in [Workers -> CallRecords] /\ sessions \in Seq(Sessions) /\ Len(sessions) \in Nat
      /\ cut \subseteq Workers /\ late \in [Workers -> 0..2]
      /\ calls \in 0..MaxCalls /\ restarts \in 0..MaxRestarts
  BY DEF AccessInv, RegistryType
<1>2. /\ UNCHANGED <<revoked, overlay, sessions, scopes, heirOf, contested, narrow, calls, restarts>>
      /\ call' = [call EXCEPT ![w] = Idle]
      /\ cut' = cut \ {w} /\ late' = [late EXCEPT ![w] = 0]
  BY DEF Refuse, End, registry
<1>3. late' \in [Workers -> 0..2]
  BY <1>1, <1>2
<1>4. Bound(w)'
  BY <1>1, <1>2 DEF Bound, Idle
<1>5. Idle.at = "idle"
  BY DEF Idle
<1>6. SessionsGrow
  BY <1>2, SessionsStay DEF AccessInv
<1>7. \A v \in Workers \ {w} : CutsSound(v)
  BY <1>1, <1>2 DEF CutsSound
<1>8. QED
  BY <1>1, <1>2, <1>3, <1>4, <1>5, <1>6, <1>7, IdleOK, OwnStep

LEMMA BeginStep ==
  ASSUME AccessInv, NEW w \in Workers, NEW kind \in Kinds, NEW k \in Keys, Begin(w, kind, k)
  PROVE  AccessInv'
<1> DEFINE c == [Idle EXCEPT !.at = "resolve", !.kind = kind, !.key = k]
<1>1. c \in CallRecords /\ CallOK(c) /\ c.sid = 0 /\ c.at = "resolve"
  BY IdleOK DEF Idle, CallRecords, Stages, CallOK
<1>2. /\ call' = [call EXCEPT ![w] = c] /\ At(w, "idle") /\ calls < MaxCalls /\ calls' = calls + 1
      /\ UNCHANGED <<registry, history, restarts>>
  BY DEF Begin
<1> HIDE DEF c
<1>3. call[w].sid = 0 /\ late[w] = 0 /\ call[w].at = "idle"
  BY <1>2 DEF AccessInv, RegistryType, CallOK, Bound, At
<1>4. calls' \in 0..MaxCalls
  BY <1>2, AccessAssumption DEF AccessInv, RegistryType
<1>5. QED
  BY <1>1, <1>2, <1>3, <1>4, QuietStep DEF At

LEMMA ResolveStep ==
  ASSUME AccessInv, NEW w \in Workers, Resolve(w) \/ ResolveOverlay(w)
  PROVE  AccessInv'
<1>1. /\ call[w] \in CallRecords /\ CallOK(call[w]) /\ Bound(w) /\ calls \in 0..MaxCalls
      /\ call[w].at \in {"resolve", "overlay"} /\ overlay \in [Keys -> Roles \cup {None}]
      /\ late \in [Workers -> 0..2]
  BY DEF AccessInv, RegistryType, Resolve, ResolveOverlay, At
<1>2. call[w].key \in Keys /\ call[w].sid = 0 /\ late[w] = 0 /\ ~At(w, "copy")
  BY <1>1 DEF CallOK, Bound, At
<1>3. ASSUME NEW at \in {"session", "overlay"}, NEW role \in Roles \cup {None},
             call' = [call EXCEPT ![w] = [call[w] EXCEPT !.at = at, !.role = role]],
             UNCHANGED <<registry, history, calls, restarts>>
      PROVE  AccessInv'
  <2> DEFINE c == [call[w] EXCEPT !.at = at, !.role = role]
  <2>1. /\ c \in CallRecords /\ c.at = at /\ c.sid = 0 /\ c.key = call[w].key
    BY <1>1, <1>2 DEF CallRecords, Stages
  <2>2. call' = [call EXCEPT ![w] = c]
    BY <1>3
  <2> HIDE DEF c
  <2>3. CallOK(c)
    BY <1>2, <2>1 DEF CallOK
  <2>4. QED
    BY <1>1, <1>2, <1>3, <2>1, <2>2, <2>3, QuietStep
<1>4. CASE Refuse(w)
  BY <1>2, <1>4, RefuseStep
<1>5. CASE /\ Known(call[w].key)
           /\ call' = [call EXCEPT ![w].at = "session", ![w].role = SettingsRole(call[w].key)]
           /\ UNCHANGED <<registry, history, calls, restarts>>
  <2>1. SettingsRole(call[w].key) \in Roles
    BY <1>2, <1>5, KnownIsListed, ListedRole
  <2>2. QED
    BY <1>3, <1>5, <2>1
<1>6. CASE /\ Goto(w, "overlay")
           /\ UNCHANGED <<registry, history, calls, restarts>>
  <2>1. call[w].role \in Roles \cup {None} /\ call \in [Workers -> CallRecords]
    BY <1>1 DEF CallRecords, AccessInv, RegistryType
  <2>2. call' = [call EXCEPT ![w] = [call[w] EXCEPT !.at = "overlay", !.role = call[w].role]]
    BY <1>1, <1>6, <2>1 DEF Goto, CallRecords
  <2>3. QED
    BY <1>3, <1>6, <2>1, <2>2
<1>7. CASE /\ overlay[call[w].key] # None
           /\ call' = [call EXCEPT ![w].at = "session", ![w].role = overlay[call[w].key]]
           /\ UNCHANGED <<registry, history, calls, restarts>>
  <2>1. overlay[call[w].key] \in Roles \cup {None}
    BY <1>1, <1>2
  <2>2. QED
    BY <1>3, <1>7, <2>1
<1>8. QED
  BY <1>4, <1>5, <1>6, <1>7 DEF Resolve, ResolveOverlay

LEMMA IssueStep ==
  ASSUME AccessInv, NEW w \in Workers, IssueSession(w)
  PROVE  AccessInv'
<1> DEFINE granted == (call[w].kind = "stream")
           at == IF call[w].kind = "revoke-session" THEN "body" ELSE "key"
           Bind(s) == Moved(call[w], at, s, granted)
<1>1. /\ RegistryType /\ call[w] \in CallRecords /\ CallOK(call[w]) /\ Bound(w)
      /\ call[w].at = "session" /\ sessions \in Seq(Sessions) /\ Len(sessions) \in Nat
      /\ calls \in 0..MaxCalls /\ restarts \in 0..MaxRestarts
      /\ cut \subseteq Workers /\ late \in [Workers -> 0..2]
      /\ UNCHANGED <<revoked, overlay, scopes, heirOf, contested, narrow, cut, late, calls, restarts>>
  BY DEF AccessInv, RegistryType, IssueSession, At, history
<1>2. call[w].key \in Keys /\ w \notin cut /\ late[w] = 0 /\ ~At(w, "copy")
  BY <1>1 DEF CallOK, Bound, At
<1>3. at \in {"body", "key"} /\ granted \in BOOLEAN
  OBVIOUS
<1>4. ASSUME NEW s \in Nat
      PROVE  /\ Bind(s) \in CallRecords /\ CallOK(Bind(s)) /\ Bind(s).sid = s
             /\ Bind(s).key = call[w].key /\ Bind(s).at \in {"body", "key"}
  <2>1. at \in Stages
    BY <1>3 DEF Stages
  <2> HIDE DEF at, granted
  <2>2. /\ Bind(s) \in CallRecords /\ Bind(s).sid = s
        /\ Bind(s).key = call[w].key /\ Bind(s).at \in {"body", "key"}
    BY <1>1, <1>3, <2>1, MovedRecord
  <2> HIDE DEF Bind
  <2>3. QED
    BY <1>2, <2>2 DEF CallOK
<1>5. CASE /\ LiveOf(call[w].key) # {}
           /\ call' = [call EXCEPT ![w] = Bind(First(LiveOf(call[w].key)))]
           /\ UNCHANGED sessions
  <2> DEFINE s == First(LiveOf(call[w].key))
  <2>1. s \in 1..Len(sessions) /\ s \in Nat /\ sessions[s].key = call[w].key
    BY <1>1, <1>5, FirstLive
  <2>2. call' = [call EXCEPT ![w] = Bind(s)] /\ call \in [Workers -> CallRecords]
    BY <1>1, <1>5 DEF RegistryType
  <2> HIDE DEF Bind, s
  <2>3. Bound(w)'
    BY <1>1, <1>2, <1>4, <1>5, <2>1, <2>2 DEF Bound
  <2>4. SessionsGrow
    BY <1>1, <1>5, SessionsStay
  <2>5. \A v \in Workers \ {w} : CutsSound(v)
    BY <1>1 DEF CutsSound
  <2>6. Bind(s) \in CallRecords /\ CallOK(Bind(s)) /\ Bind(s).at \in {"body", "key"}
    BY <1>1, <1>4, <2>1
  <2>7. QED
    BY <1>1, <1>2, <2>2, <2>3, <2>4, <2>5, <2>6, OwnStep
<1>6. CASE /\ sessions' = Append(sessions, [key |-> call[w].key, dead |-> FALSE])
           /\ call' = [call EXCEPT ![w] = Bind(Len(sessions) + 1)]
  <2> DEFINE s == Len(sessions) + 1
  <2>1. /\ sessions' \in Seq(Sessions) /\ Len(sessions') = s /\ s \in 1..s /\ s \in Nat
        /\ \A i \in 1..Len(sessions) : sessions'[i] = sessions[i]
        /\ sessions'[s] = [key |-> call[w].key, dead |-> FALSE]
    <3>1. [key |-> call[w].key, dead |-> FALSE] \in Sessions
      BY <1>2 DEF Sessions
    <3>2. QED
      BY <1>1, <1>6, <3>1
  <2>2. call' = [call EXCEPT ![w] = Bind(s)] /\ call \in [Workers -> CallRecords] /\ s >= Len(sessions)
    BY <1>1, <1>6 DEF RegistryType
  <2> HIDE DEF Bind, s
  <2>3. Bound(w)'
    BY <1>1, <1>2, <1>4, <2>1, <2>2 DEF Bound
  <2>4. SessionsGrow
    BY <1>1, <2>1, <2>2 DEF SessionsGrow
  <2>5. \A v \in Workers \ {w} : CutsSound(v)
    BY <1>1 DEF CutsSound
  <2>6. Bind(s) \in CallRecords /\ CallOK(Bind(s)) /\ Bind(s).at \in {"body", "key"}
    BY <1>4, <2>1
  <2>7. QED
    BY <1>1, <1>2, <2>2, <2>3, <2>4, <2>5, <2>6, OwnStep
<1>7. QED
  BY <1>5, <1>6 DEF IssueSession, Moved

\* The steps of the gate move a bound call from one check to the next.
LEMMA GateMove ==
  ASSUME AccessInv, NEW w \in Workers, NEW at \in {"key", "live", "app", "effect", "body"},
         NEW granted, granted \in BOOLEAN, call[w].at \in {"key", "live", "app"},
         call' = [call EXCEPT ![w] = [call[w] EXCEPT !.at = at, !.granted = granted]],
         UNCHANGED <<registry, history, calls, restarts>>,
         late[w] # 0 => at \in {"key", "live"}
  PROVE  AccessInv'
<1> DEFINE c == Moved(call[w], at, call[w].sid, granted)
<1>1. call[w] \in CallRecords /\ CallOK(call[w]) /\ calls \in 0..MaxCalls
  BY DEF AccessInv, RegistryType
<1>2. /\ c \in CallRecords /\ c.at = at /\ c.sid = call[w].sid /\ c.key = call[w].key
  <2>1. at \in Stages /\ call[w].sid \in Nat
    BY <1>1 DEF CallRecords, Stages
  <2>2. QED
    BY <1>1, <2>1, MovedRecord
<1>3. call' = [call EXCEPT ![w] = c]
  BY <1>1 DEF CallRecords, Moved
<1> HIDE DEF c
<1>4. CallOK(c)
  BY <1>1, <1>2 DEF CallOK
<1>5. ~At(w, "copy")
  BY DEF At
<1>6. QED
  BY <1>1, <1>2, <1>3, <1>4, <1>5, QuietStep

\* A Goto is such a move.
LEMMA GotoIs ==
  ASSUME RegistryType, NEW w \in Workers, NEW at, Goto(w, at)
  PROVE  /\ call[w].granted \in BOOLEAN
         /\ call' = [call EXCEPT ![w] = [call[w] EXCEPT !.at = at, !.granted = call[w].granted]]
<1>1. call[w] \in CallRecords
  BY DEF RegistryType
<1>2. QED
  BY <1>1 DEF Goto, CallRecords

LEMMA GateStep ==
  ASSUME AccessInv, NEW w \in Workers,
         \/ CheckKey(w) \/ CheckSession(w)
         \/ \E a \in Apps \cup {None} : CheckApp(w, a)
  PROVE  AccessInv'
<1>1. /\ call[w].at \in {"key", "live", "app"} /\ ~At(w, "copy") /\ Bound(w) /\ RegistryType
      /\ late \in [Workers -> 0..2]
  BY DEF AccessInv, RegistryType, CheckKey, CheckSession, CheckApp, At
<1>2. CASE Refuse(w)
  BY <1>1, <1>2, RefuseStep
<1>3. CASE CheckKey(w) /\ ~Refuse(w)
  <2>1. Goto(w, "live") /\ UNCHANGED <<registry, history, calls, restarts>>
    BY <1>3 DEF CheckKey
  <2>2. /\ call[w].granted \in BOOLEAN
        /\ call' = [call EXCEPT ![w] = [call[w] EXCEPT !.at = "live", !.granted = call[w].granted]]
    BY <1>1, <2>1, GotoIs
  <2>3. QED
    BY <1>1, <2>1, <2>2, GateMove
<1>4. CASE CheckSession(w) /\ ~Refuse(w)
  <2>1. /\ SessionPasses(call[w].sid) /\ UNCHANGED <<registry, history, calls, restarts>>
        /\ call' = [call EXCEPT ![w].granted = TRUE,
                      ![w].at = IF call[w].granted THEN "app"
                                ELSE IF Body(call[w].kind) THEN "body" ELSE "key"]
    BY <1>4 DEF CheckSession
  <2>2. late[w] = 0
    BY <1>1, <2>1 DEF SessionPasses, Live, Bound
  <2>3. PICK at \in {"app", "body", "key"} :
           at = IF call[w].granted THEN "app" ELSE IF Body(call[w].kind) THEN "body" ELSE "key"
    OBVIOUS
  <2>4. call' = [call EXCEPT ![w] = [call[w] EXCEPT !.at = at, !.granted = TRUE]]
    <3>1. call[w] \in CallRecords
      BY <1>1 DEF RegistryType
    <3>2. call' = [call EXCEPT ![w].granted = TRUE, ![w].at = at]
      BY <2>1, <2>3
    <3>3. QED
      BY <3>1, <3>2 DEF CallRecords
  <2>5. QED
    BY <1>1, <2>1, <2>2, <2>3, <2>4, GateMove
<1>5. ASSUME NEW a \in Apps \cup {None}, CheckApp(w, a), ~Refuse(w)
      PROVE  AccessInv'
  <2>1. PICK at \in {"effect", "key"} : Goto(w, at)
    BY <1>5 DEF CheckApp
  <2>2. late[w] = 0 /\ UNCHANGED <<registry, history, calls, restarts>>
    BY <1>1, <1>5 DEF CheckApp, Bound, At
  <2>3. /\ call[w].granted \in BOOLEAN /\ at \in {"key", "live", "app", "effect", "body"}
        /\ call' = [call EXCEPT ![w] = [call[w] EXCEPT !.at = at, !.granted = call[w].granted]]
    BY <1>1, <2>1, GotoIs
  <2>4. QED
    BY <1>1, <2>2, <2>3, GateMove
<1>6. QED
  BY <1>2, <1>3, <1>4, <1>5

\* The one step that may be late, and none before it was.
LEMMA EffectStep ==
  ASSUME AccessInv, NEW w \in Workers, Effect(w)
  PROVE  AccessInv'
<1>1. /\ call[w].at = "effect" /\ ~At(w, "copy") /\ Bound(w) /\ RegistryType
      /\ CallOK(call[w]) /\ call[w] \in CallRecords
  BY DEF AccessInv, RegistryType, Effect, At
<1>2. late[w] = 0
  BY <1>1 DEF Bound, RegistryType
<1>3. CASE ~Repeats(call[w].kind)
  <2>1. Refuse(w)
    BY <1>3 DEF Effect, Refuse
  <2>2. QED
    BY <1>1, <2>1, RefuseStep
<1>4. CASE Repeats(call[w].kind)
  <2> DEFINE c == [call[w] EXCEPT !.at = "key"]
  <2>1. /\ call' = [call EXCEPT ![w] = c] /\ cut' = cut
        /\ late' = [late EXCEPT ![w] = IF w \in cut /\ @ < 2 THEN @ + 1 ELSE @]
        /\ UNCHANGED <<registry, heirOf, contested, narrow, calls, restarts>>
    BY <1>4 DEF Effect, Goto
  <2>2. c \in CallRecords /\ c.at = "key" /\ c.sid = call[w].sid /\ c.key = call[w].key
    BY <1>1 DEF CallRecords, Stages
  <2> HIDE DEF c
  <2>3. CallOK(c)
    BY <1>1, <2>2 DEF CallOK
  <2>4. /\ call \in [Workers -> CallRecords] /\ late \in [Workers -> 0..2]
        /\ cut \subseteq Workers /\ calls \in 0..MaxCalls /\ restarts \in 0..MaxRestarts
    BY <1>1 DEF RegistryType
  <2>5. late' \in [Workers -> 0..2] /\ late'[w] \in {0, 1} /\ (late'[w] # 0 => w \in cut)
    BY <1>2, <2>1, <2>4
  <2>6. UNCHANGED <<revoked, overlay, sessions, scopes>>
    BY <2>1 DEF registry
  <2>7. Bound(w)'
    BY <1>1, <2>1, <2>2, <2>4, <2>5, <2>6 DEF Bound
  <2>8. SessionsGrow
    BY <1>1, <2>6, SessionsStay
  <2>9. \A v \in Workers \ {w} : CutsSound(v)
    BY <2>1, <2>4 DEF CutsSound
  <2>10. QED
    BY <1>1, <2>1, <2>2, <2>3, <2>4, <2>5, <2>6, <2>7, <2>8, <2>9, OwnStep
<1>5. QED
  BY <1>3, <1>4

-----------------------------------------------------------------------------
(* The administrative routes                                               *)

\* A revoked key leaves the overlay, and its sessions die.
LEMMA RevokeKeyKeeps ==
  ASSUME RegistryType, NEW k \in Keys, RevokeKey(k)
  PROVE  /\ NoNewKeys /\ SessionsGrow /\ k \in revoked'
         /\ \A s \in 1..Len(sessions) : sessions[s].key = k => sessions'[s].dead
<1>1. NoNewKeys /\ k \in revoked'
  BY DEF RevokeKey, Retired, NoNewKeys, RegistryType
<1>2. Len(sessions) \in Nat /\ DOMAIN sessions = 1..Len(sessions)
  BY DEF RegistryType
<1>3. Flag({s \in DOMAIN sessions : sessions[s].key = k})
  BY DEF RevokeKey
<1>4. /\ sessions' \in Seq(Sessions) /\ Len(sessions') = Len(sessions)
      /\ \A s \in 1..Len(sessions) :
            /\ sessions'[s].key = sessions[s].key
            /\ sessions[s].dead \/ s \in {t \in DOMAIN sessions : sessions[t].key = k}
                  => sessions'[s].dead
  BY <1>3, FlagKeeps
<1>5. QED
  BY <1>1, <1>2, <1>4 DEF SessionsGrow

\* Whoever is bound to the key is cut off, and no one else.
LEMMA CutByKey ==
  ASSUME RegistryType, NEW k \in Keys, RevokeKey(k), NEW v \in Workers, Bound(v),
         v \in cut' <=> v \in cut \/ v \in BoundTo(k), late' = late
  PROVE  CutsSound(v)
<1>1. v \in BoundTo(k) => call[v].sid # 0 /\ sessions'[call[v].sid].dead
  <2>1. \A s \in 1..Len(sessions) : sessions[s].key = k => sessions'[s].dead
    BY RevokeKeyKeeps
  <2>2. Len(sessions) \in Nat
    BY DEF RegistryType
  <2>3. QED
    BY <2>1, <2>2 DEF BoundTo, Bound
<1>2. QED
  BY <1>1 DEF CutsSound

LEMMA RevokeStep ==
  ASSUME AccessInv, NEW w \in Workers, NEW k \in Keys, Revoke(w, k)
  PROVE  AccessInv'
<1>1. /\ RegistryType /\ call \in [Workers -> CallRecords] /\ Bound(w) /\ call[w].at = "body"
      /\ late \in [Workers -> 0..2] /\ cut \subseteq Workers /\ Len(sessions) \in Nat
      /\ calls \in 0..MaxCalls /\ restarts \in 0..MaxRestarts
  BY DEF AccessInv, RegistryType, Revoke, At
<1>2. /\ RevokeKey(k) /\ call' = [call EXCEPT ![w] = Idle] /\ cut' = (cut \cup BoundTo(k)) \ {w}
      /\ UNCHANGED <<scopes, late, heirOf, contested, narrow, calls, restarts>>
  BY DEF Revoke
<1>3. NoNewKeys /\ SessionsGrow
  BY <1>1, <1>2, RevokeKeyKeeps
<1>4. \A v \in Workers \ {w} : CutsSound(v)
  BY <1>1, <1>2, CutByKey DEF AccessInv
<1>5. Bound(w)'
  <2>1. late[w] = 0 /\ Len(sessions') \in Nat
    BY <1>1, <1>3 DEF Bound, SessionsGrow
  <2>2. QED
    BY <1>1, <1>2, <2>1 DEF Bound, Idle
<1>6. /\ cut' \subseteq Workers /\ Idle.at = "idle"
      /\ scopes' \in [Keys -> (SUBSET Apps) \cup {Unset}] /\ narrow' \subseteq Keys
  BY <1>1, <1>2 DEF BoundTo, Idle, RegistryType
<1>7. \A j \in Keys : NarrowOK(j)'
  <2>1. \A v \in Workers : At(v, "copy") => call'[v] = call[v]
    BY <1>1, <1>2 DEF At
  <2>2. QED
    BY <1>2, <2>1, NarrowKept DEF AccessInv
<1>8. QED
  BY <1>1, <1>2, <1>3, <1>4, <1>5, <1>6, <1>7, IdleOK, BroadStep

LEMMA RevokeSessionStep ==
  ASSUME AccessInv, NEW w \in Workers, NEW s, RevokeSession(w, s)
  PROVE  AccessInv'
<1>1. /\ RegistryType /\ call \in [Workers -> CallRecords] /\ Bound(w) /\ call[w].at = "body"
      /\ late \in [Workers -> 0..2] /\ cut \subseteq Workers
      /\ Len(sessions) \in Nat /\ DOMAIN sessions = 1..Len(sessions)
      /\ calls \in 0..MaxCalls /\ restarts \in 0..MaxRestarts
  BY DEF AccessInv, RegistryType, RevokeSession, At
<1>2. /\ Flag({s}) /\ s \in 1..Len(sessions) /\ call' = [call EXCEPT ![w] = Idle]
      /\ cut' = (cut \cup {v \in Workers : call[v].sid = s}) \ {w}
      /\ UNCHANGED <<revoked, overlay, scopes, late, heirOf, contested, narrow, calls, restarts>>
  BY <1>1 DEF RevokeSession
<1>3. SessionsGrow /\ sessions'[s].dead
  BY <1>1, <1>2, FlagKeeps DEF SessionsGrow
<1>4. \A v \in Workers \ {w} : CutsSound(v)
  BY <1>1, <1>2, <1>3 DEF CutsSound
<1>5. Bound(w)'
  <2>1. late[w] = 0 /\ Len(sessions') \in Nat
    BY <1>1, <1>3 DEF Bound, SessionsGrow
  <2>2. QED
    BY <1>1, <1>2, <2>1 DEF Bound, Idle
<1>6. cut' \subseteq Workers /\ Idle.at = "idle" /\ ~At(w, "copy")
  BY <1>1, <1>2 DEF Idle, At
<1>7. QED
  BY <1>1, <1>2, <1>3, <1>4, <1>5, <1>6, IdleOK, OwnStep

\* End, of a step that leaves keys, sessions and lines alone.
LEMMA EndStep ==
  ASSUME AccessInv, NEW w \in Workers, End(w),
         UNCHANGED <<revoked, overlay, sessions, heirOf, contested, calls, restarts>>,
         scopes' \in [Keys -> (SUBSET Apps) \cup {Unset}], narrow' \subseteq Keys,
         \A k \in Keys : NarrowOK(k)'
  PROVE  AccessInv'
<1>1. /\ call \in [Workers -> CallRecords] /\ Len(sessions) \in Nat /\ RegistryType
      /\ cut \subseteq Workers /\ late \in [Workers -> 0..2]
      /\ calls \in 0..MaxCalls /\ restarts \in 0..MaxRestarts
  BY DEF AccessInv, RegistryType
<1>2. /\ call' = [call EXCEPT ![w] = Idle] /\ cut' = cut \ {w} /\ late' = [late EXCEPT ![w] = 0]
  BY DEF End
<1>3. late' \in [Workers -> 0..2] /\ NoNewKeys /\ Idle.at = "idle"
  BY <1>1, <1>2 DEF NoNewKeys, RegistryType, Idle
<1>4. Bound(w)'
  BY <1>1, <1>2 DEF Bound, Idle
<1>5. SessionsGrow
  BY <1>1, SessionsStay
<1>6. \A v \in Workers \ {w} : CutsSound(v)
  BY <1>1, <1>2 DEF CutsSound
<1>7. QED
  BY <1>1, <1>2, <1>3, <1>4, <1>5, <1>6, IdleOK, BroadStep

\* Scopes that were set are a set, not the mark of their absence.
LEMMA SetIsSet ==
  ASSUME NEW apps \in SUBSET Apps
  PROVE  apps # Unset
BY AccessAssumption DEF Unset

LEMMA SetScopesStep ==
  ASSUME AccessInv, NEW w \in Workers, NEW k \in Keys, NEW apps \in SUBSET Apps,
         SetScopes(w, k, apps)
  PROVE  AccessInv'
<1>1. /\ scopes \in [Keys -> (SUBSET Apps) \cup {Unset}] /\ narrow \subseteq Keys
      /\ call \in [Workers -> CallRecords] /\ call[w].at = "body"
  BY DEF AccessInv, RegistryType, SetScopes, At
<1>2. /\ scopes' = [scopes EXCEPT ![k] = apps] /\ End(w)
      /\ narrow' \subseteq narrow \cup {k}
      /\ apps = {} => k \notin narrow'
      /\ apps = {} => \A v \in Workers : At(v, "copy") /\ call[v].old = k => call[v].new \notin narrow'
      /\ UNCHANGED <<revoked, overlay, sessions, heirOf, contested, calls, restarts>>
  BY DEF SetScopes
<1>3. ASSUME NEW j \in Keys, j \in narrow', Scopes(j)' = {}
      PROVE  \E v \in Workers : At(v, "copy")' /\ call'[v].new = j /\ scopes'[call'[v].old] # Unset
  <2>1. j # k
    BY <1>1, <1>2, <1>3, SetIsSet DEF Scopes
  <2>2. j \in narrow /\ Scopes(j) = {}
    BY <1>1, <1>2, <1>3, <2>1 DEF Scopes
  <2>3. PICK v \in Workers : At(v, "copy") /\ call[v].new = j /\ scopes[call[v].old] # Unset
    BY <2>2 DEF AccessInv, NarrowOK
  <2>4. call'[v] = call[v] /\ call[v].old \in Keys
    BY <1>1, <1>2, <2>3 DEF End, At, AccessInv, CallOK
  <2>5. scopes'[call[v].old] # Unset
    BY <1>1, <1>2, <2>3, <2>4, SetIsSet
  <2>6. QED
    BY <2>3, <2>4, <2>5 DEF At
<1>4. scopes' \in [Keys -> (SUBSET Apps) \cup {Unset}] /\ narrow' \subseteq Keys
  BY <1>1, <1>2
<1>5. QED
  BY <1>2, <1>3, <1>4, EndStep DEF NarrowOK

\* Sessions that are denied, calls that come to their end.
LEMMA FinishStep ==
  ASSUME AccessInv, NEW w \in Workers, Finish(w) \/ RevokeSessionDenied(w)
  PROVE  AccessInv'
<1>1. ~At(w, "copy") /\ Refuse(w)
  BY DEF Finish, RevokeSessionDenied, At
<1>2. QED
  BY <1>1, RefuseStep

-----------------------------------------------------------------------------
(* Rotation                                                                *)

\* A rotation takes up a key in force, whose credential is a line of heirs.
LEMMA RotationBegins ==
  ASSUME AccessInv, NEW w \in Workers, NEW c \in CallRecords, CallOK(c),
         call' = [call EXCEPT ![w] = c], c.at = "revoke-old", ~Rotating(w),
         c.sid = call[w].sid, c.key = call[w].key, late[w] = 0,
         Active(c.old), heirOf[c.old] = c.line, Contest(c.line),
         UNCHANGED <<registry, cut, late, heirOf, narrow, calls, restarts>>
  PROVE  AccessInv'
<1>1. /\ RegistryType /\ call \in [Workers -> CallRecords] /\ Len(sessions) \in Nat /\ Bound(w)
      /\ cut \subseteq Workers /\ late \in [Workers -> 0..2]
      /\ calls \in 0..MaxCalls /\ restarts \in 0..MaxRestarts
  BY DEF AccessInv, RegistryType
<1>2. UNCHANGED <<revoked, overlay, sessions, scopes, heirOf, cut, late, narrow, calls, restarts>>
  BY DEF registry
<1>3. /\ contested' \subseteq Keys /\ contested \subseteq contested' /\ c.old \in Keys /\ Listed(c.line)
      /\ (c.line \notin contested' => \A v \in Workers : ~(Rotating(v) /\ call[v].line = c.line))
  <2>1. c.old \in Keys /\ Listed(c.line)
    BY DEF CallOK
  <2>2. QED
    BY <1>1, <2>1 DEF Contest, Listed, RegistryType
<1>4. Bound(w)'
  BY <1>1, <1>2 DEF Bound
<1>5. SessionsGrow
  BY <1>1, <1>2, SessionsStay
<1>6. \A v \in Workers \ {w} : CutsSound(v)
  BY <1>2 DEF CutsSound
<1>7. /\ revoked' \subseteq Keys /\ overlay' \in [Keys -> Roles \cup {None}]
      /\ scopes' \in [Keys -> (SUBSET Apps) \cup {Unset}] /\ heirOf' \in [Keys -> Keys \cup {None}]
      /\ narrow' \subseteq Keys
  BY <1>1, <1>2 DEF RegistryType
<1>8. /\ RegistryType' /\ \A v \in Workers : CallOK(call[v])' /\ Bound(v)'
      /\ call'[w] = c /\ \A v \in Workers \ {w} : call'[v] = call[v]
  BY <1>1, <1>2, <1>3, <1>4, <1>5, <1>6, <1>7, CallStep
<1>9. \A k \in Keys : OverlayOK(k)'
  BY <1>2 DEF AccessInv, OverlayOK
<1>10. \A k \in Keys : NarrowOK(k)'
  <2>1. \A v \in Workers : At(v, "copy") => call'[v] = call[v]
    BY <1>8 DEF At, Rotating
  <2>2. QED
    BY <1>2, <2>1, NarrowKept DEF AccessInv
<1>11. ASSUME NEW g \in Keys \ contested', Listed(g)
       PROVE  LineOK(g)'
  <2>1. LineOK(g)
    BY <1>3, <1>11 DEF AccessInv
  <2>2. \A k \in Keys : Heir(k, g)' <=> Heir(k, g)
    BY <1>2 DEF Heir, Active, Known, MayBeOverlay
  <2>3. \A v \in Workers \ {w} : (Rotating(v)' <=> Rotating(v)) /\ call'[v] = call[v]
    BY <1>8 DEF Rotating
  <2>4. g = c.line => \A v \in Workers : ~(Rotating(v) /\ call[v].line = g)
    BY <1>3, <1>11
  <2>5. \A u, v \in Workers : Rotating(u)' /\ Rotating(v)' /\ call'[u].line = g /\ call'[v].line = g
                            => u = v
    BY <1>8, <2>1, <2>3, <2>4 DEF LineOK
  <2>6. \A j, k \in Keys : Heir(j, g)' /\ Heir(k, g)' => j = k
    BY <2>1, <2>2 DEF LineOK
  <2>7. ASSUME NEW v \in Workers, call'[v].line = g
        PROVE  /\ At(v, "revoke-old")' => \A k \in Keys : Heir(k, g)' => k = call'[v].old
               /\ At(v, "register")' => \A k \in Keys : ~(Heir(k, g)')
    <3>1. CASE v = w
      <4>1. Heir(c.old, g)
        BY <1>3, <1>8, <2>7, <3>1 DEF Heir
      <4>2. \A k \in Keys : Heir(k, g) => k = c.old
        BY <1>3, <2>1, <4>1 DEF LineOK
      <4>3. QED
        BY <1>8, <2>2, <3>1, <4>2 DEF At
    <3>2. CASE v # w
      BY <2>1, <2>2, <2>3, <2>7, <3>2 DEF LineOK, At
    <3>3. QED
      BY <3>1, <3>2
  <2>8. QED
    BY <2>5, <2>6, <2>7 DEF LineOK
<1>12. QED
  BY <1>8, <1>9, <1>10, <1>11 DEF AccessInv

\* What the first two sections of a rotation write into the record of its call.
Turned(c, at, old, new, grade, line) ==
    [c EXCEPT !.at = at, !.old = old, !.new = new, !.grade = grade, !.line = line]

LEMMA TurnedRecord ==
  ASSUME NEW c \in CallRecords, NEW at \in Stages, NEW old \in Keys \cup {None},
         NEW new \in Keys \cup {None}, NEW grade \in Roles \cup {None}, NEW line \in Keys \cup {None}
  PROVE  /\ Turned(c, at, old, new, grade, line) \in CallRecords
         /\ Turned(c, at, old, new, grade, line).at = at
         /\ Turned(c, at, old, new, grade, line).sid = c.sid
         /\ Turned(c, at, old, new, grade, line).key = c.key
         /\ Turned(c, at, old, new, grade, line).old = old
         /\ Turned(c, at, old, new, grade, line).new = new
         /\ Turned(c, at, old, new, grade, line).grade = grade
         /\ Turned(c, at, old, new, grade, line).line = line
<1> DEFINE t == Turned(c, at, old, new, grade, line)
<1>1. t \in CallRecords
  BY DEF Turned, CallRecords
<1>2. t.at = at /\ t.sid = c.sid /\ t.key = c.key
  BY DEF Turned, CallRecords
<1>3. t.old = old /\ t.new = new
  BY DEF Turned, CallRecords
<1>4. t.grade = grade /\ t.line = line
  BY DEF Turned, CallRecords
<1>5. QED
  BY <1>1, <1>2, <1>3, <1>4

\* The second section, with the role of the old key in hand.
LEMMA GradeTaken ==
  ASSUME AccessInv, NEW w \in Workers, call[w].at \in {"body", "old-overlay"},
         NEW old \in Keys, NEW new \in Keys, NEW g \in Keys, Listed(g),
         Active(old), heirOf[old] = g, Contest(g),
         call' = [call EXCEPT ![w] = Turned(call[w], "revoke-old", old, new, SettingsRole(g), g)],
         UNCHANGED <<registry, cut, late, heirOf, narrow, calls, restarts>>
  PROVE  AccessInv'
<1> DEFINE c == Turned(call[w], "revoke-old", old, new, SettingsRole(g), g)
<1>1. /\ call[w] \in CallRecords /\ CallOK(call[w]) /\ late[w] = 0 /\ ~Rotating(w)
  BY DEF AccessInv, RegistryType, Bound, Rotating
<1>2. SettingsRole(g) \in Roles /\ "revoke-old" \in Stages
  BY ListedRole DEF Stages
<1>3. /\ c \in CallRecords /\ c.at = "revoke-old" /\ c.sid = call[w].sid /\ c.key = call[w].key
      /\ c.old = old /\ c.new = new /\ c.grade = SettingsRole(g) /\ c.line = g
  BY <1>1, <1>2, TurnedRecord
<1>4. call' = [call EXCEPT ![w] = c]
  OBVIOUS
<1> HIDE DEF c
<1>5. CallOK(c)
  BY <1>1, <1>3 DEF CallOK
<1>6. QED
  BY <1>1, <1>3, <1>4, <1>5, RotationBegins

LEMMA RotateResolveStep ==
  ASSUME AccessInv, NEW w \in Workers, NEW old \in Keys, NEW new \in Keys, RotateResolve(w, old, new)
  PROVE  AccessInv'
<1>1. /\ call[w] \in CallRecords /\ CallOK(call[w]) /\ call[w].at = "body" /\ ~At(w, "copy")
      /\ OverlayOK(old) /\ late[w] = 0 /\ calls \in 0..MaxCalls
  BY DEF AccessInv, RegistryType, RotateResolve, At, Bound
<1>2. CASE Refuse(w)
  BY <1>1, <1>2, RefuseStep
<1>3. CASE /\ Known(old)
           /\ call' = [call EXCEPT ![w].at = "revoke-old", ![w].old = old, ![w].new = new,
                                  ![w].grade = SettingsRole(old), ![w].line = old]
           /\ Contest(old)
           /\ UNCHANGED <<registry, cut, late, heirOf, narrow, calls, restarts>>
  <2>1. Listed(old) /\ InSettings(old) /\ heirOf[old] = old /\ Active(old)
    BY <1>1, <1>3, KnownIsListed, ListedRole DEF OverlayOK, Active
  <2>2. call' = [call EXCEPT ![w] = Turned(call[w], "revoke-old", old, new, SettingsRole(old), old)]
    BY <1>1, <1>3 DEF Turned, CallRecords
  <2>3. QED
    BY <1>1, <1>3, <2>1, <2>2, GradeTaken
<1>4. CASE /\ call' = [call EXCEPT ![w].at = "old-overlay", ![w].old = old, ![w].new = new]
           /\ UNCHANGED <<registry, history, calls, restarts>>
  <2> DEFINE c == Turned(call[w], "old-overlay", old, new, call[w].grade, call[w].line)
  <2>1. call' = [call EXCEPT ![w] = c]
    BY <1>1, <1>4 DEF Turned, CallRecords
  <2>2. /\ c \in CallRecords /\ c.at = "old-overlay" /\ c.sid = call[w].sid
        /\ c.key = call[w].key /\ c.old = old /\ c.new = new
    <3>1. /\ call[w].grade \in Roles \cup {None} /\ call[w].line \in Keys \cup {None}
          /\ "old-overlay" \in Stages
      BY <1>1 DEF CallRecords, Stages
    <3>2. QED
      BY <1>1, <3>1, TurnedRecord
  <2> HIDE DEF c
  <2>3. CallOK(c)
    BY <1>1, <2>2 DEF CallOK
  <2>4. UNCHANGED <<registry, history, restarts>> /\ calls' \in 0..MaxCalls
    BY <1>1, <1>4
  <2>5. QED
    BY <1>1, <2>1, <2>2, <2>3, <2>4, QuietStep
<1>5. QED
  BY <1>2, <1>3, <1>4 DEF RotateResolve

LEMMA RotateOverlayStep ==
  ASSUME AccessInv, NEW w \in Workers, RotateOverlay(w)
  PROVE  AccessInv'
<1> DEFINE old == call[w].old
           new == call[w].new
           g == heirOf[old]
<1>1. /\ call[w] \in CallRecords /\ CallOK(call[w]) /\ call[w].at = "old-overlay" /\ ~At(w, "copy")
  BY DEF AccessInv, RegistryType, RotateOverlay, At
<1>2. old \in Keys /\ new \in Keys
  BY <1>1 DEF CallOK
<1>3. CASE Refuse(w)
  BY <1>1, <1>3, RefuseStep
<1>4. CASE /\ overlay[old] # None
           /\ call' = [call EXCEPT ![w].at = "revoke-old", ![w].grade = overlay[old],
                                   ![w].line = g]
           /\ Contest(g)
           /\ UNCHANGED <<registry, cut, late, heirOf, narrow, calls, restarts>>
  <2>1. OverlayOK(old)
    BY <1>2 DEF AccessInv
  <2>2. Listed(g) /\ overlay[old] = SettingsRole(g) /\ g \in Keys /\ Active(old)
    BY <1>4, <2>1 DEF OverlayOK, Active, MayBeOverlay, Listed
  <2>3. call' = [call EXCEPT ![w] = Turned(call[w], "revoke-old", old, new, SettingsRole(g), g)]
    BY <1>1, <1>4, <2>2 DEF Turned, CallRecords
  <2>4. QED
    BY <1>1, <1>2, <1>4, <2>2, <2>3, GradeTaken
<1>5. QED
  BY <1>3, <1>4 DEF RotateOverlay

\* A rotation in hand goes on with its keys, role and line.
LEMMA TurnGoesOn ==
  ASSUME NEW c \in CallRecords, CallOK(c), c.at \in {"revoke-old", "register"},
         NEW at \in {"register", "copy"}, Lists[c.new] = {}
  PROVE  /\ [c EXCEPT !.at = at] \in CallRecords /\ CallOK([c EXCEPT !.at = at])
         /\ [c EXCEPT !.at = at].at = at /\ [c EXCEPT !.at = at].sid = c.sid
         /\ [c EXCEPT !.at = at].key = c.key /\ [c EXCEPT !.at = at].old = c.old
         /\ [c EXCEPT !.at = at].new = c.new /\ [c EXCEPT !.at = at].line = c.line
<1> DEFINE d == [c EXCEPT !.at = at]
<1>1. /\ d \in CallRecords /\ d.at = at /\ d.sid = c.sid /\ d.key = c.key /\ d.old = c.old
      /\ d.new = c.new /\ d.line = c.line /\ d.grade = c.grade
  BY DEF CallRecords, Stages
<1> HIDE DEF d
<1>2. CallOK(d)
  BY <1>1 DEF CallOK
<1>3. QED
  BY <1>1, <1>2 DEF d

\* The first section under the lock: nobody is heir of the line any more.
LEMMA RotateRevokeStep ==
  ASSUME AccessInv, NEW w \in Workers, RotateRevoke(w)
  PROVE  AccessInv'
<1> DEFINE old == call[w].old
           c == [call[w] EXCEPT !.at = "register"]
<1>1. /\ RegistryType /\ call[w] \in CallRecords /\ CallOK(call[w]) /\ Bound(w)
      /\ call[w].at = "revoke-old" /\ ~At(w, "copy")
      /\ call \in [Workers -> CallRecords] /\ cut \subseteq Workers /\ Len(sessions) \in Nat
      /\ late \in [Workers -> 0..2] /\ calls \in 0..MaxCalls /\ restarts \in 0..MaxRestarts
  BY DEF AccessInv, RegistryType, RotateRevoke, At
<1>2. old \in Keys /\ late[w] = 0
  BY <1>1 DEF CallOK, Bound
<1>3. CASE Refuse(w)
  BY <1>1, <1>3, RefuseStep
<1>4. CASE ~Refuse(w)
  <2>1. /\ Fresh(old, call[w].new) /\ RevokeKey(old) /\ cut' = cut \cup BoundTo(old)
        /\ call' = [call EXCEPT ![w] = c]
        /\ UNCHANGED <<scopes, late, heirOf, contested, narrow, calls, restarts>>
    BY <1>4 DEF RotateRevoke, Goto
  <2>2. Lists[call[w].new] = {}
    BY <2>1 DEF Fresh, InSettings
  <2>3. /\ c \in CallRecords /\ CallOK(c) /\ c.at = "register" /\ c.sid = call[w].sid
        /\ c.key = call[w].key /\ c.old = old /\ c.new = call[w].new /\ c.line = call[w].line
    BY <1>1, <2>2, TurnGoesOn
  <2> HIDE DEF c
  <2>4. NoNewKeys /\ SessionsGrow /\ old \in revoked'
    BY <1>1, <1>2, <2>1, RevokeKeyKeeps
  <2>5. \A v \in Workers : CutsSound(v)
    BY <1>1, <1>2, <2>1, CutByKey DEF AccessInv
  <2>6. Bound(w)'
    <3>1. Len(sessions') \in Nat /\ call'[w] = c
      BY <1>1, <2>1, <2>4 DEF SessionsGrow
    <3>2. CutsSound(w)
      BY <2>5
    <3>3. call[w].sid \in 0..Len(sessions) /\ call[w].sid \in 0..Len(sessions')
      BY <1>1, <2>4, <3>1 DEF Bound, SessionsGrow
    <3>4. QED
      BY <1>1, <1>2, <2>1, <2>3, <2>4, <3>1, <3>2, <3>3 DEF Bound, SessionsGrow, CutsSound
  <2>7. /\ revoked' \subseteq Keys /\ overlay' \in [Keys -> Roles \cup {None}]
        /\ scopes' \in [Keys -> (SUBSET Apps) \cup {Unset}] /\ heirOf' \in [Keys -> Keys \cup {None}]
        /\ contested' \subseteq Keys /\ narrow' \subseteq Keys /\ cut' \subseteq Workers
    BY <1>1, <2>1, <2>4 DEF RegistryType, NoNewKeys, BoundTo
  <2>8. /\ RegistryType' /\ \A v \in Workers : CallOK(call[v])' /\ Bound(v)'
        /\ call'[w] = c /\ \A v \in Workers \ {w} : call'[v] = call[v]
    BY <1>1, <2>1, <2>3, <2>4, <2>5, <2>6, <2>7, CallStep
  <2>9. \A k \in Keys : OverlayOK(k)' /\ NarrowOK(k)'
    <3>1. \A v \in Workers : At(v, "copy") => call'[v] = call[v]
      BY <1>1, <2>8 DEF At
    <3>2. QED
      BY <2>1, <2>4, <3>1, OverlayKept, NarrowKept DEF AccessInv
  <2>10. ASSUME NEW g \in Keys \ contested', Listed(g)
         PROVE  LineOK(g)'
    <3>1. LineOK(g)
      BY <2>1, <2>10 DEF AccessInv
    <3>2. \A k \in Keys : Heir(k, g)' => Heir(k, g) /\ k # old
      BY <2>1, <2>4 DEF NoNewKeys, Heir, Active, Known, MayBeOverlay
    <3>3. \A v \in Workers : (Rotating(v)' <=> Rotating(v)) /\ call'[v].line = call[v].line
      BY <1>1, <2>3, <2>8 DEF Rotating
    <3>4. call[w].line = g => \A k \in Keys : ~(Heir(k, g)')
      BY <1>1, <3>1, <3>2 DEF LineOK, At
    <3>5. ASSUME NEW v \in Workers, call'[v].line = g
          PROVE  /\ At(v, "revoke-old")' => \A k \in Keys : Heir(k, g)' => k = call'[v].old
                 /\ At(v, "register")' => \A k \in Keys : ~(Heir(k, g)')
      <4>1. CASE v = w
        BY <2>3, <2>8, <3>4, <3>5, <4>1 DEF At
      <4>2. CASE v # w
        BY <2>8, <3>1, <3>2, <3>5, <4>2 DEF LineOK, At
      <4>3. QED
        BY <4>1, <4>2
    <3>6. /\ \A u, v \in Workers : Rotating(u)' /\ Rotating(v)' /\ call'[u].line = g /\ call'[v].line = g
                                   => u = v
          /\ \A j, k \in Keys : Heir(j, g)' /\ Heir(k, g)' => j = k
      BY <3>1, <3>2, <3>3 DEF LineOK
    <3>7. QED
      BY <3>5, <3>6 DEF LineOK
  <2>11. QED
    BY <2>8, <2>9, <2>10 DEF AccessInv
<1>5. QED
  BY <1>3, <1>4

\* The second section: the new key is the only heir of the line.
LEMMA RotateRegisterStep ==
  ASSUME AccessInv, NEW w \in Workers, RotateRegister(w)
  PROVE  AccessInv'
<1> DEFINE old == call[w].old
           new == call[w].new
           line == call[w].line
           c == [call[w] EXCEPT !.at = "copy"]
<1>1. /\ RegistryType /\ call[w] \in CallRecords /\ CallOK(call[w]) /\ Bound(w)
      /\ call[w].at = "register" /\ call \in [Workers -> CallRecords]
      /\ revoked \subseteq Keys /\ overlay \in [Keys -> Roles \cup {None}]
      /\ heirOf \in [Keys -> Keys \cup {None}] /\ narrow \subseteq Keys
  BY DEF AccessInv, RegistryType, RotateRegister, At
<1>2. /\ old \in Keys /\ new \in Keys /\ late[w] = 0 /\ Lists[new] = {} /\ Listed(line)
      /\ line \in Keys /\ call[w].grade = SettingsRole(line) /\ call[w].grade \in Roles
  BY <1>1, ListedRole DEF CallOK, Bound, Listed
<1>3. /\ revoked' = revoked \ {new} /\ overlay' = [overlay EXCEPT ![new] = call[w].grade]
      /\ heirOf' = [heirOf EXCEPT ![new] = line]
      /\ narrow' = IF old \in narrow /\ ~Pending(old) THEN narrow \cup {new} ELSE narrow
      /\ call' = [call EXCEPT ![w] = c]
      /\ UNCHANGED <<sessions, scopes, cut, late, contested, calls, restarts>>
  BY DEF RotateRegister, Goto
<1>4. /\ c \in CallRecords /\ CallOK(c) /\ c.at = "copy" /\ c.sid = call[w].sid
      /\ c.key = call[w].key /\ c.old = old /\ c.new = new /\ c.line = line
  BY <1>1, <1>2, TurnGoesOn
<1> HIDE DEF c
<1>5. Bound(w)'
  BY <1>1, <1>2, <1>3, <1>4 DEF Bound
<1>6. SessionsGrow
  BY <1>1, <1>3, SessionsStay
<1>7. \A v \in Workers \ {w} : CutsSound(v)
  BY <1>3 DEF CutsSound
<1>8. /\ revoked' \subseteq Keys /\ overlay' \in [Keys -> Roles \cup {None}]
      /\ heirOf' \in [Keys -> Keys \cup {None}] /\ narrow' \subseteq Keys
  BY <1>1, <1>2, <1>3
<1>9. /\ scopes' \in [Keys -> (SUBSET Apps) \cup {Unset}] /\ contested' \subseteq Keys
      /\ cut' \subseteq Workers /\ late' \in [Workers -> 0..2]
      /\ calls' \in 0..MaxCalls /\ restarts' \in 0..MaxRestarts
  BY <1>1, <1>3 DEF RegistryType
<1>10. /\ RegistryType' /\ \A v \in Workers : CallOK(call[v])' /\ Bound(v)'
       /\ call'[w] = c /\ \A v \in Workers \ {w} : call'[v] = call[v]
  BY <1>3, <1>4, <1>5, <1>6, <1>7, <1>8, <1>9, CallStep
<1>11. ASSUME NEW k \in Keys
       PROVE  OverlayOK(k)'
  <2>1. CASE k = new
    BY <1>1, <1>2, <1>3, <2>1 DEF OverlayOK, InSettings
  <2>2. CASE k # new
    <3>1. OverlayOK(k) /\ overlay'[k] = overlay[k] /\ heirOf'[k] = heirOf[k]
      BY <1>1, <1>3, <2>2 DEF AccessInv
    <3>2. QED
      BY <1>3, <2>2, <3>1 DEF OverlayOK
  <2>3. QED
    BY <2>1, <2>2
<1>12. ASSUME NEW k \in Keys, k \in narrow', Scopes(k)' = {}
       PROVE  \E v \in Workers : At(v, "copy")' /\ call'[v].new = k /\ scopes'[call'[v].old] # Unset
  <2>1. Scopes(k) = {}
    BY <1>3, <1>12 DEF Scopes
  <2>2. CASE k \in narrow
    <3>1. PICK v \in Workers : At(v, "copy") /\ call[v].new = k /\ scopes[call[v].old] # Unset
      BY <2>1, <2>2 DEF AccessInv, NarrowOK
    <3>2. call'[v] = call[v]
      BY <1>1, <1>10, <3>1 DEF At
    <3>3. QED
      BY <1>3, <3>1, <3>2 DEF At
  <2>3. CASE k \notin narrow
    <3>1. k = new /\ old \in narrow /\ ~Pending(old)
      BY <1>3, <1>12, <2>3
    <3>2. Scopes(old) # {}
      BY <1>2, <3>1 DEF AccessInv, NarrowOK, Pending
    <3>3. scopes[old] # Unset
      BY <3>2 DEF Scopes
    <3>4. QED
      BY <1>3, <1>4, <1>10, <3>1, <3>3 DEF At
  <2>4. QED
    BY <2>2, <2>3
<1>13. ASSUME NEW g \in Keys \ contested', Listed(g)
       PROVE  LineOK(g)'
  <2>1. LineOK(g)
    BY <1>3, <1>13 DEF AccessInv
  <2>2. ASSUME NEW k \in Keys, Heir(k, g)'
        PROVE  IF k = new THEN line = g ELSE Heir(k, g)
    <3>1. CASE k = new
      BY <1>1, <1>2, <1>3, <2>2, <3>1 DEF Heir
    <3>2. CASE k # new
      <4>1. overlay'[k] = overlay[k] /\ heirOf'[k] = heirOf[k] /\ (k \in revoked' <=> k \in revoked)
        BY <1>1, <1>3, <3>2
      <4>2. QED
        BY <2>2, <3>2, <4>1 DEF Heir, Active, Known, MayBeOverlay
    <3>3. QED
      BY <3>1, <3>2
  <2>3. line = g => \A k \in Keys : ~Heir(k, g)
    BY <1>1, <2>1 DEF LineOK, At
  <2>4. \A v \in Workers : (Rotating(v)' <=> Rotating(v)) /\ call'[v].line = call[v].line
    BY <1>1, <1>4, <1>10 DEF Rotating
  <2>5. \A u, v \in Workers : Rotating(u)' /\ Rotating(v)' /\ call'[u].line = g /\ call'[v].line = g
                              => u = v
    BY <2>1, <2>4 DEF LineOK
  <2>6. \A j, k \in Keys : Heir(j, g)' /\ Heir(k, g)' => j = k
    BY <2>1, <2>2, <2>3 DEF LineOK
  <2>7. ASSUME NEW v \in Workers, call'[v].line = g, At(v, "revoke-old")' \/ At(v, "register")'
        PROVE  line # g /\ v # w /\ call'[v] = call[v]
    <3>1. v # w
      BY <1>4, <1>10, <2>7 DEF At
    <3>2. Rotating(v) /\ Rotating(w) /\ call[v].line = g
      BY <1>1, <1>10, <2>7, <3>1 DEF At, Rotating
    <3>3. QED
      BY <1>10, <2>1, <3>1, <3>2 DEF LineOK
  <2>8. ASSUME NEW v \in Workers, call'[v].line = g
        PROVE  /\ At(v, "revoke-old")' => \A k \in Keys : Heir(k, g)' => k = call'[v].old
               /\ At(v, "register")' => \A k \in Keys : ~(Heir(k, g)')
    BY <2>1, <2>2, <2>7, <2>8 DEF LineOK, At
  <2>9. QED
    BY <2>5, <2>6, <2>8 DEF LineOK
<1>14. QED
  BY <1>10, <1>11, <1>12, <1>13 DEF AccessInv, NarrowOK

\* The third section: the restriction the old key has is the new one's.
LEMMA RotateCopyStep ==
  ASSUME AccessInv, NEW w \in Workers, RotateCopy(w)
  PROVE  AccessInv'
<1> DEFINE old == call[w].old
           new == call[w].new
<1>1. /\ scopes \in [Keys -> (SUBSET Apps) \cup {Unset}] /\ narrow \subseteq Keys
      /\ call \in [Workers -> CallRecords] /\ old \in Keys /\ new \in Keys
  BY DEF AccessInv, RegistryType, RotateCopy, At, CallOK
<1>2. /\ scopes' = [scopes EXCEPT ![new] = IF scopes[old] = Unset THEN scopes[new] ELSE scopes[old]]
      /\ narrow' = IF scopes[old] = {} THEN narrow \ {new} ELSE narrow
      /\ End(w)
      /\ UNCHANGED <<revoked, overlay, sessions, heirOf, contested, calls, restarts>>
  BY DEF RotateCopy, Inherited
<1>3. scopes' \in [Keys -> (SUBSET Apps) \cup {Unset}] /\ narrow' \subseteq Keys
  BY <1>1, <1>2
<1>4. ASSUME NEW k \in Keys, k \in narrow', Scopes(k)' = {}
      PROVE  \E v \in Workers : At(v, "copy")' /\ call'[v].new = k /\ scopes'[call'[v].old] # Unset
  <2>1. k = new => scopes[old] = Unset
    BY <1>1, <1>2, <1>4 DEF Scopes
  <2>2. scopes'[k] = scopes[k] /\ k \in narrow
    BY <1>1, <1>2, <1>4, <2>1
  <2>3. Scopes(k) = {}
    BY <1>4, <2>2 DEF Scopes
  <2>4. PICK v \in Workers : At(v, "copy") /\ call[v].new = k /\ scopes[call[v].old] # Unset
    BY <2>2, <2>3 DEF AccessInv, NarrowOK
  <2>5. call'[v] = call[v] /\ call[v].old \in Keys
    BY <1>1, <1>2, <2>1, <2>4 DEF End, At, AccessInv, CallOK
  <2>6. scopes'[call[v].old] # Unset
    BY <1>1, <1>2, <2>4, <2>5
  <2>7. QED
    BY <2>4, <2>5, <2>6 DEF At
<1>5. QED
  BY <1>2, <1>3, <1>4, EndStep DEF NarrowOK

-----------------------------------------------------------------------------
(* Every step, and what follows                                            *)

LEMMA HandleStep ==
  ASSUME AccessInv, NEW w \in Workers, Handle(w)
  PROVE  AccessInv'
<1>1. CASE \E kind \in Kinds, k \in Keys : Begin(w, kind, k)
  BY <1>1, BeginStep
<1>2. CASE Resolve(w) \/ ResolveOverlay(w)
  BY <1>2, ResolveStep
<1>3. CASE IssueSession(w)
  BY <1>3, IssueStep
<1>4. CASE CheckKey(w) \/ CheckSession(w) \/ (\E a \in Apps \cup {None} : CheckApp(w, a))
  BY <1>4, GateStep
<1>5. CASE Effect(w)
  BY <1>5, EffectStep
<1>6. CASE Finish(w) \/ RevokeSessionDenied(w)
  BY <1>6, FinishStep
<1>7. CASE \E k \in Keys : Revoke(w, k)
  BY <1>7, RevokeStep
<1>8. CASE \E s \in 1..MaxSessions : RevokeSession(w, s)
  BY <1>8, RevokeSessionStep
<1>9. CASE \E k \in Keys, apps \in SUBSET Apps : SetScopes(w, k, apps)
  BY <1>9, SetScopesStep
<1>10. CASE \E old, new \in Keys : RotateResolve(w, old, new)
  BY <1>10, RotateResolveStep
<1>11. CASE RotateOverlay(w)
  BY <1>11, RotateOverlayStep
<1>12. CASE RotateRevoke(w)
  BY <1>12, RotateRevokeStep
<1>13. CASE RotateRegister(w)
  BY <1>13, RotateRegisterStep
<1>14. CASE RotateCopy(w)
  BY <1>14, RotateCopyStep
<1>15. QED
  BY <1>1, <1>2, <1>3, <1>4, <1>5, <1>6, <1>7, <1>8, <1>9, <1>10, <1>11, <1>12, <1>13, <1>14
  DEF Handle

LEMMA RestartStep ==
  ASSUME AccessInv, Restart
  PROVE  AccessInv'
<1>1. calls' \in 0..MaxCalls /\ restarts' \in 0..MaxRestarts
  BY AccessAssumption DEF AccessInv, RegistryType, Restart
<1>2. Empty'
  BY <1>1 DEF Restart, Dropped, Empty
<1>3. QED
  BY <1>2, EmptyInv, PTL

\* A step that changes nothing.
LEMMA StutterStep ==
  ASSUME AccessInv, UNCHANGED vars
  PROVE  AccessInv'
BY DEF vars, registry, history, AccessInv, RegistryType, Bound, OverlayOK, NarrowOK, LineOK,
       Heir, Active, Known, MayBeOverlay, Scopes, Rotating, At, CallOK

(***************************************************************************)
(* The invariant, of which the others are consequences: what calls,        *)
(* sessions, the overlay and the histories have to do with each other      *)
(* between any two sections of the lock.                                   *)
(***************************************************************************)
THEOREM AccessSound == Spec => []AccessInv
<1>1. Init => AccessInv
  <2>1. calls = 0 /\ restarts = 0 => calls \in 0..MaxCalls /\ restarts \in 0..MaxRestarts
    BY AccessAssumption
  <2>2. QED
    BY <2>1, EmptyInv DEF Init, Empty
<1>2. AccessInv /\ [Next]_vars => AccessInv'
  BY HandleStep, RestartStep, StutterStep DEF Next
<1>3. QED
  BY <1>1, <1>2, PTL DEF Spec

(***************************************************************************)
(* The registry, the calls and the histories keep their types.             *)
(***************************************************************************)
THEOREM TypeCorrect == Spec => []TypeOK
BY AccessSound, InvIsTyped, PTL

(***************************************************************************)
(* A play or a stream has at most one effect after its session or its key  *)
(* is revoked (assert_active, events_ws): a call that has had one is back  *)
(* at the gate, bound to a session that is dead for good.                  *)
(***************************************************************************)
THEOREM OneLateEffect == Spec => []AtMostOneLateEffect
<1>1. AccessInv => AtMostOneLateEffect
  BY DEF AccessInv, Bound, AtMostOneLateEffect
<1>2. QED
  BY <1>1, AccessSound, PTL

\* A set of which any two members are the same has at most one.
LEMMA AtMostOne ==
  ASSUME NEW S, \A j, k \in S : j = k
  PROVE  Cardinality(S) <= 1
<1>1. CASE S = {}
  BY <1>1, FS_EmptySet
<1>2. ASSUME NEW k \in S
      PROVE  Cardinality(S) <= 1
  <2>1. S = {k}
    OBVIOUS
  <2>2. QED
    BY <2>1, FS_Singleton
<1>3. QED
  BY <1>1, <1>2

(***************************************************************************)
(* A rotation leaves one heir, of the role and the restriction of the key  *)
(* it replaces, unless two rotations of it overlapped (rotate_key).        *)
(***************************************************************************)
THEOREM RotationHolds == Spec => []RotationIsSound
<1>1. ASSUME AccessInv
      PROVE  OneHeir
  <2>1. SUFFICES ASSUME NEW g \in Keys \ contested, Cardinality(Lists[g]) = 1
                 PROVE  LET heirs == {k \in Keys : Active(k) /\ heirOf[k] = g}
                        IN  /\ Cardinality(heirs) <= 1
                            /\ \A k \in heirs : RoleNow(k) = SettingsRole(g)
    BY DEF OneHeir
  <2> DEFINE heirs == {k \in Keys : Active(k) /\ heirOf[k] = g}
  <2>2. LineOK(g)
    BY <1>1, <2>1 DEF AccessInv, Listed
  <2>3. \A j, k \in heirs : j = k
    BY <2>2 DEF LineOK, Heir
  <2>4. Cardinality(heirs) <= 1
    <3> HIDE DEF heirs
    <3>1. QED
      BY <2>3, AtMostOne
  <2>5. ASSUME NEW k \in heirs
        PROVE  RoleNow(k) = SettingsRole(g)
    <3>1. OverlayOK(k) /\ k \in Keys /\ Active(k) /\ heirOf[k] = g
      BY <1>1 DEF AccessInv
    <3>2. CASE InSettings(k)
      BY <3>1, <3>2 DEF RoleNow, OverlayOK
    <3>3. CASE ~InSettings(k)
      <4>1. ~Known(k)
        BY <3>1, <3>3, KnownIsListed, ListedRole
      <4>2. overlay[k] # None
        BY <3>1, <4>1 DEF Active
      <4>3. QED
        BY <3>1, <3>3, <4>2 DEF OverlayOK, RoleNow
    <3>4. QED
      BY <3>2, <3>3
  <2>6. QED
    BY <2>4, <2>5
<1>2. AccessInv => HeirIsRestricted
  BY DEF AccessInv, NarrowOK, HeirIsRestricted, Pending, RegistryType
<1>3. AccessInv => RotationIsSound
  BY <1>1, <1>2 DEF RotationIsSound
<1>4. QED
  BY <1>3, AccessSound, PTL

(***************************************************************************)
(* Only a restart brings a revoked key of the Settings lists back: no      *)
(* rotation registers one (register_overlay_key).                          *)
(***************************************************************************)
THEOREM RevocationHolds == Spec => SettingsKeyStaysRevoked
<1>1. ASSUME AccessInv, NEW w \in Workers, Handle(w), NEW k \in revoked, InSettings(k)
      PROVE  k \in revoked'
  <2>1. CASE RotateRegister(w)
    <3>1. Lists[call[w].new] = {}
      BY <1>1, <2>1 DEF AccessInv, RotateRegister, At, CallOK
    <3>2. revoked' = revoked \ {call[w].new}
      BY <2>1 DEF RotateRegister
    <3>3. QED
      BY <1>1, <3>1, <3>2 DEF InSettings
  <2>2. CASE RotateRevoke(w) \/ \E j \in Keys : Revoke(w, j)
    BY <2>2 DEF RotateRevoke, Revoke, RevokeKey, Retired, Refuse, registry
  <2>3. CASE ~RotateRegister(w) /\ ~RotateRevoke(w) /\ ~\E j \in Keys : Revoke(w, j)
    <3>1. revoked' = revoked
      BY <1>1, <2>3 DEF Handle, Begin, Resolve, ResolveOverlay, IssueSession, CheckKey,
         CheckSession, CheckApp, Effect, Finish, RevokeSession, RevokeSessionDenied, SetScopes,
         RotateResolve, RotateOverlay, RotateCopy, Refuse, registry
    <3>2. QED
      BY <3>1
  <2>4. QED
    BY <2>1, <2>2, <2>3
<1>2. ASSUME AccessInv, Restart
      PROVE  restarts' > restarts
  BY <1>2 DEF AccessInv, RegistryType, Restart
<1>3. ASSUME AccessInv, [Next]_vars
      PROVE  [\A k \in revoked : InSettings(k) /\ k \notin revoked' => restarts' > restarts]_vars
  BY <1>1, <1>2, <1>3 DEF Next
<1>4. QED
  BY <1>3, AccessSound, PTL DEF Spec, SettingsKeyStaysRevoked

=============================================================================
