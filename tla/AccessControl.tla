--------------------------- MODULE AccessControl ----------------------------
(***************************************************************************)
(* Keys, roles, sessions, app scopes, revocation and rotation              *)
(* (core/security/auth.py), the routes that administer them                *)
(* (api/rest/security_routes.py), and the calls they guard: a single       *)
(* adapter action, the play of a workflow, an event stream                 *)
(* (api/websocket/bus.py).  Route handlers run on a pool of threads and    *)
(* each method of AuthRegistry is a lock section of its own, so a step of  *)
(* this model is one section.                                              *)
(*                                                                         *)
(* A key stands for its fingerprint.  The user id travels with the scopes, *)
(* in the same statements, and is left out, as is the anonymous mode.      *)
(***************************************************************************)
EXTENDS Naturals, Sequences, FiniteSets

CONSTANTS
    Keys,         \* key material
    Apps,         \* applications
    Workers,      \* handler threads and stream coroutines
    Lists,        \* the roles in whose Settings list a key is
    Placeholders, \* documentation keys
    MaxCalls,     \* bound: calls begun
    MaxSessions,  \* bound: sessions minted
    MaxRestarts   \* bound: restarts of the server

Roles == {"viewer", "operator", "automator", "admin"}

ASSUME AccessAssumption ==
    /\ Lists \in [Keys -> SUBSET Roles]
    /\ Placeholders \subseteq Keys
    /\ {MaxCalls, MaxSessions, MaxRestarts} \subseteq Nat
    /\ "unset" \notin Apps   \* the mark below is no scope

None == "none"      \* no role, no key
Unset == {"unset"}  \* a key with no entry in _app_scopes

VARIABLES
    revoked,   \* _revoked_fps
    overlay,   \* _overlay_roles
    sessions,  \* _sessions, in order of creation
    scopes,    \* _app_scopes
    call,      \* what each worker is doing
    cut,       \* history: workers whose session or key was revoked since it was bound
    late,      \* history: effects of such a call after that
    heirOf,    \* history: the Settings key a key got its role from
    contested, \* history: Settings keys two overlapping rotations were after
    narrow,    \* history: keys an administrator restricted, or rotated from such
    calls, restarts

registry == <<revoked, overlay, sessions, scopes>>
history == <<cut, late, heirOf, contested, narrow>>
vars == <<registry, call, history, calls, restarts>>

Idle == [at |-> "idle", kind |-> None, key |-> None, role |-> None, sid |-> 0,
         granted |-> FALSE, old |-> None, new |-> None, grade |-> None,
         line |-> None]

InSettings(k) == Lists[k] # {}
SettingsRole(k) == CHOOSE r \in Roles : Lists[k] = {r}

Init ==
    /\ revoked = {}
    /\ overlay = [k \in Keys |-> None]
    /\ sessions = <<>>
    /\ scopes = [k \in Keys |-> Unset]
    /\ call = [w \in Workers |-> Idle]
    /\ cut = {}
    /\ late = [w \in Workers |-> 0]
    /\ heirOf = [k \in Keys |-> IF InSettings(k) THEN k ELSE None]
    /\ contested = {}
    /\ narrow = {}
    /\ calls = 0 /\ restarts = 0

Permissions(role) ==
    CASE role = "admin" -> {"system.read", "adapter.use", "admin"}
      [] role \in {"operator", "automator"} -> {"system.read", "adapter.use"}
      [] role = "viewer" -> {"system.read"}

\* What a route requires; revoking a session requires no more than a key.
Required(kind) ==
    CASE kind \in {"act", "play"} -> {"adapter.use"}
      [] kind = "stream" -> {"system.read"}
      [] kind \in {"rotate", "revoke", "scope"} -> {"admin"}
      [] kind = "revoke-session" -> {}
Kinds == {"act", "play", "stream", "rotate", "revoke", "scope", "revoke-session"}
Repeats(kind) == kind \in {"play", "stream"}

At(w, place) == call[w].at = place
Goto(w, place) == call' = [call EXCEPT ![w].at = place]
End(w) == call' = [call EXCEPT ![w] = Idle] /\ cut' = cut \ {w}
          /\ late' = [late EXCEPT ![w] = 0]

-----------------------------------------------------------------------------
(* build_auth_context                                                      *)

Begin(w, kind, k) ==
    /\ At(w, "idle")
    /\ calls < MaxCalls
    /\ calls' = calls + 1
    /\ call' = [call EXCEPT ![w] = [Idle EXCEPT !.at = "resolve", !.kind = kind, !.key = k]]
    /\ UNCHANGED <<registry, history, restarts>>

\* The answer of a call that is turned away: 400, 401, 403 or 404.
Refuse(w) == End(w) /\ UNCHANGED <<registry, heirOf, contested, narrow, calls, restarts>>

\* resolve_role, up to the overlay: not revoked, and in exactly one list.
Known(k) == k \notin revoked /\ Cardinality(Lists[k]) = 1
MayBeOverlay(k) == k \notin revoked /\ Lists[k] = {}

Resolve(w) ==
    LET k == call[w].key IN
    /\ At(w, "resolve")
    /\ \/ /\ Known(k)
          /\ call' = [call EXCEPT ![w].at = "session", ![w].role = SettingsRole(k)]
          /\ UNCHANGED <<registry, history, calls, restarts>>
       \/ /\ MayBeOverlay(k)
          /\ Goto(w, "overlay")
          /\ UNCHANGED <<registry, history, calls, restarts>>
       \/ ~Known(k) /\ ~MayBeOverlay(k) /\ Refuse(w)

ResolveOverlay(w) ==
    LET k == call[w].key IN
    /\ At(w, "overlay")
    /\ \/ /\ overlay[k] # None
          /\ call' = [call EXCEPT ![w].at = "session", ![w].role = overlay[k]]
          /\ UNCHANGED <<registry, history, calls, restarts>>
       \/ overlay[k] = None /\ Refuse(w)

\* issue_session: the first live session of the key, or a new one.
Live(s) == ~sessions[s].dead /\ sessions[s].key \notin revoked
LiveOf(k) == {s \in DOMAIN sessions : sessions[s].key = k /\ Live(s)}
First(S) == CHOOSE s \in S : \A t \in S : s <= t

\* A stream checks its permission here, and nothing else before its first event.
Allowed(c) == Required(c.kind) \subseteq Permissions(c.role)
IssueSession(w) ==
    LET c == call[w]
        Bind(s) == [c EXCEPT !.sid = s, !.granted = (c.kind = "stream"),
                             !.at = IF c.kind = "revoke-session" THEN "body" ELSE "key"]
    IN
    /\ At(w, "session")
    /\ \/ /\ LiveOf(c.key) # {}
          /\ call' = [call EXCEPT ![w] = Bind(First(LiveOf(c.key)))]
          /\ UNCHANGED sessions
       \/ /\ LiveOf(c.key) = {} /\ Len(sessions) < MaxSessions
          /\ sessions' = Append(sessions, [key |-> c.key, dead |-> FALSE])
          /\ call' = [call EXCEPT ![w] = Bind(Len(sessions) + 1)]
    /\ UNCHANGED <<revoked, overlay, scopes, history, calls, restarts>>

-----------------------------------------------------------------------------
(* The gate: assert_active, the permission, ensure_app_access.  A route     *)
(* passes it once for its permission and again with the application; a      *)
(* play and a stream pass it before every step and every event.             *)

CheckKey(w) ==
    /\ At(w, "key")
    /\ \/ /\ call[w].key \notin revoked
          /\ Goto(w, "live")
          /\ UNCHANGED <<registry, history, calls, restarts>>
       \/ call[w].key \in revoked /\ Refuse(w)

\* Mutated form of SessionPasses: only the key counts.
KeyPasses(s) == sessions[s].key \notin revoked

\* is_session_revoked
SessionPasses(s) == Live(s)

Body(kind) == kind \in {"rotate", "revoke", "scope"}
CheckSession(w) ==
    LET c == call[w] IN
    /\ At(w, "live")
    /\ \/ /\ SessionPasses(c.sid)
          /\ c.granted \/ Allowed(c)
          /\ call' = [call EXCEPT ![w].granted = TRUE,
                        ![w].at = IF c.granted THEN "app" ELSE IF Body(c.kind) THEN "body" ELSE "key"]
          /\ UNCHANGED <<registry, history, calls, restarts>>
       \/ ~SessionPasses(c.sid) /\ Refuse(w)
       \/ ~c.granted /\ ~Allowed(c) /\ Refuse(w)

\* ensure_app_access: no scopes, no restriction.  event_visible_to: no scopes,
\* no event of any application.  Some workflows and events have none.
Scopes(k) == IF scopes[k] = Unset THEN {} ELSE scopes[k]
MayUse(c, a) == a = None \/ c.role = "admin" \/ Scopes(c.key) = {} \/ a \in Scopes(c.key)
MaySee(c, a) == a = None \/ c.role = "admin" \/ a \in Scopes(c.key)

CheckApp(w, a) ==
    LET c == call[w] IN
    /\ At(w, "app")
    /\ a = None => c.kind # "act"
    /\ \/ /\ IF c.kind = "stream" THEN MaySee(c, a) ELSE MayUse(c, a)
          /\ Goto(w, "effect")
          /\ UNCHANGED <<registry, history, calls, restarts>>
       \/ /\ c.kind = "stream" /\ ~MaySee(c, a)
          /\ Goto(w, "key")
          /\ UNCHANGED <<registry, history, calls, restarts>>
       \/ c.kind # "stream" /\ ~MayUse(c, a) /\ Refuse(w)

\* The action is invoked, the event is sent; a play and a stream go on.
Effect(w) ==
    /\ At(w, "effect")
    /\ IF Repeats(call[w].kind)
         THEN /\ Goto(w, "key")
              /\ late' = [late EXCEPT ![w] = IF w \in cut /\ @ < 2 THEN @ + 1 ELSE @]
              /\ UNCHANGED cut
         ELSE End(w)
    /\ UNCHANGED <<registry, heirOf, contested, narrow, calls, restarts>>

\* The workflow has no more steps, the client goes away or is idle.
Finish(w) == At(w, "key") /\ call[w].granted /\ Repeats(call[w].kind) /\ Refuse(w)

-----------------------------------------------------------------------------
(* The administrative routes                                               *)

BoundTo(k) == {w \in Workers : call[w].sid # 0 /\ call[w].key = k}

Flag(ss) == sessions' = [s \in DOMAIN sessions |->
                           [sessions[s] EXCEPT !.dead = @ \/ s \in ss]]

\* Mutated form of Retired: the key is only taken from the overlay.
RetiredOverlay(k) == IF InSettings(k) THEN revoked ELSE revoked \cup {k}

\* revoke_key: the key, every session of it, and its overlay role.
Retired(k) == revoked \cup {k}
RevokeKey(k) ==
    /\ revoked' = Retired(k)
    /\ Flag({s \in DOMAIN sessions : sessions[s].key = k})
    /\ overlay' = [overlay EXCEPT ![k] = None]

Revoke(w, k) ==
    /\ At(w, "body") /\ call[w].kind = "revoke"
    /\ RevokeKey(k)
    /\ cut' = (cut \cup BoundTo(k)) \ {w}
    /\ call' = [call EXCEPT ![w] = Idle]
    /\ UNCHANGED <<scopes, late, heirOf, contested, narrow, calls, restarts>>

\* One's own session, or any for an administrator.
RevokeSession(w, s) ==
    /\ At(w, "body") /\ call[w].kind = "revoke-session"
    /\ s \in DOMAIN sessions
    /\ sessions[s].key = call[w].key \/ call[w].role = "admin"
    /\ Flag({s})
    /\ cut' = (cut \cup {v \in Workers : call[v].sid = s}) \ {w}
    /\ call' = [call EXCEPT ![w] = Idle]
    /\ UNCHANGED <<revoked, overlay, scopes, late, heirOf, contested, narrow, calls, restarts>>

RevokeSessionDenied(w) ==
    At(w, "body") /\ call[w].kind = "revoke-session" /\ call[w].role # "admin" /\ Refuse(w)

\* PUT /auth/scopes
SetScopes(w, k, apps) ==
    /\ At(w, "body") /\ call[w].kind = "scope"
    /\ scopes' = [scopes EXCEPT ![k] = apps]
    /\ narrow' = IF apps # {} THEN narrow \cup {k}
                 ELSE narrow \ ({k} \cup {call[v].new : v \in {u \in Workers : At(u, "copy") /\ call[u].old = k}})
    /\ End(w)
    /\ UNCHANGED <<revoked, overlay, sessions, heirOf, contested, calls, restarts>>

\* POST /auth/rotate takes the role of the old key as a request would, ...
Rotating(w) == call[w].at \in {"revoke-old", "register", "copy"}
Contest(g) == contested' = IF \E v \in Workers : Rotating(v) /\ call[v].line = g
                             THEN contested \cup {g} ELSE contested
RotateResolve(w, old, new) ==
    /\ At(w, "body") /\ call[w].kind = "rotate"
    /\ \/ /\ Known(old)
          /\ call' = [call EXCEPT ![w].at = "revoke-old", ![w].old = old, ![w].new = new,
                                  ![w].grade = SettingsRole(old), ![w].line = old]
          /\ Contest(old)
          /\ UNCHANGED <<registry, cut, late, heirOf, narrow, calls, restarts>>
       \/ /\ MayBeOverlay(old)
          /\ call' = [call EXCEPT ![w].at = "old-overlay", ![w].old = old, ![w].new = new]
          /\ UNCHANGED <<registry, history, calls, restarts>>
       \/ ~Known(old) /\ ~MayBeOverlay(old) /\ Refuse(w)
RotateOverlay(w) ==
    LET old == call[w].old IN
    /\ At(w, "old-overlay")
    /\ \/ /\ overlay[old] # None
          /\ call' = [call EXCEPT ![w].at = "revoke-old", ![w].grade = overlay[old],
                                  ![w].line = heirOf[old]]
          /\ Contest(heirOf[old])
          /\ UNCHANGED <<registry, cut, late, heirOf, narrow, calls, restarts>>
       \/ overlay[old] = None /\ Refuse(w)

\* Mutated form of Fresh: a key of a Settings list is a target too.
FreshAnyKey(old, new) == new # old /\ new \notin Placeholders

\* ... refuses a target that is the old key, a placeholder or in a list, ...
Fresh(old, new) == new # old /\ new \notin Placeholders /\ ~InSettings(new)

\* ... and then enters the lock three times: to revoke the old key,
RotateRevoke(w) ==
    /\ At(w, "revoke-old")
    /\ \/ /\ Fresh(call[w].old, call[w].new)
          /\ RevokeKey(call[w].old)
          /\ cut' = cut \cup BoundTo(call[w].old)
          /\ Goto(w, "register")
          /\ UNCHANGED <<scopes, late, heirOf, contested, narrow, calls, restarts>>
       \/ ~Fresh(call[w].old, call[w].new) /\ Refuse(w)

\* to register the new one,
Pending(k) == \E w \in Workers : At(w, "copy") /\ call[w].new = k
RotateRegister(w) ==
    LET c == call[w] IN
    /\ At(w, "register")
    /\ revoked' = revoked \ {c.new}
    /\ overlay' = [overlay EXCEPT ![c.new] = c.grade]
    /\ heirOf' = [heirOf EXCEPT ![c.new] = c.line]
    /\ narrow' = IF c.old \in narrow /\ ~Pending(c.old) THEN narrow \cup {c.new} ELSE narrow
    /\ Goto(w, "copy")
    /\ UNCHANGED <<sessions, scopes, cut, late, contested, calls, restarts>>

\* Mutated form of Inherited: the scopes stay with the old key.
InheritedNot(old, new) == scopes[new]

\* and to copy the scopes, when the old key has any.
Inherited(old, new) == IF scopes[old] = Unset THEN scopes[new] ELSE scopes[old]
RotateCopy(w) ==
    LET c == call[w] IN
    /\ At(w, "copy")
    /\ scopes' = [scopes EXCEPT ![c.new] = Inherited(c.old, c.new)]
    /\ narrow' = IF scopes[c.old] = {} THEN narrow \ {c.new} ELSE narrow
    /\ End(w)
    /\ UNCHANGED <<revoked, overlay, sessions, heirOf, contested, calls, restarts>>

\* The registry is kept in memory only.
Dropped == [w \in Workers |-> Idle]
Restart ==
    /\ restarts < MaxRestarts
    /\ restarts' = restarts + 1
    /\ revoked' = {}
    /\ overlay' = [k \in Keys |-> None]
    /\ sessions' = <<>>
    /\ scopes' = [k \in Keys |-> Unset]
    /\ call' = Dropped
    /\ cut' = {} /\ late' = [w \in Workers |-> 0]
    /\ heirOf' = [k \in Keys |-> IF InSettings(k) THEN k ELSE None]
    /\ contested' = {} /\ narrow' = {}
    /\ UNCHANGED calls

Handle(w) ==
    \/ \E kind \in Kinds, k \in Keys : Begin(w, kind, k)
    \/ Resolve(w) \/ ResolveOverlay(w) \/ IssueSession(w)
    \/ CheckKey(w) \/ CheckSession(w) \/ (\E a \in Apps \cup {None} : CheckApp(w, a))
    \/ Effect(w) \/ Finish(w)
    \/ \E k \in Keys : Revoke(w, k)
    \/ \E s \in 1..MaxSessions : RevokeSession(w, s)
    \/ RevokeSessionDenied(w)
    \/ \E k \in Keys, apps \in SUBSET Apps : SetScopes(w, k, apps)
    \/ \E old, new \in Keys : RotateResolve(w, old, new)
    \/ RotateOverlay(w) \/ RotateRevoke(w) \/ RotateRegister(w) \/ RotateCopy(w)

Next == (\E w \in Workers : Handle(w)) \/ Restart

Spec == Init /\ [][Next]_vars

-----------------------------------------------------------------------------
(* Properties                                                              *)

TypeOK ==
    /\ revoked \subseteq Keys
    /\ overlay \in [Keys -> Roles \cup {None}]
    /\ sessions \in Seq([key : Keys, dead : BOOLEAN])
    /\ scopes \in [Keys -> (SUBSET Apps) \cup {Unset}]
    /\ call \in [Workers ->
         [at : {"idle", "resolve", "overlay", "session", "key", "live", "app", "effect",
                "body", "old-overlay", "revoke-old", "register", "copy"},
          kind : Kinds \cup {None}, key : Keys \cup {None}, role : Roles \cup {None},
          sid : Nat, granted : BOOLEAN, old : Keys \cup {None}, new : Keys \cup {None},
          grade : Roles \cup {None}, line : Keys \cup {None}]]
    /\ \A w \in Workers : call[w].sid \in 0..Len(sessions)
    /\ cut \subseteq Workers /\ late \in [Workers -> 0..2]
    /\ heirOf \in [Keys -> Keys \cup {None}]
    /\ contested \subseteq Keys /\ narrow \subseteq Keys
    /\ calls \in 0..MaxCalls /\ restarts \in 0..MaxRestarts

(***************************************************************************)
(* Once its session or its key is revoked, a play or a stream has at most  *)
(* one more effect, the step or event that had passed the gate already;    *)
(* also when the key is rotated in again while the call goes on            *)
(* (assert_active before each step, the checks of events_ws).              *)
(***************************************************************************)
AtMostOneLateEffect == \A w \in Workers : late[w] <= 1

(***************************************************************************)
(* A key of the Settings lists that was revoked, or rotated away, stays    *)
(* refused for the life of the server: no rotation brings it in again      *)
(* (register_overlay_key takes its argument off the revoked keys).         *)
(***************************************************************************)
SettingsKeyStaysRevoked ==
    [][\A k \in revoked : InSettings(k) /\ k \notin revoked' => restarts' > restarts]_vars

\* What resolve_role would accept now.
Active(k) == Known(k) \/ (MayBeOverlay(k) /\ overlay[k] # None)
RoleNow(k) == IF InSettings(k) THEN SettingsRole(k) ELSE overlay[k]

(***************************************************************************)
(* Through any chain of rotations a credential of the Settings lists is    *)
(* in force under at most one key, and with its own role, unless two       *)
(* rotations of it overlapped: both then take the old key for active, and  *)
(* each registers an heir (rotate_key).                                    *)
(***************************************************************************)
OneHeir ==
    \A g \in Keys \ contested : Cardinality(Lists[g]) = 1 =>
        LET heirs == {k \in Keys : Active(k) /\ heirOf[k] = g} IN
        /\ Cardinality(heirs) <= 1
        /\ \A k \in heirs : RoleNow(k) = SettingsRole(g)

(***************************************************************************)
(* The heir of a key that was restricted to some applications is itself    *)
(* restricted, but for the time between the registration of the heir and   *)
(* the copy of the scopes, and unless two rotations overlapped (rotate_key *)
(* enters the lock three times, and no scopes are no restriction).         *)
(***************************************************************************)
HeirIsRestricted == \A k \in narrow : Scopes(k) = {} => Pending(k)

(***************************************************************************)
(* A rotation leaves one heir, of the same role and restriction.           *)
(***************************************************************************)
RotationIsSound == OneHeir /\ HeirIsRestricted

=============================================================================
