------------------------ MODULE Activities_proofs ---------------------------
(* Theorems about the components of Activities, for every value of their    *)
(* constants.  Each component has an inductive invariant of its own, kept   *)
(* by its own steps; the others leave its variables alone.                  *)
EXTENDS Activities, FiniteSetTheorems, TLAPS

-----------------------------------------------------------------------------
(* Webhooks                                                                 *)
-----------------------------------------------------------------------------
HookRegistration == [url : Nat, secret : Nat, types : SUBSET HookEvents]
HookKeys == Destinations \X HookEvents
HookFans == [at : {"idle", "next", "check", "post", "mark"}, event : HookEvents \cup {"none"},
         todo : SUBSET Destinations, id : Destinations \cup {"none"}, dest : HookRegistration,
         attempt : Nat, last : HookRegistration, owed : SUBSET Destinations,
         served : SUBSET Destinations, before : SUBSET HookKeys]

(***************************************************************************)
(* What a fan_out f knows: a delivery on its way has a destination and an  *)
(* event; the secret goes with the URL from the registration to the post;  *)
(* what is about to be marked was accepted, and what is being posted was   *)
(* not marked before.  Who is owed the event still wants it, and has been  *)
(* tried, is being tried or is to be tried.                                *)
(***************************************************************************)
HookSends(f) == f.at \in {"check", "post", "mark"}
HookFanOK(f, ds, marked, taken) ==
    /\ f \in HookFans
    /\ f.at # "idle" => f.event \in HookEvents
    /\ HookSends(f) => f.id \in Destinations
    /\ f.dest.secret = f.dest.url /\ f.last.secret = f.last.url
    /\ f.at = "mark" => <<f.id, f.event>> \in taken
    /\ f.before \subseteq marked
    /\ f.at = "post" => <<f.id, f.event>> \notin f.before
    /\ \A d \in f.owed : f.event \in ds[d].types
    /\ f.owed \subseteq f.served \cup f.todo \cup (IF HookSends(f) THEN {f.id} ELSE {})

HookInv ==
    /\ dests \in [Destinations -> HookRegistration] /\ changes \in Nat
    /\ \A d \in Destinations : dests[d].secret = dests[d].url
    /\ delivered \subseteq acked /\ acked \subseteq HookKeys
    /\ DOMAIN fan = Workers /\ \A t \in Workers : HookFanOK(fan[t], dests, delivered, acked)

LEMMA HookStarts == Hook!Init => HookInv
<1> SUFFICES ASSUME Hook!Init PROVE HookInv
  OBVIOUS
<1>1. Hook!Absent \in HookRegistration /\ Hook!Resting \in HookFans
  BY DEF Hook!Absent, Hook!Resting, HookRegistration, HookFans
<1>2. HookFanOK(Hook!Resting, dests, delivered, acked)
  BY <1>1 DEF HookFanOK, Hook!Resting, HookSends, Hook!Absent
<1>3. QED
  BY <1>1, <1>2 DEF Hook!Init, HookInv, Hook!Absent

(* A thread goes on with its fan_out.                                       *)
LEMMA HookFanMoves ==
  ASSUME HookInv, NEW t \in Workers, NEW new, fan' = [fan EXCEPT ![t] = new], dests' = dests, changes' \in Nat,
         delivered \subseteq delivered', acked \subseteq acked', acked' \subseteq HookKeys,
         delivered' \subseteq acked', HookFanOK(new, dests, delivered', acked')
  PROVE  HookInv'
<1>1. DOMAIN fan' = Workers /\ fan'[t] = new
  BY DEF HookInv
<1>2. ASSUME NEW u \in Workers PROVE HookFanOK(fan'[u], dests', delivered', acked')
  <2>1. CASE u = t
    BY <1>1, <2>1
  <2>2. CASE u # t
    <3>1. fan'[u] = fan[u]
      BY <2>2 DEF HookInv
    <3>2. HookFanOK(fan[u], dests, delivered, acked)
      BY DEF HookInv
    <3>3. QED
      BY <3>1, <3>2 DEF HookFanOK
  <2>3. QED
    BY <2>1, <2>2
<1>3. QED
  BY <1>1, <1>2 DEF HookInv

(* A registration or a removal of one destination.                          *)
LEMMA HookChanges ==
  ASSUME HookInv, NEW d \in Destinations, NEW r \in HookRegistration, r.secret = r.url,
         dests' = [dests EXCEPT ![d] = r], fan' = Hook!Excused(d), changes' \in Nat,
         delivered' = delivered, acked' = acked
  PROVE  HookInv'
<1>1. dests' \in [Destinations -> HookRegistration] /\ \A e \in Destinations : dests'[e].secret = dests'[e].url
  BY DEF HookInv
<1>2. ASSUME NEW t \in Workers PROVE HookFanOK(fan'[t], dests', delivered', acked')
  <2>1. HookFanOK(fan[t], dests, delivered, acked) /\ fan[t] \in HookFans
    BY DEF HookInv, HookFanOK
  <2>2. fan'[t] = [fan[t] EXCEPT !.owed = fan[t].owed \ {d}]
    BY DEF Hook!Excused
  <2>3. /\ fan'[t] \in HookFans /\ fan'[t].owed = fan[t].owed \ {d}
        /\ fan'[t].at = fan[t].at /\ fan'[t].event = fan[t].event /\ fan'[t].id = fan[t].id
        /\ fan'[t].dest = fan[t].dest /\ fan'[t].last = fan[t].last /\ fan'[t].before = fan[t].before
        /\ fan'[t].todo = fan[t].todo /\ fan'[t].served = fan[t].served
    BY <2>1, <2>2 DEF HookFans
  <2>4. \A e \in fan'[t].owed : dests'[e] = dests[e]
    BY <2>1, <2>3 DEF HookInv, HookFans
  <2>5. QED
    BY <2>1, <2>3, <2>4 DEF HookFanOK, HookSends
<1>3. DOMAIN fan' = Workers
  BY DEF Hook!Excused
<1>4. QED
  BY <1>1, <1>2, <1>3 DEF HookInv

(* The end of a delivery: what was owed to its destination is served.       *)
LEMMA HookDoneIs ==
  ASSUME HookInv, NEW t \in Workers, HookSends(fan[t]),
         NEW last \in HookRegistration, last.secret = last.url
  PROVE  /\ HookFanOK(Hook!Done(t), dests, delivered, acked)
         /\ HookFanOK([Hook!Done(t) EXCEPT !.last = last], dests, delivered, acked)
<1>1. HookFanOK(fan[t], dests, delivered, acked) /\ fan[t] \in HookFans /\ fan[t].id \in Destinations
  BY DEF HookInv, HookFanOK
<1>2. Hook!Absent \in HookRegistration /\ Hook!Absent.secret = Hook!Absent.url
  BY DEF Hook!Absent, HookRegistration
<1> DEFINE new == Hook!Done(t)
<1>3. /\ new \in HookFans /\ new.at = "next" /\ new.served = fan[t].served \cup {fan[t].id}
      /\ new.dest = Hook!Absent /\ new.event = fan[t].event /\ new.owed = fan[t].owed
      /\ new.todo = fan[t].todo /\ new.before = fan[t].before /\ new.last = fan[t].last
  BY <1>1, <1>2 DEF Hook!Done, HookFans
<1>4. HookFanOK(new, dests, delivered, acked)
  BY <1>1, <1>2, <1>3 DEF HookFanOK, HookSends
<1> HIDE DEF new
<1> DEFINE newer == [new EXCEPT !.last = last]
<1>5. /\ newer \in HookFans /\ newer.last = last /\ newer.at = new.at /\ newer.served = new.served
      /\ newer.dest = new.dest /\ newer.event = new.event /\ newer.owed = new.owed
      /\ newer.todo = new.todo /\ newer.before = new.before /\ newer.id = new.id
  BY <1>3 DEF HookFans
<1> HIDE DEF newer
<1>6. HookFanOK(newer, dests, delivered, acked)
  BY <1>4, <1>5 DEF HookFanOK, HookSends
<1>7. QED
  BY <1>4, <1>6 DEF new, newer

LEMMA HookFanOutStep ==
  ASSUME HookInv, NEW t \in Workers, NEW e \in HookEvents, Hook!FanOut(t, e)
  PROVE  HookInv'
<1> DEFINE new == [Hook!Resting EXCEPT !.at = "next", !.event = e, !.todo = Hook!Matching(e), !.owed = Hook!Matching(e),
                                  !.before = {k \in delivered : k[2] = e}]
<1>1. Hook!Matching(e) \subseteq Destinations /\ \A d \in Hook!Matching(e) : e \in dests[d].types
  BY DEF Hook!Matching
<1>2. Hook!Absent \in HookRegistration /\ Hook!Absent.secret = Hook!Absent.url
  BY DEF Hook!Absent, HookRegistration
<1>3. new \in HookFans
  BY <1>1, <1>2 DEF Hook!Resting, HookFans, HookInv
<1>4. HookFanOK(new, dests, delivered, acked)
  BY <1>1, <1>2, <1>3 DEF HookFanOK, HookSends, Hook!Resting
<1>5. fan' = [fan EXCEPT ![t] = new]
  BY DEF Hook!FanOut
<1> HIDE DEF new
<1>6. QED
  BY <1>4, <1>5, HookFanMoves DEF Hook!FanOut, HookInv

LEMMA HookLookupStep ==
  ASSUME HookInv, NEW t \in Workers, NEW d \in Destinations, Hook!Lookup(t, d)
  PROVE  HookInv'
<1>1. HookFanOK(fan[t], dests, delivered, acked) /\ fan[t] \in HookFans /\ fan[t].at = "next" /\ dests[d] \in HookRegistration
  BY DEF HookInv, HookFanOK, Hook!Lookup, Hook!At
<1>2. CASE dests[d] = Hook!Absent \/ fan[t].event \notin dests[d].types
  <2> DEFINE new == [fan[t] EXCEPT !.todo = fan[t].todo \ {d}]
  <2>1. fan' = [fan EXCEPT ![t] = new]
    BY <1>2 DEF Hook!Lookup, Hook!Passed
  <2>2. /\ new \in HookFans /\ new.todo = fan[t].todo \ {d} /\ new.at = "next" /\ new.id = fan[t].id
        /\ new.event = fan[t].event /\ new.owed = fan[t].owed /\ new.served = fan[t].served
        /\ new.before = fan[t].before /\ new.dest = fan[t].dest /\ new.last = fan[t].last
    BY <1>1 DEF HookFans
  <2>3. d \notin fan[t].owed
    BY <1>1, <1>2 DEF HookFanOK, Hook!Absent
  <2> HIDE DEF new
  <2>4. HookFanOK(new, dests, delivered, acked)
    BY <1>1, <2>2, <2>3 DEF HookFanOK, HookSends
  <2>5. QED
    BY <2>1, <2>4, HookFanMoves DEF Hook!Lookup, HookInv
<1>3. CASE dests[d] # Hook!Absent /\ fan[t].event \in dests[d].types
  <2> DEFINE new == [fan[t] EXCEPT !.at = "check", !.id = d, !.dest = dests[d], !.todo = fan[t].todo \ {d}]
  <2>1. fan' = [fan EXCEPT ![t] = new]
    BY <1>3 DEF Hook!Lookup
  <2>2. /\ new \in HookFans /\ new.todo = fan[t].todo \ {d} /\ new.at = "check" /\ new.id = d
        /\ new.event = fan[t].event /\ new.owed = fan[t].owed /\ new.served = fan[t].served
        /\ new.before = fan[t].before /\ new.dest = dests[d] /\ new.last = fan[t].last
    BY <1>1 DEF HookFans
  <2> HIDE DEF new
  <2>3. HookFanOK(new, dests, delivered, acked)
    BY <1>1, <2>2 DEF HookFanOK, HookSends, HookInv
  <2>4. QED
    BY <2>1, <2>3, HookFanMoves DEF Hook!Lookup, HookInv
<1>4. QED
  BY <1>2, <1>3

LEMMA HookCheckStep ==
  ASSUME HookInv, NEW t \in Workers, Hook!Check(t)
  PROVE  HookInv'
<1>1. HookFanOK(fan[t], dests, delivered, acked) /\ fan[t] \in HookFans /\ fan[t].at = "check"
  BY DEF HookInv, HookFanOK, Hook!Check, Hook!At
<1>2. dests' = dests /\ delivered' = delivered /\ acked' = acked /\ changes' = changes
  BY DEF Hook!Check, Hook!Claimed
<1>3. CASE Hook!Key(t) \in delivered
  <2>1. fan' = [fan EXCEPT ![t] = Hook!Done(t)]
    BY <1>3 DEF Hook!Check
  <2>2. fan[t].last \in HookRegistration /\ fan[t].last.secret = fan[t].last.url /\ HookSends(fan[t])
    BY <1>1 DEF HookFanOK, HookFans, HookSends
  <2>3. QED
    BY <1>2, <2>1, <2>2, HookDoneIs, HookFanMoves DEF HookInv
<1>4. CASE Hook!Key(t) \notin delivered
  <2> DEFINE new == [fan[t] EXCEPT !.at = "post", !.attempt = 1]
  <2>1. fan' = [fan EXCEPT ![t] = new]
    BY <1>4 DEF Hook!Check
  <2>2. /\ new \in HookFans /\ new.todo = fan[t].todo /\ new.at = "post" /\ new.id = fan[t].id
        /\ new.event = fan[t].event /\ new.owed = fan[t].owed /\ new.served = fan[t].served
        /\ new.before = fan[t].before /\ new.dest = fan[t].dest /\ new.last = fan[t].last
    BY <1>1 DEF HookFans
  <2> HIDE DEF new
  <2>3. HookFanOK(new, dests, delivered, acked)
    BY <1>1, <1>4, <2>2 DEF HookFanOK, HookSends, Hook!Key
  <2>4. QED
    BY <1>2, <2>1, <2>3, HookFanMoves DEF HookInv
<1>5. QED
  BY <1>3, <1>4

LEMMA HookPostStep ==
  ASSUME HookInv, NEW t \in Workers, NEW answer \in Hook!Answers, Hook!Post(t, answer)
  PROVE  HookInv'
<1>1. /\ HookFanOK(fan[t], dests, delivered, acked) /\ fan[t] \in HookFans /\ fan[t].at = "post" /\ HookSends(fan[t])
      /\ Hook!Key(t) \in HookKeys
  BY DEF HookInv, HookFanOK, Hook!Post, Hook!At, HookSends, HookKeys, Hook!Key
<1>2. dests' = dests /\ delivered' = delivered /\ changes' = changes
  BY DEF Hook!Post
<1>3. /\ acked' = acked \/ acked' = acked \cup {Hook!Key(t)}
      /\ answer = "2xx" => acked' = acked \cup {Hook!Key(t)}
  BY DEF Hook!Post
<1>4. Hook!Posted(t) \in HookRegistration /\ Hook!Posted(t).secret = Hook!Posted(t).url
  BY <1>1 DEF Hook!Posted, Hook!Secret, HookFans, HookRegistration, HookFanOK
<1>5. HookFanOK([Hook!Done(t) EXCEPT !.last = Hook!Posted(t)], dests, delivered', acked')
  <2>1. HookFanOK([Hook!Done(t) EXCEPT !.last = Hook!Posted(t)], dests, delivered, acked)
    BY <1>1, <1>4, HookDoneIs
  <2>2. QED
    BY <1>2, <1>3, <2>1 DEF HookFanOK
<1>6. HookFanOK([fan[t] EXCEPT !.at = "mark", !.last = Hook!Posted(t)], dests, delivered', acked \cup {Hook!Key(t)})
  <2> DEFINE new == [fan[t] EXCEPT !.at = "mark", !.last = Hook!Posted(t)]
  <2>1. /\ new \in HookFans /\ new.todo = fan[t].todo /\ new.at = "mark" /\ new.id = fan[t].id
        /\ new.event = fan[t].event /\ new.owed = fan[t].owed /\ new.served = fan[t].served
        /\ new.before = fan[t].before /\ new.dest = fan[t].dest /\ new.last = Hook!Posted(t)
    BY <1>1, <1>4 DEF HookFans
  <2> HIDE DEF new
  <2>2. HookFanOK(new, dests, delivered', acked \cup {Hook!Key(t)})
    BY <1>1, <1>2, <1>4, <2>1 DEF HookFanOK, HookSends, Hook!Key
  <2>3. QED
    BY <2>2 DEF new
<1>7. HookFanOK([fan[t] EXCEPT !.attempt = fan[t].attempt + 1, !.last = Hook!Posted(t)], dests, delivered', acked')
  <2> DEFINE next == fan[t].attempt + 1
  <2>m. next \in Nat
    <3>1. fan[t].attempt \in Nat
      BY <1>1 DEF HookFans
    <3>2. QED
      BY <3>1
  <2> DEFINE new == [fan[t] EXCEPT !.attempt = next, !.last = Hook!Posted(t)]
  <2> HIDE DEF next
  <2>1. /\ new \in HookFans /\ new.todo = fan[t].todo /\ new.at = "post" /\ new.id = fan[t].id
        /\ new.event = fan[t].event /\ new.owed = fan[t].owed /\ new.served = fan[t].served
        /\ new.before = fan[t].before /\ new.dest = fan[t].dest /\ new.last = Hook!Posted(t)
    BY <1>1, <1>4, <2>m DEF HookFans
  <2> HIDE DEF new
  <2>2. HookFanOK(new, dests, delivered', acked')
    BY <1>1, <1>2, <1>3, <1>4, <2>1 DEF HookFanOK, HookSends
  <2>3. QED
    BY <2>2 DEF new, next
<1>8. \E new : fan' = [fan EXCEPT ![t] = new] /\ HookFanOK(new, dests, delivered', acked')
  <2>1. CASE answer = "2xx"
    BY <1>3, <1>6, <2>1 DEF Hook!Post
  <2>2. CASE answer \in {"4xx", "lost"}
    BY <1>5, <2>2 DEF Hook!Post
  <2>3. CASE answer \in {"5xx or 429", "broken"}
    BY <1>5, <1>7, <2>3 DEF Hook!Post
  <2>4. QED
    BY <2>1, <2>2, <2>3 DEF Hook!Answers
<1>9. acked \subseteq acked' /\ acked' \subseteq HookKeys /\ delivered' \subseteq acked'
  BY <1>1, <1>2, <1>3 DEF HookInv
<1>10. QED
  BY <1>2, <1>8, <1>9, HookFanMoves DEF HookInv

LEMMA HookMarkStep ==
  ASSUME HookInv, NEW t \in Workers, Hook!Mark(t)
  PROVE  HookInv'
<1>1. /\ HookFanOK(fan[t], dests, delivered, acked) /\ fan[t] \in HookFans /\ HookSends(fan[t])
      /\ Hook!Key(t) \in acked
  BY DEF HookInv, HookFanOK, Hook!Mark, Hook!At, HookSends, Hook!Key
<1>2. dests' = dests /\ acked' = acked /\ changes' = changes /\ delivered' = delivered \cup {Hook!Key(t)}
  BY DEF Hook!Mark
<1>7. fan[t].last \in HookRegistration /\ fan[t].last.secret = fan[t].last.url
  BY <1>1 DEF HookFanOK, HookFans
<1>3. HookFanOK(Hook!Done(t), dests, delivered, acked)
  BY <1>1, <1>7, HookDoneIs
<1>4. HookFanOK(Hook!Done(t), dests, delivered', acked')
  BY <1>2, <1>3 DEF HookFanOK
<1>5. fan' = [fan EXCEPT ![t] = Hook!Done(t)]
  BY DEF Hook!Mark
<1>6. QED
  BY <1>1, <1>2, <1>4, <1>5, HookFanMoves DEF HookInv

LEMMA HookFinishStep ==
  ASSUME HookInv, NEW t \in Workers, Hook!Finish(t)
  PROVE  HookInv'
<1>1. Hook!Absent \in HookRegistration /\ Hook!Resting \in HookFans
  BY DEF Hook!Absent, Hook!Resting, HookRegistration, HookFans
<1>2. HookFanOK(Hook!Resting, dests, delivered, acked)
  BY <1>1 DEF HookFanOK, Hook!Resting, HookSends, Hook!Absent
<1>3. fan' = [fan EXCEPT ![t] = Hook!Resting]
  BY DEF Hook!Finish
<1>4. QED
  BY <1>2, <1>3, HookFanMoves DEF Hook!Finish, HookInv

LEMMA HookStep == HookInv /\ [Hook!Next]_(Hook!whVars) => HookInv'
<1> SUFFICES ASSUME HookInv, [Hook!Next]_(Hook!whVars) PROVE HookInv'
  OBVIOUS
<1>1. ASSUME NEW d \in Destinations, NEW types \in SUBSET HookEvents, Hook!Register(d, types) PROVE HookInv'
  <2> DEFINE r == [url |-> changes', secret |-> changes', types |-> types]
  <2>1. r \in HookRegistration /\ r.secret = r.url /\ changes' \in Nat
    BY <1>1 DEF Hook!Register, HookInv, HookRegistration
  <2>2. dests' = [dests EXCEPT ![d] = r] /\ fan' = Hook!Excused(d) /\ delivered' = delivered /\ acked' = acked
    BY <1>1 DEF Hook!Register
  <2> HIDE DEF r
  <2>3. QED
    BY <2>1, <2>2, HookChanges
<1>2. ASSUME NEW d \in Destinations, Hook!Unregister(d) PROVE HookInv'
  <2>1. Hook!Absent \in HookRegistration /\ Hook!Absent.secret = Hook!Absent.url
    BY DEF Hook!Absent, HookRegistration
  <2>2. dests' = [dests EXCEPT ![d] = Hook!Absent] /\ fan' = Hook!Excused(d) /\ delivered' = delivered /\ acked' = acked
    BY <1>2 DEF Hook!Unregister, Hook!Kept
  <2>3. changes' \in Nat
    BY <1>2 DEF Hook!Unregister, HookInv
  <2>4. QED
    BY <2>1, <2>2, <2>3, HookChanges
<1>3. CASE UNCHANGED Hook!whVars
  BY <1>3 DEF Hook!whVars, HookInv
<1>4. QED
  BY <1>1, <1>2, <1>3, HookFanOutStep, HookLookupStep, HookCheckStep, HookPostStep, HookMarkStep, HookFinishStep DEF Hook!Next

LEMMA HookIsSound == HookInv => Hook!DeliveriesAreSound
BY DEF HookInv, HookFanOK, Hook!DeliveriesAreSound, Hook!SecretStaysWithUrl, Hook!DeliveredIsAccepted, Hook!NotDeliveredAgain,
       Hook!EveryoneIsTried, Hook!At, Hook!Key, HookSends

(* A part keeps its invariant: its own steps do, and the others leave its   *)
(* variables alone.                                                         *)
LEMMA HookAlways == ActivitiesSpec => [](part = "webhooks" => HookInv)
<1> DEFINE Inv == part = "webhooks" => HookInv
<1>1. ActivitiesInit => Inv
  BY HookStarts DEF ActivitiesInit
<1>2. Inv /\ [ActivitiesNext]_activityVars => Inv'
  <2>1. ASSUME [ActivitiesNext]_activityVars PROVE part' = part /\ (part = "webhooks" => [Hook!Next]_(Hook!whVars))
    BY <2>1 DEF ActivitiesNext, activityVars, hookVars, Hook!whVars
  <2>2. QED
    BY <2>1, HookStep
<1>3. QED
  BY <1>1, <1>2, PTL DEF ActivitiesSpec

(* Deliveries are signed with the secret of the registration they go to,    *)
(* only what was accepted is marked and is not posted again, and nobody who *)
(* wants the event is left out (webhooks.WebhookDispatcher).                *)
THEOREM DeliveriesAlwaysSound == ActivitiesSpec => []DeliveriesAreSound
<1>1. (part = "webhooks" => HookInv) => DeliveriesAreSound
  BY HookIsSound DEF DeliveriesAreSound
<1>2. QED
  BY <1>1, HookAlways, PTL

-----------------------------------------------------------------------------
(* Workflows                                                                *)
-----------------------------------------------------------------------------
(* A plan has a number of steps.                                            *)
LEMMA FlowAssumption == MaxSteps \in Nat
BY ActivitiesAssumption

FlowWorkflow == [owner : Principals \cup {Flow!Nobody}, steps : Seq(Principals \cup {Flow!Generator}), rollback : Nat]
FlowEntries == [part : {"main", "back"}, nr : Nat, answer : Flow!Answers]
FlowRequests == [at : {"idle", "append", "own", "main", "back", "done"}, wf : Nat, had : Nat,
             log : Seq(FlowEntries), ok : BOOLEAN]

\* Every step of the list was played, in order, and went well.
FlowAllPlayed(log) == \A i \in 1..Len(log) : log[i] = [part |-> "main", nr |-> i, answer |-> "ok"]

\* One entry follows another of a log.
FlowFollows(e, f) ==
    \/ e.answer = "ok" /\ f.part = e.part /\ f.nr = e.nr + 1
    \/ e.answer # "ok" /\ e.part = "main" /\ f.part = "back" /\ f.nr = 1
FlowChained(log) ==
    /\ log # <<>> => log[1].part = "main" /\ log[1].nr = 1
    /\ \A i \in 1 .. Len(log) - 1 : FlowFollows(log[i], log[i + 1])

(***************************************************************************)
(* A replay in the list has played all of it so far; one in the rollback   *)
(* has failed, or is well on its way back.                                 *)
(***************************************************************************)
FlowRequestOK(r, ws) ==
    /\ FlowChained(r.log)
    /\ r.at \in {"own", "main", "back"} => r.wf \in 1..Len(ws)
    /\ r.at = "main" => r.had <= Len(ws[r.wf].steps) /\ FlowAllPlayed(r.log)
    /\ r.at = "back" => /\ r.log # <<>>
                        /\ LET e == r.log[Len(r.log)] IN (e.answer = "ok") = (e.part = "back")
    /\ r.at \in {"main", "back"} => ~r.ok
    /\ r.at = "done" /\ r.ok => Len(r.log) >= r.had /\ FlowAllPlayed(r.log)

FlowInv ==
    /\ wfs \in Seq(FlowWorkflow) /\ recording \in 0..Len(wfs)
    /\ request \in [Principals -> FlowRequests]
    /\ \A t \in Principals : FlowRequestOK(request[t], wfs)

LEMMA FlowWaitingOK == Flow!Waiting \in FlowRequests /\ Flow!Waiting.log = <<>> /\ Flow!Waiting.at = "idle" /\ ~Flow!Waiting.ok /\ \A ws : FlowRequestOK(Flow!Waiting, ws)
<1>1. <<>> \in Seq(FlowEntries)
  OBVIOUS
<1>2. QED
  BY <1>1 DEF Flow!Waiting, FlowRequests, FlowRequestOK, FlowChained

LEMMA FlowStarts == Flow!Init => FlowInv
BY FlowWaitingOK DEF Flow!Init, FlowInv

LEMMA FlowStepsCounted == ASSUME NEW w \in FlowWorkflow PROVE w.steps \in Seq(Principals \cup {Flow!Generator}) /\ Len(w.steps) \in Nat
<1>1. w.steps \in Seq(Principals \cup {Flow!Generator})
  BY DEF FlowWorkflow
<1>2. QED
  BY <1>1

(* Lists of steps only grow, and nobody is left without a workflow.         *)
FlowGrown(ws, vs) == Len(ws) <= Len(vs) /\ \A w \in 1..Len(ws) : Len(ws[w].steps) <= Len(vs[w].steps)

LEMMA FlowGrownKeeps ==
  ASSUME NEW ws \in Seq(FlowWorkflow), NEW vs \in Seq(FlowWorkflow), FlowGrown(ws, vs), NEW r \in FlowRequests, FlowRequestOK(r, ws)
  PROVE  FlowRequestOK(r, vs)
<1>1. r.wf \in 1..Len(ws) => r.wf \in 1..Len(vs) /\ Len(ws[r.wf].steps) <= Len(vs[r.wf].steps)
  BY DEF FlowGrown
<1>2. r.wf \in 1..Len(ws) => Len(ws[r.wf].steps) \in Nat /\ Len(vs[r.wf].steps) \in Nat
  BY <1>1, FlowStepsCounted
<1>3. r.had \in Nat
  BY DEF FlowRequests
<1>4. r.at = "main" => r.had <= Len(vs[r.wf].steps)
  BY <1>1, <1>2, <1>3 DEF FlowRequestOK
<1>5. QED
  BY <1>1, <1>4 DEF FlowRequestOK

LEMMA FlowGrownItself == ASSUME NEW ws \in Seq(FlowWorkflow) PROVE FlowGrown(ws, ws)
<1>1. \A w \in 1..Len(ws) : Len(ws[w].steps) \in Nat
  BY DEF FlowWorkflow
<1>2. QED
  BY <1>1 DEF FlowGrown

(* It is enough to look at the workflows and the request that change.       *)
LEMMA FlowMoves ==
  ASSUME FlowInv, NEW t \in Principals, NEW r \in FlowRequests, request' = [request EXCEPT ![t] = r],
         wfs' \in Seq(FlowWorkflow), FlowGrown(wfs, wfs'), FlowRequestOK(r, wfs'), recording' \in 0..Len(wfs')
  PROVE  FlowInv'
<1>1. request \in [Principals -> FlowRequests] /\ \A u \in Principals : FlowRequestOK(request[u], wfs)
  BY DEF FlowInv
<1>2. \A u \in Principals : FlowRequestOK(request'[u], wfs')
  <2> TAKE u \in Principals
  <2>1. CASE u = t
    BY <1>1, <2>1
  <2>2. CASE u # t
    <3>1. request'[u] = request[u] /\ request[u] \in FlowRequests /\ FlowRequestOK(request[u], wfs)
      BY <1>1, <2>2
    <3>2. wfs \in Seq(FlowWorkflow)
      BY DEF FlowInv
    <3>3. QED
      BY <3>1, <3>2, FlowGrownKeeps
  <2>3. QED
    BY <2>1, <2>2
<1>3. QED
  BY <1>1, <1>2 DEF FlowInv

LEMMA FlowStays ==
  ASSUME FlowInv, UNCHANGED request, wfs' \in Seq(FlowWorkflow), FlowGrown(wfs, wfs'), recording' \in 0..Len(wfs')
  PROVE  FlowInv'
<1>1. request \in [Principals -> FlowRequests] /\ wfs \in Seq(FlowWorkflow) /\ \A u \in Principals : FlowRequestOK(request[u], wfs)
  BY DEF FlowInv
<1>2. \A u \in Principals : FlowRequestOK(request[u], wfs')
  BY <1>1, FlowGrownKeeps
<1>3. QED
  BY <1>1, <1>2 DEF FlowInv

LEMMA FlowAppended ==
  ASSUME FlowInv, NEW w \in FlowWorkflow
  PROVE  /\ Append(wfs, w) \in Seq(FlowWorkflow) /\ FlowGrown(wfs, Append(wfs, w)) /\ Len(Append(wfs, w)) = Len(wfs) + 1
         /\ Len(wfs) \in Nat /\ recording \in 0..Len(Append(wfs, w))
<1>1. wfs \in Seq(FlowWorkflow) /\ Len(wfs) \in Nat /\ recording \in 0..Len(wfs)
  BY DEF FlowInv
<1>2. Append(wfs, w) \in Seq(FlowWorkflow) /\ Len(Append(wfs, w)) = Len(wfs) + 1
      /\ \A i \in 1..Len(wfs) : Append(wfs, w)[i] = wfs[i]
  BY <1>1
<1>3. \A i \in 1..Len(wfs) : Len(wfs[i].steps) \in Nat
  BY <1>1 DEF FlowWorkflow
<1>4. FlowGrown(wfs, Append(wfs, w))
  BY <1>1, <1>2, <1>3 DEF FlowGrown
<1>5. QED
  BY <1>1, <1>2, <1>4

(* Recording.                                                               *)

LEMMA FlowStartRecordingStep == ASSUME FlowInv, NEW t \in Principals, Flow!StartRecording(t) PROVE FlowInv'
<1>1. Flow!New(t, <<>>, 0) \in FlowWorkflow
  <2>1. <<>> \in Seq(Principals \cup {Flow!Generator})
    OBVIOUS
  <2>2. QED
    BY <2>1 DEF Flow!New, FlowWorkflow
<1>2. wfs' = Append(wfs, Flow!New(t, <<>>, 0)) /\ recording' = Len(wfs) + 1 /\ UNCHANGED request
  BY DEF Flow!StartRecording
<1>3. wfs' \in Seq(FlowWorkflow) /\ FlowGrown(wfs, wfs') /\ recording' \in 0..Len(wfs')
  BY <1>1, <1>2, FlowAppended
<1>4. QED
  BY <1>2, <1>3, FlowStays

LEMMA FlowBeginStepStep == ASSUME FlowInv, NEW t \in Principals, Flow!BeginStep(t) PROVE FlowInv'
<1> DEFINE r == [Flow!Waiting EXCEPT !.at = "append"]
<1>1. r \in FlowRequests /\ r.at = "append" /\ r.log = <<>>
  BY FlowWaitingOK DEF FlowRequests
<1>2. request' = [request EXCEPT ![t] = r] /\ UNCHANGED <<wfs, recording>>
  BY DEF Flow!BeginStep
<1> HIDE DEF r
<1>3. FlowRequestOK(r, wfs')
  BY <1>1 DEF FlowRequestOK, FlowChained
<1>4. QED
  BY <1>1, <1>2, <1>3, FlowMoves, FlowGrownItself DEF FlowInv

LEMMA FlowAppendStepStep == ASSUME FlowInv, NEW t \in Principals, Flow!AppendStep(t) PROVE FlowInv'
<1>1. request' = [request EXCEPT ![t] = Flow!Waiting] /\ UNCHANGED recording
  BY DEF Flow!AppendStep
<1>2. wfs' \in Seq(FlowWorkflow) /\ FlowGrown(wfs, wfs') /\ recording \in 0..Len(wfs')
  <2>1. CASE recording = 0
    BY <2>1, FlowGrownItself DEF Flow!AppendStep, FlowInv
  <2>2. CASE recording # 0
    <3> DEFINE w == wfs[recording]
               new == [w EXCEPT !.steps = Append(w.steps, t)]
    <3>1. wfs \in Seq(FlowWorkflow) /\ recording \in 1..Len(wfs) /\ w \in FlowWorkflow /\ Len(wfs) \in Nat
      BY <2>2 DEF FlowInv
    <3>2. w.steps \in Seq(Principals \cup {Flow!Generator})
      BY <3>1 DEF FlowWorkflow
    <3>3. Append(w.steps, t) \in Seq(Principals \cup {Flow!Generator}) /\ Len(Append(w.steps, t)) = Len(w.steps) + 1
          /\ Len(w.steps) \in Nat
      BY <3>2
    <3>4. new \in FlowWorkflow /\ new.steps = Append(w.steps, t)
      BY <3>1, <3>3 DEF FlowWorkflow
    <3>5. wfs' = [wfs EXCEPT ![recording] = new]
      BY <2>2 DEF Flow!AppendStep
    <3> HIDE DEF new
    <3>6. wfs' \in Seq(FlowWorkflow) /\ Len(wfs') = Len(wfs) /\ wfs'[recording] = new
          /\ \A i \in 1..Len(wfs) : i # recording => wfs'[i] = wfs[i]
      BY <3>1, <3>4, <3>5
    <3>7. \A i \in 1..Len(wfs) : Len(wfs[i].steps) \in Nat
      BY <3>1 DEF FlowWorkflow
    <3>8. FlowGrown(wfs, wfs')
      BY <3>1, <3>3, <3>4, <3>6, <3>7 DEF FlowGrown
    <3>9. QED
      BY <3>1, <3>6, <3>8
  <2>3. QED
    BY <2>1, <2>2
<1>3. QED
  BY <1>1, <1>2, FlowWaitingOK, FlowMoves

LEMMA FlowStopRecordingStep == ASSUME FlowInv, NEW t \in Principals, Flow!StopRecording(t) PROVE FlowInv'
<1>1. recording' = 0 /\ UNCHANGED <<wfs, request>> /\ wfs \in Seq(FlowWorkflow)
  BY DEF Flow!StopRecording, FlowInv
<1>2. QED
  BY <1>1, FlowStays, FlowGrownItself

(* Generation, planning and the agent.                                      *)

LEMMA FlowGeneratedIs == ASSUME NEW p \in Flow!Plans PROVE Flow!Generated(p) \in FlowWorkflow
<1>1. p.length \in Nat /\ p.rollback \in Nat
  BY FlowAssumption DEF Flow!Plans
<1>2. [i \in 1..p.length |-> Flow!Generator] \in Seq(Principals \cup {Flow!Generator})
  BY <1>1
<1>3. QED
  BY <1>1, <1>2 DEF Flow!Generated, Flow!New, FlowWorkflow

LEMMA FlowGenerateStep == ASSUME FlowInv, NEW t \in Principals, NEW p \in Flow!Plans, Flow!Generate(t, p) PROVE FlowInv'
<1> DEFINE r == [Flow!Waiting EXCEPT !.at = "own", !.wf = Len(wfs) + 1]
<1>1. wfs' = Append(wfs, Flow!Generated(p)) /\ request' = [request EXCEPT ![t] = r] /\ UNCHANGED recording
  BY DEF Flow!Generate
<1>2. wfs' \in Seq(FlowWorkflow) /\ FlowGrown(wfs, wfs') /\ Len(wfs') = Len(wfs) + 1 /\ Len(wfs) \in Nat /\ recording' \in 0..Len(wfs')
  BY <1>1, FlowGeneratedIs, FlowAppended
<1>3. r \in FlowRequests /\ r.at = "own" /\ r.log = <<>> /\ r.wf = Len(wfs) + 1
  <2>1. PICK n \in Nat : n = Len(wfs) + 1
    BY <1>2
  <2>2. [Flow!Waiting EXCEPT !.at = "own", !.wf = n] \in FlowRequests /\ [Flow!Waiting EXCEPT !.at = "own", !.wf = n].log = <<>>
    BY FlowWaitingOK DEF FlowRequests
  <2>3. QED
    BY <2>1, <2>2 DEF Flow!Waiting
<1> HIDE DEF r
<1>4. FlowRequestOK(r, wfs')
  BY <1>2, <1>3 DEF FlowRequestOK, FlowChained
<1>5. QED
  BY <1>1, <1>2, <1>3, <1>4, FlowMoves

LEMMA FlowOwnStep == ASSUME FlowInv, NEW t \in Principals, Flow!Own(t) PROVE FlowInv'
<1> DEFINE i == request[t].wf
           new == [wfs[i] EXCEPT !.owner = t]
<1>1. wfs \in Seq(FlowWorkflow) /\ i \in 1..Len(wfs) /\ wfs[i] \in FlowWorkflow /\ Len(wfs) \in Nat /\ recording \in 0..Len(wfs)
  BY DEF Flow!Own, Flow!At, FlowInv, FlowRequestOK
<1>2. new \in FlowWorkflow /\ new.steps = wfs[i].steps
  BY <1>1 DEF FlowWorkflow
<1>3. wfs' = [wfs EXCEPT ![i] = new] /\ request' = [request EXCEPT ![t] = Flow!Waiting] /\ UNCHANGED recording
  BY DEF Flow!Own
<1> HIDE DEF new, i
<1>4. wfs' \in Seq(FlowWorkflow) /\ Len(wfs') = Len(wfs) /\ wfs'[i] = new
      /\ \A j \in 1..Len(wfs) : j # i => wfs'[j] = wfs[j]
  BY <1>1, <1>2, <1>3
<1>5. \A j \in 1..Len(wfs) : Len(wfs[j].steps) \in Nat
  BY <1>1 DEF FlowWorkflow
<1>6. FlowGrown(wfs, wfs')
  BY <1>1, <1>2, <1>4, <1>5 DEF FlowGrown
<1>7. QED
  BY <1>1, <1>3, <1>4, <1>6, FlowWaitingOK, FlowMoves

(* No plan of the generator may be acted on.                                *)
LEMMA FlowOnlyPlans == ASSUME NEW p \in Flow!Plans, NEW allowed PROVE ~Flow!MayAct(p, allowed)
BY DEF Flow!Plans, Flow!MayAct, Flow!NeedsConfirmation

LEMMA FlowRunAgentStep ==
  ASSUME FlowInv, NEW t \in Principals, NEW p \in Flow!Plans, NEW allowed \in BOOLEAN, Flow!RunAgent(t, p, allowed)
  PROVE  FlowInv'
<1>1. wfs' = Append(wfs, Flow!Generated(p)) /\ UNCHANGED <<request, recording>>
  BY FlowOnlyPlans DEF Flow!RunAgent
<1>2. wfs' \in Seq(FlowWorkflow) /\ FlowGrown(wfs, wfs') /\ recording' \in 0..Len(wfs')
  BY <1>1, FlowGeneratedIs, FlowAppended
<1>3. QED
  BY <1>1, <1>2, FlowStays

(* Replay.                                                                  *)

LEMMA FlowStartPlayStep == ASSUME FlowInv, NEW t \in Principals, NEW w \in DOMAIN wfs, Flow!StartPlay(t, w) PROVE FlowInv'
<1> DEFINE r == [Flow!Waiting EXCEPT !.at = "main", !.wf = w, !.had = Len(wfs[w].steps)]
<1>1. wfs \in Seq(FlowWorkflow) /\ w \in 1..Len(wfs) /\ wfs[w] \in FlowWorkflow /\ recording \in 0..Len(wfs)
  BY DEF FlowInv
<1>2. Len(wfs[w].steps) \in Nat
  BY <1>1 DEF FlowWorkflow
<1>3. r \in FlowRequests /\ r.at = "main" /\ r.log = <<>> /\ r.wf = w /\ r.had = Len(wfs[w].steps) /\ ~r.ok
  <2>1. PICK n \in Nat : n = Len(wfs[w].steps)
    BY <1>2
  <2>a. w \in Nat
    BY <1>1
  <2>2. [Flow!Waiting EXCEPT !.at = "main", !.wf = w, !.had = n] \in FlowRequests
        /\ [Flow!Waiting EXCEPT !.at = "main", !.wf = w, !.had = n].log = <<>>
    BY <2>a, FlowWaitingOK DEF FlowRequests
  <2>3. QED
    BY <2>1, <2>2 DEF Flow!Waiting
<1>4. request' = [request EXCEPT ![t] = r] /\ UNCHANGED <<wfs, recording>>
  BY DEF Flow!StartPlay
<1> HIDE DEF r
<1>5. FlowRequestOK(r, wfs)
  BY <1>1, <1>2, <1>3 DEF FlowRequestOK, FlowChained, FlowAllPlayed
<1>6. QED
  BY <1>1, <1>3, <1>4, <1>5, FlowMoves, FlowGrownItself

LEMMA FlowLongerLog ==
  ASSUME NEW log \in Seq(FlowEntries), NEW e \in FlowEntries
  PROVE  /\ Append(log, e) \in Seq(FlowEntries) /\ Append(log, e) # <<>>
         /\ Len(Append(log, e)) = Len(log) + 1 /\ Len(log) \in Nat
         /\ Append(log, e)[Len(log) + 1] = e
         /\ \A i \in 1..Len(log) : Append(log, e)[i] = log[i]
OBVIOUS

LEMMA FlowChainedLonger ==
  ASSUME NEW log \in Seq(FlowEntries), FlowChained(log), NEW e \in FlowEntries,
         IF log = <<>> THEN e.part = "main" /\ e.nr = 1 ELSE FlowFollows(log[Len(log)], e)
  PROVE  FlowChained(Append(log, e))
<1> DEFINE new == Append(log, e)
<1>1. /\ new \in Seq(FlowEntries) /\ Len(new) = Len(log) + 1 /\ Len(log) \in Nat /\ new[Len(log) + 1] = e
      /\ \A i \in 1..Len(log) : new[i] = log[i]
  BY FlowLongerLog
<1> HIDE DEF new
<1>2. CASE log = <<>>
  BY <1>1, <1>2 DEF FlowChained
<1>3. CASE log # <<>>
  <2>1. Len(log) >= 1 /\ new[1] = log[1]
    BY <1>1, <1>3
  <2>2. ASSUME NEW i \in 1 .. Len(new) - 1 PROVE FlowFollows(new[i], new[i + 1])
    <3>1. CASE i = Len(log)
      BY <1>1, <1>3, <2>1, <3>1
    <3>2. CASE i # Len(log)
      <4>1. i \in 1 .. Len(log) - 1 /\ new[i] = log[i] /\ new[i + 1] = log[i + 1]
        BY <1>1, <3>2
      <4>2. QED
        BY <4>1 DEF FlowChained
    <3>3. QED
      BY <3>1, <3>2
  <2>3. QED
    BY <1>3, <2>1, <2>2 DEF FlowChained
<1>4. QED
  BY <1>2, <1>3 DEF new

\* In the list so far, the position is the length of the log.
LEMMA FlowPositionIs ==
  ASSUME NEW log \in Seq(FlowEntries), FlowAllPlayed(log)
  PROVE  Flow!Position("main", log) = Len(log) /\ Len(log) \in Nat
<1>1. Len(log) \in Nat /\ (log # <<>> => Len(log) \in 1..Len(log))
  OBVIOUS
<1>2. CASE log = <<>>
  BY <1>2 DEF Flow!Position
<1>3. CASE log # <<>>
  <2>1. log[Len(log)] = [part |-> "main", nr |-> Len(log), answer |-> "ok"]
    BY <1>1, <1>3 DEF FlowAllPlayed
  <2>2. QED
    BY <1>1, <1>3, <2>1 DEF Flow!Position
<1>4. QED
  BY <1>1, <1>2, <1>3

LEMMA FlowStepStep ==
  ASSUME FlowInv, NEW t \in Principals, NEW phase \in {"main", "back"}, NEW answer \in Flow!Answers, Flow!Step(t, phase, answer)
  PROVE  FlowInv'
<1> DEFINE r == request[t]
           log == r.log
           e == [part |-> phase, nr |-> Flow!Position(phase, log) + 1, answer |-> answer]
           at == IF ~Flow!Stops(answer) THEN phase
                 ELSE IF phase = "main" /\ wfs[r.wf].rollback > 0 THEN "back" ELSE "done"
           new == [r EXCEPT !.log = Append(log, e), !.at = at]
<1>1. r \in FlowRequests /\ FlowRequestOK(r, wfs) /\ r.at = phase /\ log \in Seq(FlowEntries) /\ FlowChained(log) /\ Len(log) \in Nat
      /\ wfs \in Seq(FlowWorkflow) /\ recording \in 0..Len(wfs)
  BY DEF Flow!Step, Flow!At, FlowInv, FlowRequestOK, FlowRequests
<1>2. request' = [request EXCEPT ![t] = new] /\ UNCHANGED <<wfs, recording>>
  <2>1. request' = [request EXCEPT ![t] = new]
    BY DEF Flow!Step
  <2>2. UNCHANGED <<wfs, recording>>
    BY DEF Flow!Step
  <2>3. QED
    BY <2>1, <2>2
<1>3. e \in FlowEntries /\ e.part = phase /\ e.answer = answer
  <2>1. log # <<>> => log[Len(log)] \in FlowEntries
    BY <1>1
  <2>2. Flow!Position(phase, log) \in Nat
    BY <2>1 DEF Flow!Position, FlowEntries
  <2>3. QED
    BY <2>2 DEF FlowEntries
<1>4. at \in {"main", "back", "done"} /\ (at = "main" => phase = "main" /\ answer = "ok")
      /\ (at = "back" => (answer = "ok") = (phase = "back"))
  BY DEF Flow!Stops, Flow!Succeeded, Flow!Answers
<1>5. IF log = <<>> THEN e.part = "main" /\ e.nr = 1 ELSE FlowFollows(log[Len(log)], e)
  <2>1. CASE phase = "main"
    <3>1. FlowAllPlayed(log) /\ e.nr = Len(log) + 1
      BY <1>1, <2>1, FlowPositionIs DEF FlowRequestOK
    <3>2. log # <<>> => log[Len(log)] = [part |-> "main", nr |-> Len(log), answer |-> "ok"]
      BY <1>1, <3>1 DEF FlowAllPlayed
    <3>3. QED
      BY <1>1, <2>1, <3>1, <3>2 DEF FlowFollows
  <2>2. CASE phase = "back"
    <3>1. log # <<>> /\ (log[Len(log)].answer = "ok") = (log[Len(log)].part = "back") /\ log[Len(log)] \in FlowEntries
      BY <1>1, <2>2 DEF FlowRequestOK
    <3>2. QED
      BY <2>2, <3>1 DEF FlowFollows, Flow!Position, FlowEntries
  <2>3. QED
    BY <2>1, <2>2
<1>6. phase = "main" => e.nr = Len(log) + 1 /\ FlowAllPlayed(log)
  BY <1>1, FlowPositionIs DEF FlowRequestOK
<1> HIDE DEF e, at
<1>7. new \in FlowRequests /\ new.at = at /\ new.log = Append(log, e) /\ new.wf = r.wf /\ new.had = r.had /\ new.ok = r.ok
  BY <1>1, <1>3, <1>4, FlowLongerLog DEF FlowRequests
<1>8. FlowChained(Append(log, e))
  BY <1>1, <1>3, <1>5, FlowChainedLonger
<1>9. phase = "main" /\ answer = "ok" => FlowAllPlayed(Append(log, e))
  <2>1. /\ Len(Append(log, e)) = Len(log) + 1 /\ Append(log, e)[Len(log) + 1] = e
        /\ \A i \in 1..Len(log) : Append(log, e)[i] = log[i]
    BY <1>1, <1>3, FlowLongerLog
  <2>2. phase = "main" /\ answer = "ok" => e = [part |-> "main", nr |-> Len(log) + 1, answer |-> "ok"]
    BY <1>3, <1>6 DEF FlowEntries
  <2>3. ASSUME phase = "main", answer = "ok" PROVE FlowAllPlayed(Append(log, e))
    <3> DEFINE longer == Append(log, e)
    <3>1. Len(longer) = Len(log) + 1 /\ longer[Len(log) + 1] = e /\ \A i \in 1..Len(log) : longer[i] = log[i]
      BY <2>1
    <3> HIDE DEF longer
    <3>2. \A i \in 1..Len(longer) : longer[i] = [part |-> "main", nr |-> i, answer |-> "ok"]
      <4>1. \A i \in 1..Len(longer) : i \in 1..Len(log) \/ i = Len(log) + 1
        BY <1>1, <3>1
      <4>2. \A i \in 1..Len(log) : longer[i] = [part |-> "main", nr |-> i, answer |-> "ok"]
        BY <1>6, <2>3, <3>1 DEF FlowAllPlayed
      <4>3. longer[Len(log) + 1] = [part |-> "main", nr |-> Len(log) + 1, answer |-> "ok"]
        BY <2>2, <2>3, <3>1
      <4>4. QED
        BY <4>1, <4>2, <4>3
    <3>3. QED
      BY <3>2 DEF FlowAllPlayed, longer
  <2>4. QED
    BY <2>3
<1>10. Append(log, e) # <<>> /\ Append(log, e)[Len(Append(log, e))] = e
  BY <1>1, <1>3, FlowLongerLog
<1> HIDE DEF new
<1>11. FlowRequestOK(new, wfs)
  BY <1>1, <1>3, <1>4, <1>7, <1>8, <1>9, <1>10 DEF FlowRequestOK
<1>12. QED
  BY <1>1, <1>2, <1>7, <1>11, FlowMoves, FlowGrownItself

LEMMA FlowExhaustedStep ==
  ASSUME FlowInv, NEW t \in Principals, NEW phase \in {"main", "back"}, Flow!Exhausted(t, phase)
  PROVE  FlowInv'
<1> DEFINE r == request[t]
           new == [r EXCEPT !.at = "done", !.ok = (phase = "main")]
<1>1. r \in FlowRequests /\ FlowRequestOK(r, wfs) /\ r.at = phase /\ r.log \in Seq(FlowEntries)
      /\ wfs \in Seq(FlowWorkflow) /\ recording \in 0..Len(wfs)
  BY DEF Flow!Exhausted, Flow!At, FlowInv, FlowRequests
<1>2. request' = [request EXCEPT ![t] = new] /\ UNCHANGED <<wfs, recording>>
  BY DEF Flow!Exhausted
<1>3. phase = "main" => FlowAllPlayed(r.log) /\ Len(r.log) >= r.had
  BY <1>1, FlowPositionIs DEF Flow!Exhausted, FlowRequestOK
<1>4. new \in FlowRequests /\ new.at = "done" /\ new.ok = (phase = "main") /\ new.log = r.log /\ new.had = r.had
  BY <1>1 DEF FlowRequests
<1> HIDE DEF new
<1>5. FlowRequestOK(new, wfs)
  BY <1>1, <1>3, <1>4 DEF FlowRequestOK
<1>6. QED
  BY <1>1, <1>2, <1>4, <1>5, FlowMoves, FlowGrownItself

LEMMA FlowAnswerStep == ASSUME FlowInv, NEW t \in Principals, Flow!Answer(t) PROVE FlowInv'
<1>1. request' = [request EXCEPT ![t] = Flow!Waiting] /\ UNCHANGED <<wfs, recording>>
  BY DEF Flow!Answer
<1>2. QED
  BY <1>1, FlowWaitingOK, FlowMoves, FlowGrownItself DEF FlowInv


LEMMA FlowStep == ASSUME FlowInv, [Flow!Next]_(Flow!wfVars) PROVE FlowInv'
<1>1. CASE UNCHANGED Flow!wfVars
  BY <1>1 DEF Flow!wfVars, FlowInv
<1>2. ASSUME NEW t \in Principals, Flow!Revoke(t) PROVE FlowInv'
  BY <1>2 DEF Flow!Revoke, FlowInv
<1>3. QED
  BY <1>1, <1>2, FlowStartRecordingStep, FlowBeginStepStep, FlowAppendStepStep, FlowStopRecordingStep, FlowGenerateStep, FlowOwnStep,
     FlowRunAgentStep, FlowStartPlayStep, FlowStepStep, FlowExhaustedStep, FlowAnswerStep DEF Flow!Next

(* A replay says what it did and stops where it failed; what is listed may  *)
(* be played, and the agent only plans.                                     *)
LEMMA FlowIsSound == FlowInv => Flow!ReplaysAreSound
<1> SUFFICES ASSUME FlowInv PROVE Flow!ReplaysAreSound
  OBVIOUS
<1>1. \A t \in Principals : request[t] \in FlowRequests /\ FlowRequestOK(request[t], wfs) /\ request[t].log \in Seq(FlowEntries)
  BY DEF FlowInv, FlowRequests
<1>2. Flow!OkMeansPlayed
  BY <1>1 DEF Flow!OkMeansPlayed, Flow!At, FlowRequestOK, FlowAllPlayed
<1>3. Flow!FailureIsTheEnd
  BY <1>1 DEF Flow!FailureIsTheEnd, FlowRequestOK, FlowChained, FlowFollows
<1>4. Flow!ListedIsPlayable
  BY DEF Flow!ListedIsPlayable, Flow!Listed, Flow!Owns
<1>5. Flow!AgentOnlyPlans
  BY <1>1 DEF Flow!AgentOnlyPlans, Flow!At, FlowRequests
<1>6. QED
  BY <1>2, <1>3, <1>4, <1>5 DEF Flow!ReplaysAreSound

LEMMA FlowAlways == ActivitiesSpec => [](part = "workflows" => FlowInv)
<1> DEFINE Inv == part = "workflows" => FlowInv
<1>1. ActivitiesInit => Inv
  BY FlowStarts DEF ActivitiesInit
<1>2. Inv /\ [ActivitiesNext]_activityVars => Inv'
  <2>1. ASSUME [ActivitiesNext]_activityVars PROVE part' = part /\ (part = "workflows" => [Flow!Next]_(Flow!wfVars))
    BY <2>1 DEF ActivitiesNext, activityVars, flowVars, Flow!wfVars
  <2>2. QED
    BY <2>1, FlowStep
<1>3. QED
  BY <1>1, <1>2, PTL DEF ActivitiesSpec

(* A replay that answers ok has played every step there was, nothing is     *)
(* pressed after a failure but the rollback, a caller is shown what it may  *)
(* play, and the agent only plans (recorder.play, list_workflows and        *)
(* agent.gate).                                                             *)
THEOREM ReplaysAlwaysSound == ActivitiesSpec => []ReplaysAreSound
<1>1. (part = "workflows" => FlowInv) => ReplaysAreSound
  BY FlowIsSound DEF ReplaysAreSound
<1>2. QED
  BY <1>1, FlowAlways, PTL

-----------------------------------------------------------------------------
(* AI settings                                                              *)
-----------------------------------------------------------------------------
AiSettings == [remote : BOOLEAN, key : Nat, url : {Ai!Default, "custom"}]
AiLocked == {"write", "apply", "reset"}
AiPlaces == AiLocked \cup {"idle", "update", "sync", "client", "create", "bridge", "ensure", "send", "answer"}
AiCalls == [at : AiPlaces, kind : {"none", "put", "test", "plan", "reason"}, next : AiSettings, client : Nat]

(* The settings of the environment are settings, and no thread is nobody. *)
LEMMA AiEnvAssumption == EnvSettings \in AiSettings /\ Ai!Free \notin Workers
BY ActivitiesAssumption DEF AiSettings, Ai!Free, Ai!Default

\* A client c is the shared one cl, or one that is closed.
AiHolds(c, cl, gone) == c = cl \/ c \in gone
AiHolding(k, cl, gone) ==
    /\ k.at = "bridge" => k.kind # "test"
    /\ k.at \in {"bridge", "send"} /\ k.kind # "test" => k.client # 0 /\ AiHolds(k.client, cl, gone)

AiAgree(m, r, f) == f # 0 => m[r].key = m[f].key /\ m[r].remote = m[f].remote /\ m[r].url \in {m[f].url, Ai!Default}

(***************************************************************************)
(* Who writes, applies and resets has the lock of the settings; between    *)
(* the write and the end of it the file may be ahead, and between the new  *)
(* settings and the reset the client behind.  A client that somebody holds *)
(* is the shared one or is closed.                                         *)
(***************************************************************************)
AiInv ==
    /\ settings \in Seq(AiSettings) /\ runtime \in 1..Len(settings) /\ file \in 0..Len(settings)
    /\ client \in Nat /\ llm \in Nat /\ aiCall \in [Workers -> AiCalls] /\ late = FALSE
    /\ \A t \in Workers : aiCall[t].at \in AiLocked => settingsLock = t
    /\ \A t \in Workers : aiCall[t].at = "apply" => file # 0
    /\ (\A t \in Workers : aiCall[t].at # "apply") => AiAgree(settings, runtime, file)
    /\ (\A t \in Workers : aiCall[t].at # "reset") => client \in {0, runtime}
    /\ llm = 0 \/ AiHolds(llm, client, closed)
    /\ \A t \in Workers : AiHolding(aiCall[t], client, closed)

LEMMA AiReadyIs == Ai!Ready \in AiCalls /\ Ai!Ready.at = "idle" /\ Ai!Ready.kind = "none"
BY AiEnvAssumption DEF Ai!Ready, AiCalls, AiPlaces

LEMMA AiStarts == Ai!Init => AiInv
<1> SUFFICES ASSUME Ai!Init PROVE AiInv
  OBVIOUS
<1>1. settings \in Seq(AiSettings) /\ Len(settings) = 1
  BY AiEnvAssumption DEF Ai!Init
<1>2. QED
  BY <1>1, AiReadyIs DEF Ai!Init, AiInv, AiLocked, AiAgree, AiHolding

(* A step of a thread that has not the lock of the settings.                *)
LEMMA AiMoving ==
  ASSUME AiInv, NEW t \in Workers, NEW new \in AiCalls, aiCall' = [aiCall EXCEPT ![t] = new],
         aiCall[t].at \notin AiLocked, new.at \notin AiLocked,
         UNCHANGED <<settings, runtime, file, closed, settingsLock>>, late' = FALSE,
         client' = client \/ (client = 0 /\ client' = runtime),
         llm' \in Nat, llm' \in {0, llm} \/ AiHolds(llm', client', closed),
         AiHolding(new, client', closed)
  PROVE  AiInv'
<1>1. aiCall' \in [Workers -> AiCalls] /\ aiCall'[t] = new /\ \A u \in Workers \ {t} : aiCall'[u] = aiCall[u]
  BY DEF AiInv
<1>2. client' \in Nat /\ runtime # 0
  BY DEF AiInv
<1>3. \A u \in Workers : aiCall'[u].at \in AiLocked => settingsLock' = u
  BY <1>1 DEF AiInv
<1>4. (\A u \in Workers : aiCall'[u].at # "apply") => AiAgree(settings', runtime', file')
  <2>1. (\A u \in Workers : aiCall'[u].at # "apply") => (\A u \in Workers : aiCall[u].at # "apply")
    BY <1>1 DEF AiLocked
  <2>2. QED
    BY <2>1 DEF AiInv
<1>5. (\A u \in Workers : aiCall'[u].at # "reset") => client' \in {0, runtime'}
  <2>1. (\A u \in Workers : aiCall'[u].at # "reset") => (\A u \in Workers : aiCall[u].at # "reset")
    BY <1>1 DEF AiLocked
  <2>2. QED
    BY <2>1 DEF AiInv
<1>6. llm' = 0 \/ AiHolds(llm', client', closed')
  BY <1>2 DEF AiInv, AiHolds
<1>7. ASSUME NEW u \in Workers PROVE AiHolding(aiCall'[u], client', closed')
  <2>1. CASE u = t
    BY <1>1, <2>1
  <2>2. CASE u # t
    BY <1>1, <2>2 DEF AiInv, AiHolding, AiHolds
  <2>3. QED
    BY <2>1, <2>2
<1>8. \A u \in Workers : aiCall'[u].at = "apply" => file' # 0
  BY <1>1 DEF AiInv, AiLocked
<1>9. QED
  BY <1>1, <1>2, <1>3, <1>4, <1>5, <1>6, <1>7, <1>8 DEF AiInv

\* [call EXCEPT ![t].at = place] as a whole.
LEMMA AiGoing ==
  ASSUME AiInv, NEW t \in Workers, NEW place \in AiPlaces, Ai!Goto(t, place)
  PROVE  LET new == [aiCall[t] EXCEPT !.at = place]
         IN /\ aiCall' = [aiCall EXCEPT ![t] = new] /\ new \in AiCalls /\ new.at = place
            /\ new.kind = aiCall[t].kind /\ new.client = aiCall[t].client /\ new.next = aiCall[t].next
BY DEF AiInv, Ai!Goto, AiCalls

LEMMA AiBeginStep ==
  ASSUME AiInv, NEW t \in Workers, NEW kind \in {"put", "test", "plan", "reason"},
         NEW place \in {"update", "client", "sync", "ensure"}, Ai!Begin(t, kind, place)
  PROVE  AiInv'
<1> DEFINE new == [Ai!Ready EXCEPT !.kind = kind, !.at = place]
<1>1. new \in AiCalls /\ new.at = place
  BY AiReadyIs DEF AiCalls, AiPlaces
<1>2. /\ aiCall' = [aiCall EXCEPT ![t] = new] /\ aiCall[t].at = "idle"
      /\ UNCHANGED <<settings, runtime, file, client, llm, closed, settingsLock, late>>
  BY DEF Ai!Begin, Ai!At
<1> HIDE DEF new
<1>3. AiHolding(new, client', closed)
  BY <1>1 DEF AiHolding
<1>4. QED
  BY <1>1, <1>2, <1>3, AiMoving DEF AiInv, AiLocked

LEMMA AiChangeIs ==
  ASSUME AiInv, NEW remote \in BOOLEAN, NEW key \in {"keep", "clear", "new"}, NEW url \in {"keep", Ai!Default, "custom"}
  PROVE  Ai!Change(settings[runtime], remote, key, url) \in AiSettings
<1>1. settings[runtime] \in AiSettings /\ Len(settings) \in Nat
  BY DEF AiInv
<1>2. settings[runtime].key \in Nat /\ settings[runtime].url \in {Ai!Default, "custom"} /\ Len(settings) + 1 \in Nat
  BY <1>1 DEF AiSettings
<1>3. Ai!Change(settings[runtime], remote, key, url).key \in Nat
  BY <1>2 DEF Ai!Change, Ai!NoKey
<1>4. QED
  BY <1>2, <1>3 DEF Ai!Change, AiSettings, Ai!Default

LEMMA AiUpdateStep ==
  ASSUME AiInv, NEW t \in Workers, NEW remote \in BOOLEAN, NEW key \in {"keep", "clear", "new"},
         NEW url \in {"keep", Ai!Default, "custom"}, NEW valid \in BOOLEAN, Ai!Update(t, remote, key, url, valid)
  PROVE  AiInv'
<1> DEFINE s == Ai!Change(settings[runtime], remote, key, url)
<1>1. /\ aiCall[t].at = "update" /\ settingsLock = Ai!Free
      /\ UNCHANGED <<settings, runtime, file, client, llm, closed, late>>
  BY DEF Ai!Update, Ai!At
<1>2. s \in AiSettings
  BY AiChangeIs
<1> HIDE DEF s
<1>3. CASE ~valid
  <2>1. settingsLock' = settingsLock /\ Ai!Goto(t, "answer")
    BY <1>1, <1>3 DEF Ai!Update, Ai!Goto, AiInv
  <2> DEFINE new == [aiCall[t] EXCEPT !.at = "answer"]
  <2>2. aiCall' = [aiCall EXCEPT ![t] = new] /\ new \in AiCalls /\ new.at = "answer"
    BY <2>1, AiGoing DEF AiPlaces
  <2> HIDE DEF new
  <2>3. AiHolding(new, client', closed)
    BY <2>2 DEF AiHolding
  <2>4. QED
    BY <1>1, <2>1, <2>2, <2>3, AiMoving DEF AiInv, AiLocked
<1>4. CASE valid
  <2> DEFINE new == [aiCall[t] EXCEPT !.at = "write", !.next = s]
  <2>1. settingsLock' = t /\ aiCall' = [aiCall EXCEPT ![t] = new]
    BY <1>4 DEF Ai!Update, s
  <2>2. new \in AiCalls /\ new.at = "write"
    BY <1>2 DEF AiInv, AiCalls, AiPlaces, AiLocked
  <2> HIDE DEF new
  <2>3. aiCall' \in [Workers -> AiCalls] /\ aiCall'[t] = new /\ \A u \in Workers \ {t} : aiCall'[u] = aiCall[u]
    BY <2>1, <2>2 DEF AiInv
  <2>4. \A u \in Workers : aiCall[u].at \notin AiLocked
    BY <1>1, AiEnvAssumption DEF AiInv
  <2>5. AiAgree(settings, runtime, file) /\ client \in {0, runtime}
    BY <2>4 DEF AiInv, AiLocked
  <2>6. \A u \in Workers : AiHolding(aiCall'[u], client', closed')
    BY <1>1, <2>2, <2>3 DEF AiInv, AiHolding
  <2>7. \A u \in Workers : aiCall'[u].at \in AiLocked => settingsLock' = u
    BY <2>1, <2>3, <2>4
  <2>8. \A u \in Workers : aiCall'[u].at # "apply"
    BY <2>2, <2>3, <2>4 DEF AiLocked
  <2>9. QED
    BY <1>1, <2>3, <2>5, <2>6, <2>7, <2>8 DEF AiInv
<1>5. QED
  BY <1>3, <1>4

(* A step of the thread that has the lock of the settings.                  *)
LEMMA AiHolder ==
  ASSUME AiInv, NEW t \in Workers, aiCall[t].at \in AiLocked
  PROVE  \A u \in Workers \ {t} : aiCall[u].at \notin AiLocked
BY DEF AiInv

LEMMA AiWriteFailsStep ==
  ASSUME AiInv, NEW t \in Workers, Ai!WriteFails(t)
  PROVE  AiInv'
<1> DEFINE new == [aiCall[t] EXCEPT !.at = "answer"]
<1>1. /\ aiCall[t].at = "write" /\ UNCHANGED <<settings, runtime, file, client, llm, closed, late>> /\ Ai!Goto(t, "answer")
  BY DEF Ai!WriteFails, Ai!Applied, Ai!At
<1>2. aiCall' = [aiCall EXCEPT ![t] = new] /\ new \in AiCalls /\ new.at = "answer"
  BY <1>1, AiGoing DEF AiPlaces
<1> HIDE DEF new
<1>3. aiCall' \in [Workers -> AiCalls] /\ aiCall'[t] = new /\ \A u \in Workers \ {t} : aiCall'[u] = aiCall[u]
  BY <1>2 DEF AiInv
<1>4. \A u \in Workers \ {t} : aiCall[u].at \notin AiLocked
  BY <1>1, AiHolder DEF AiLocked
<1>5. \A u \in Workers : aiCall[u].at # "apply" /\ aiCall[u].at # "reset" /\ aiCall'[u].at \notin AiLocked /\ aiCall'[u].at # "apply"
  BY <1>1, <1>2, <1>3, <1>4 DEF AiLocked
<1>6. \A u \in Workers : AiHolding(aiCall'[u], client', closed')
  BY <1>1, <1>2, <1>3 DEF AiInv, AiHolding
<1>7. QED
  BY <1>1, <1>3, <1>5, <1>6 DEF AiInv

LEMMA AiAppended ==
  ASSUME AiInv, NEW s \in AiSettings, settings' = Append(settings, s)
  PROVE  /\ settings' \in Seq(AiSettings) /\ Len(settings') = Len(settings) + 1 /\ Len(settings) \in Nat /\ settings'[Len(settings) + 1] = s
         /\ \A i \in 1..Len(settings) : settings'[i] = settings[i]
BY DEF AiInv

LEMMA AiWriteStep ==
  ASSUME AiInv, NEW t \in Workers, Ai!Write(t)
  PROVE  AiInv'
<1> DEFINE new == [aiCall[t] EXCEPT !.at = "apply"]
<1>1. /\ aiCall[t].at = "write" /\ UNCHANGED <<runtime, client, llm, closed, settingsLock, late>> /\ Ai!Goto(t, "apply")
      /\ settings' = Append(settings, aiCall[t].next) /\ file' = Len(settings') /\ aiCall[t].next \in AiSettings
  BY DEF Ai!Write, Ai!At, AiInv, AiCalls
<1>2. aiCall' = [aiCall EXCEPT ![t] = new] /\ new \in AiCalls /\ new.at = "apply"
  BY <1>1, AiGoing DEF AiPlaces, AiLocked
<1> HIDE DEF new
<1>3. aiCall' \in [Workers -> AiCalls] /\ aiCall'[t] = new /\ \A u \in Workers \ {t} : aiCall'[u] = aiCall[u]
  BY <1>2 DEF AiInv
<1>4. settings' \in Seq(AiSettings) /\ runtime' \in 1..Len(settings') /\ file' \in 0..Len(settings')
  BY <1>1, AiAppended DEF AiInv
<1>5. ~(\A u \in Workers : aiCall'[u].at # "apply")
  BY <1>2, <1>3
<1>6. (\A u \in Workers : aiCall[u].at # "reset")
  BY <1>1, AiHolder DEF AiLocked
<1>7. \A u \in Workers : aiCall'[u].at \in AiLocked => settingsLock' = u
  BY <1>1, <1>3 DEF AiInv, AiLocked
<1>8. \A u \in Workers : AiHolding(aiCall'[u], client', closed')
  BY <1>1, <1>2, <1>3 DEF AiInv, AiHolding
<1>9. QED
  BY <1>1, <1>3, <1>4, <1>5, <1>6, <1>7, <1>8 DEF AiInv

LEMMA AiApplyStep ==
  ASSUME AiInv, NEW t \in Workers, Ai!Apply(t)
  PROVE  AiInv'
<1> DEFINE new == [aiCall[t] EXCEPT !.at = "reset"]
<1>1. /\ aiCall[t].at = "apply" /\ UNCHANGED <<settings, file, client, llm, closed, settingsLock, late>> /\ Ai!Goto(t, "reset")
      /\ runtime' = file
  BY DEF Ai!Apply, Ai!At
<1>2. aiCall' = [aiCall EXCEPT ![t] = new] /\ new \in AiCalls /\ new.at = "reset"
  BY <1>1, AiGoing DEF AiPlaces, AiLocked
<1> HIDE DEF new
<1>3. aiCall' \in [Workers -> AiCalls] /\ aiCall'[t] = new /\ \A u \in Workers \ {t} : aiCall'[u] = aiCall[u]
  BY <1>2 DEF AiInv
<1>4. file # 0 /\ runtime' \in 1..Len(settings') /\ AiAgree(settings', runtime', file')
  BY <1>1 DEF AiInv, AiAgree
<1>5. ~(\A u \in Workers : aiCall'[u].at # "reset")
  BY <1>2, <1>3
<1>6. \A u \in Workers : aiCall'[u].at \in AiLocked => settingsLock' = u
  BY <1>1, <1>3 DEF AiInv, AiLocked
<1>7. \A u \in Workers : AiHolding(aiCall'[u], client', closed')
  BY <1>1, <1>2, <1>3 DEF AiInv, AiHolding
<1>8. QED
  BY <1>1, <1>3, <1>4, <1>5, <1>6, <1>7 DEF AiInv

LEMMA AiResetStep ==
  ASSUME AiInv, NEW t \in Workers, Ai!Reset(t)
  PROVE  AiInv'
<1> DEFINE new == [Ai!Ready EXCEPT !.kind = "put", !.at = "sync"]
<1>1. /\ aiCall[t].at = "reset" /\ UNCHANGED <<settings, runtime, file, llm, late>>
      /\ closed' = closed \cup ({client} \ {0}) /\ client' = 0 /\ aiCall' = [aiCall EXCEPT ![t] = new]
  BY DEF Ai!Reset, Ai!Closing, Ai!At
<1>2. new \in AiCalls /\ new.at = "sync"
  BY AiReadyIs DEF AiCalls, AiPlaces
<1> HIDE DEF new
<1>3. aiCall' \in [Workers -> AiCalls] /\ aiCall'[t] = new /\ \A u \in Workers \ {t} : aiCall'[u] = aiCall[u]
  BY <1>1, <1>2 DEF AiInv
<1>4. \A u \in Workers \ {t} : aiCall[u].at \notin AiLocked
  BY <1>1, AiHolder DEF AiLocked
<1>5. \A u \in Workers : aiCall[u].at # "apply" /\ aiCall'[u].at \notin AiLocked /\ aiCall'[u].at # "apply"
  BY <1>1, <1>2, <1>3, <1>4 DEF AiLocked
<1>6. \A u \in Workers : AiHolding(aiCall'[u], client', closed')
  BY <1>1, <1>2, <1>3 DEF AiInv, AiHolding, AiHolds
<1>7. llm' = 0 \/ AiHolds(llm', client', closed')
  BY <1>1 DEF AiInv, AiHolds
<1>8. QED
  BY <1>1, <1>3, <1>5, <1>6, <1>7 DEF AiInv

LEMMA AiLookAtSettingsStep ==
  ASSUME AiInv, NEW t \in Workers, Ai!LookAtSettings(t)
  PROVE  AiInv'
<1>1. /\ aiCall[t].at = "sync" /\ UNCHANGED <<settings, runtime, file, client, closed, settingsLock, late>>
      /\ llm' \in {0, llm} /\ llm' \in Nat
      /\ \E place \in {"client", "answer"} : Ai!Goto(t, place)
  BY DEF Ai!LookAtSettings, Ai!At, AiInv
<1>2. PICK place \in {"client", "answer"} : Ai!Goto(t, place)
  BY <1>1
<1> DEFINE new == [aiCall[t] EXCEPT !.at = place]
<1>3. aiCall' = [aiCall EXCEPT ![t] = new] /\ new \in AiCalls /\ new.at = place
  BY <1>2, AiGoing DEF AiPlaces
<1> HIDE DEF new
<1>4. AiHolding(new, client', closed)
  BY <1>3 DEF AiHolding
<1>5. QED
  BY <1>1, <1>3, <1>4, AiMoving DEF AiLocked, AiInv

LEMMA AiTakeClientLockStep ==
  ASSUME AiInv, NEW t \in Workers, Ai!TakeClientLock(t)
  PROVE  AiInv'
<1> DEFINE new == [aiCall[t] EXCEPT !.at = "create"]
<1>1. /\ aiCall[t].at = "client" /\ UNCHANGED <<settings, runtime, file, client, llm, closed, settingsLock, late>>
      /\ Ai!Goto(t, "create")
  BY DEF Ai!TakeClientLock, Ai!At
<1>2. aiCall' = [aiCall EXCEPT ![t] = new] /\ new \in AiCalls /\ new.at = "create"
  BY <1>1, AiGoing DEF AiPlaces
<1> HIDE DEF new
<1>3. AiHolding(new, client', closed)
  BY <1>2 DEF AiHolding
<1>4. QED
  BY <1>1, <1>2, <1>3, AiMoving DEF AiLocked, AiInv

LEMMA AiGetClientStep ==
  ASSUME AiInv, NEW t \in Workers, Ai!GetClient(t)
  PROVE  AiInv'
<1> DEFINE shared == aiCall[t].kind # "test"
           c == IF shared THEN Ai!Current ELSE runtime
           place == CASE aiCall[t].kind = "put" -> "bridge"
                      [] aiCall[t].kind = "reason" -> "bridge"
                      [] OTHER -> "send"
           new == [aiCall[t] EXCEPT !.at = place, !.client = c]
<1>1. /\ aiCall[t].at = "create" /\ UNCHANGED <<settings, runtime, file, llm, closed, settingsLock, late>>
      /\ client' = IF shared THEN c ELSE client
  BY DEF Ai!GetClient, Ai!At
<1>2. aiCall' = [aiCall EXCEPT ![t] = new]
  BY DEF Ai!GetClient, AiInv
<1>3. runtime \in Nat /\ runtime # 0 /\ client \in Nat /\ llm \in Nat /\ late = FALSE /\ aiCall[t] \in AiCalls
  BY DEF AiInv
<1>4. c \in Nat /\ c # 0
  BY <1>3 DEF Ai!Current
<1>5. place \in {"bridge", "send"} /\ (place = "bridge" => shared)
  OBVIOUS
<1>6. client' = client \/ (client = 0 /\ client' = runtime)
  BY <1>1 DEF Ai!Current
<1> HIDE DEF place
<1>7. shared => client' = c
  BY <1>1
<1> HIDE DEF c
<1>8. new \in AiCalls /\ new.at = place /\ new.kind = aiCall[t].kind /\ new.client = c
  BY <1>3, <1>4, <1>5 DEF AiCalls, AiPlaces
<1> HIDE DEF new
<1>9. AiHolding(new, client', closed)
  BY <1>4, <1>5, <1>7, <1>8 DEF AiHolding, AiHolds
<1>10. QED
  BY <1>1, <1>2, <1>3, <1>5, <1>6, <1>8, <1>9, AiMoving DEF AiLocked

LEMMA AiBridgeStep ==
  ASSUME AiInv, NEW t \in Workers, Ai!Bridge(t)
  PROVE  AiInv'
<1>1. /\ aiCall[t].at = "bridge" /\ UNCHANGED <<settings, runtime, file, client, closed, settingsLock, late>>
      /\ llm' = aiCall[t].client /\ llm' \in Nat
      /\ \E place \in {"send", "answer"} : Ai!Goto(t, place)
  BY DEF Ai!Bridge, Ai!At, AiInv, AiCalls
<1>2. PICK place \in {"send", "answer"} : Ai!Goto(t, place)
  BY <1>1
<1> DEFINE new == [aiCall[t] EXCEPT !.at = place]
<1>3. aiCall' = [aiCall EXCEPT ![t] = new] /\ new \in AiCalls /\ new.at = place
      /\ new.kind = aiCall[t].kind /\ new.client = aiCall[t].client
  BY <1>2, AiGoing DEF AiPlaces
<1>4. AiHolding(aiCall[t], client, closed)
  BY DEF AiInv
<1> HIDE DEF new
<1>5. AiHolding(new, client', closed) /\ AiHolds(llm', client', closed)
  BY <1>1, <1>3, <1>4 DEF AiHolding
<1>6. QED
  BY <1>1, <1>3, <1>5, AiMoving DEF AiLocked, AiInv

LEMMA AiEnsureLlmStep ==
  ASSUME AiInv, NEW t \in Workers, Ai!EnsureLlm(t)
  PROVE  AiInv'
<1> DEFINE place == IF llm = 0 THEN "sync" ELSE "send"
           new == [aiCall[t] EXCEPT !.at = place, !.client = llm]
<1>1. /\ aiCall[t].at = "ensure" /\ UNCHANGED <<settings, runtime, file, client, llm, closed, settingsLock, late>>
      /\ aiCall' = [aiCall EXCEPT ![t] = new]
  BY DEF Ai!EnsureLlm, Ai!At, AiInv
<1>2. llm \in Nat /\ (llm = 0 \/ AiHolds(llm, client, closed))
  BY DEF AiInv
<1>3. place \in AiPlaces /\ (place # "sync" => llm # 0 /\ place = "send")
  BY DEF AiPlaces
<1> HIDE DEF place
<1>4. new \in AiCalls /\ new.at = place /\ new.kind = aiCall[t].kind /\ new.client = llm
  BY <1>2, <1>3 DEF AiCalls, AiInv
<1> HIDE DEF new
<1>5. AiHolding(new, client', closed)
  BY <1>1, <1>2, <1>3, <1>4 DEF AiHolding
<1>6. QED
  BY <1>1, <1>3, <1>4, <1>5, AiMoving DEF AiLocked, AiInv

LEMMA AiSendStep ==
  ASSUME AiInv, NEW t \in Workers, Ai!Send(t)
  PROVE  AiInv'
<1> DEFINE new == [aiCall[t] EXCEPT !.at = "answer"]
<1>1. /\ aiCall[t].at = "send" /\ UNCHANGED <<settings, runtime, file, client, llm, closed, settingsLock>>
      /\ Ai!Goto(t, "answer")
  BY DEF Ai!Send, Ai!At
<1>2. aiCall' = [aiCall EXCEPT ![t] = new] /\ new \in AiCalls /\ new.at = "answer"
  BY <1>1, AiGoing DEF AiPlaces
<1>3. aiCall[t].kind # "test" /\ Ai!Open(t) /\ settingsLock = Ai!Free => aiCall[t].client = runtime
  <2> SUFFICES ASSUME aiCall[t].kind # "test", Ai!Open(t), settingsLock = Ai!Free PROVE aiCall[t].client = runtime
    OBVIOUS
  <2>1. aiCall[t].client # 0 /\ aiCall[t].client = client
    BY <1>1 DEF AiInv, AiHolding, AiHolds, Ai!Open
  <2>2. \A u \in Workers : aiCall[u].at # "reset"
    BY AiEnvAssumption DEF AiInv, AiLocked
  <2>3. QED
    BY <2>1, <2>2 DEF AiInv
<1>4. late' = FALSE
  <2>1. late = FALSE
    BY DEF AiInv
  <2>2. late' = (late \/ (/\ aiCall[t].kind # "test" /\ Ai!Open(t)
                          /\ aiCall[t].client # runtime /\ settingsLock = Ai!Free))
    BY DEF Ai!Send
  <2>3. QED
    BY <1>3, <2>1, <2>2
<1> HIDE DEF new
<1>5. AiHolding(new, client', closed)
  BY <1>2 DEF AiHolding
<1>6. QED
  BY <1>1, <1>2, <1>4, <1>5, AiMoving DEF AiLocked, AiInv

LEMMA AiAnswerStep ==
  ASSUME AiInv, NEW t \in Workers, Ai!Answer(t)
  PROVE  AiInv'
<1>1. /\ aiCall[t].at = "answer" /\ UNCHANGED <<settings, runtime, file, client, llm, closed, settingsLock, late>>
      /\ aiCall' = [aiCall EXCEPT ![t] = Ai!Ready]
  BY DEF Ai!Answer, Ai!At
<1>2. AiHolding(Ai!Ready, client', closed)
  BY AiReadyIs DEF AiHolding
<1>3. QED
  BY <1>1, <1>2, AiReadyIs, AiMoving DEF AiLocked, AiInv

LEMMA AiRestartStep ==
  ASSUME AiInv, NEW resolves \in BOOLEAN, Ai!Restart(resolves)
  PROVE  AiInv'
<1> DEFINE s == IF file = 0 THEN EnvSettings ELSE Ai!Merged(settings[file], resolves)
<1>1. /\ settings' = Append(settings, s) /\ runtime' = Len(settings) + 1 /\ client' \in {0, runtime'} /\ llm' = client'
      /\ aiCall' = [t \in Workers |-> Ai!Ready] /\ UNCHANGED <<file, late>>
  BY DEF Ai!Restart
<1>2. file # 0 => settings[file] \in AiSettings /\ file \in 1..Len(settings)
  BY DEF AiInv
<1>3. s \in AiSettings
  BY <1>2, AiEnvAssumption DEF Ai!Merged, AiSettings
<1>4. file # 0 => s.key = settings[file].key /\ s.remote = settings[file].remote /\ s.url \in {settings[file].url, Ai!Default}
  BY <1>2 DEF Ai!Merged, AiSettings
<1> HIDE DEF s
<1>5. /\ settings' \in Seq(AiSettings) /\ Len(settings') = Len(settings) + 1 /\ Len(settings) \in Nat /\ settings'[Len(settings) + 1] = s
      /\ \A i \in 1..Len(settings) : settings'[i] = settings[i]
  BY <1>1, <1>3, AiAppended
<1>6. AiAgree(settings', runtime', file')
  BY <1>1, <1>2, <1>4, <1>5 DEF AiAgree
<1>7. runtime' \in 1..Len(settings') /\ file' \in 0..Len(settings') /\ runtime' \in Nat
  BY <1>1, <1>5 DEF AiInv
<1>8. client' \in Nat /\ llm' \in Nat
  BY <1>1, <1>7
<1>9. aiCall' \in [Workers -> AiCalls] /\ \A t \in Workers : aiCall'[t].at = "idle"
  BY <1>1, AiReadyIs
<1>10. \A t \in Workers : AiHolding(aiCall'[t], client', closed') /\ aiCall'[t].at \notin AiLocked
  BY <1>9 DEF AiHolding, AiLocked
<1>11. QED
  BY <1>1, <1>5, <1>6, <1>7, <1>8, <1>9, <1>10 DEF AiInv, AiHolds

LEMMA AiStep == AiInv /\ [Ai!Next]_(Ai!aiVars) => AiInv'
<1> SUFFICES ASSUME AiInv, [Ai!Next]_(Ai!aiVars) PROVE AiInv'
  OBVIOUS
<1>1. \A v \in Ai!Verdicts : v \in BOOLEAN
  BY DEF Ai!Verdicts, Ai!Usable
<1>2. ASSUME NEW t \in Workers, Ai!Begin(t, "put", "update") \/ Ai!Begin(t, "test", "client")
                                  \/ Ai!Begin(t, "plan", "sync") \/ Ai!Begin(t, "reason", "ensure")
      PROVE  AiInv'
  BY <1>2, AiBeginStep
<1>3. ASSUME NEW t \in Workers, NEW remote \in BOOLEAN, NEW valid \in Ai!Verdicts,
             NEW key \in {"keep", "clear", "new"}, NEW url \in {"keep", Ai!Default, "custom"},
             Ai!Update(t, remote, key, url, valid)
      PROVE  AiInv'
  BY <1>1, <1>3, AiUpdateStep
<1>4. ASSUME NEW resolves \in Ai!Verdicts, Ai!Restart(resolves) PROVE AiInv'
  BY <1>1, <1>4, AiRestartStep
<1>5. CASE UNCHANGED Ai!aiVars
  BY <1>5 DEF Ai!aiVars, AiInv
<1>6. QED
  BY <1>2, <1>3, <1>4, <1>5, AiWriteFailsStep, AiWriteStep, AiApplyStep, AiResetStep, AiLookAtSettingsStep,
     AiTakeClientLockStep, AiGetClientStep, AiBridgeStep, AiEnsureLlmStep, AiSendStep, AiAnswerStep DEF Ai!Next

LEMMA AiIsSound == AiInv => Ai!SettingsAreFaithful
<1> SUFFICES ASSUME AiInv PROVE Ai!SettingsAreFaithful
  OBVIOUS
<1>1. ASSUME settingsLock = Ai!Free, file # 0 PROVE AiAgree(settings, runtime, file)
  <2>1. \A u \in Workers : aiCall[u].at # "apply"
    BY <1>1, AiEnvAssumption DEF AiInv, AiLocked
  <2>2. QED
    BY <2>1 DEF AiInv
<1>2. Ai!FileIsRuntime
  BY <1>1 DEF Ai!FileIsRuntime, AiAgree
<1>3. QED
  BY <1>2 DEF Ai!SettingsAreFaithful, Ai!OldSettingsAreSilent, AiInv

LEMMA AiAlways == ActivitiesSpec => [](part = "ai" => AiInv)
<1> DEFINE Inv == part = "ai" => AiInv
<1>1. ActivitiesInit => Inv
  BY AiStarts DEF ActivitiesInit
<1>2. Inv /\ [ActivitiesNext]_activityVars => Inv'
  <2>1. ASSUME [ActivitiesNext]_activityVars PROVE part' = part /\ (part = "ai" => [Ai!Next]_(Ai!aiVars))
    BY <2>1 DEF ActivitiesNext, activityVars, aiVars, Ai!aiVars
  <2>2. QED
    BY <2>1, AiStep
<1>3. QED
  BY <1>1, <1>2, PTL DEF ActivitiesSpec

(* While nobody changes the settings, the file says what is in force, and   *)
(* once a change is done nothing is sent with what it replaced              *)
(* (ai.settings.SettingsStore and ai.service).                              *)
THEOREM SettingsAlwaysFaithful == ActivitiesSpec => []SettingsAreFaithful
<1>1. (part = "ai" => AiInv) => SettingsAreFaithful
  BY AiIsSound DEF SettingsAreFaithful
<1>2. QED
  BY <1>1, AiAlways, PTL

-----------------------------------------------------------------------------
(* Exposure                                                                 *)
-----------------------------------------------------------------------------
(* Records are finitely many, and statuses are ranked.                      *)
LEMMA ViewAssumption == IsFiniteSet(Apis) /\ Given \subseteq View!Statuses /\ "action" \notin Apis
BY ActivitiesAssumption DEF View!Statuses, View!Rank

ViewMarks == View!Statuses \cup {View!Missing}
ViewShown(k) == known[k] \in {View!None, snapshot[k]} \/ k \in told
ViewHeld == ran.record = "action" => ran.others \subseteq {"PARTIAL", "VERIFIED"}

\* The lists of a session are compared at every request, and no action runs
\* while a record of it is withheld.
ViewInv ==
    /\ home \in {"server", "own"}
    /\ recs \in [{"server", "mcp"} -> [Apis -> ViewMarks]] /\ store \in [Apis -> ViewMarks]
    /\ known = [k \in View!Kinds |-> known[k]] /\ snapshot = [k \in View!Kinds |-> snapshot[k]]
    /\ \A k \in View!Kinds : ViewShown(k)
    /\ ViewHeld

LEMMA ViewStatusesAre == View!Statuses = {"DISABLED", "ERROR", "RESTRICTED", "UNSUPPORTED", "PARTIAL", "VERIFIED"}
BY DEF View!Statuses, View!Rank

LEMMA ViewRankIs ==
  ASSUME NEW s \in View!Statuses
  PROVE  View!Rank[s] \in 0..5 /\ (View!Rank[s] >= 4 <=> s \in {"PARTIAL", "VERIFIED"})
BY ViewStatusesAre DEF View!Rank

\* Some element has the least of six ranks.
LEMMA ViewLeastRank ==
  ASSUME NEW S, S # {}, NEW f, \A a \in S : f[a] \in 0..5
  PROVE  \E a \in S : \A b \in S : f[a] <= f[b]
<1>1. \A a \in S : f[a] \in {0, 1, 2, 3, 4, 5}
  OBVIOUS
<1>2. CASE \E a \in S : f[a] = 0
  BY <1>1, <1>2
<1>3. CASE (\A a \in S : f[a] # 0) /\ (\E a \in S : f[a] = 1)
  BY <1>1, <1>3
<1>4. CASE (\A a \in S : f[a] \notin {0, 1}) /\ (\E a \in S : f[a] = 2)
  BY <1>1, <1>4
<1>5. CASE (\A a \in S : f[a] \notin {0, 1, 2}) /\ (\E a \in S : f[a] = 3)
  BY <1>1, <1>5
<1>6. CASE (\A a \in S : f[a] \notin {0, 1, 2, 3}) /\ (\E a \in S : f[a] = 4)
  BY <1>1, <1>6
<1>7. CASE \A a \in S : f[a] \notin {0, 1, 2, 3, 4}
  BY <1>1, <1>7
<1>8. QED
  BY <1>2, <1>3, <1>4, <1>5, <1>6, <1>7

LEMMA ViewStarts == View!Init => ViewInv
<1> SUFFICES ASSUME View!Init PROVE ViewInv
  OBVIOUS
<1>1. View!Missing # "action"
  BY DEF View!Missing
<1>2. ViewHeld
  BY <1>1 DEF ViewHeld, View!Init, View!Quiet
<1>3. \A k \in View!Kinds : ViewShown(k)
  BY DEF ViewShown, View!Init
<1>4. QED
  BY <1>2, <1>3 DEF View!Init, ViewInv, ViewMarks

(* An action runs only when none of its records is withheld: the least of   *)
(* their ranks decides.                                                     *)
LEMMA ViewLeastDecides ==
  ASSUME ViewInv, NEW x \in {"server", "mcp"}, NEW S \in SUBSET View!Present(x),
         \A a \in View!Decisive(x, S) : View!Executable(x, a)
  PROVE  \A b \in S : recs[x][b] \in {"PARTIAL", "VERIFIED"}
<1> SUFFICES ASSUME NEW b \in S PROVE recs[x][b] \in {"PARTIAL", "VERIFIED"}
  OBVIOUS
<1>1. \A a \in S : recs[x][a] \in View!Statuses
  BY DEF View!Present, ViewInv, ViewMarks
<1> DEFINE f == [a \in S |-> View!Rank[recs[x][a]]]
<1>2. \A a \in S : f[a] \in 0..5 /\ f[a] = View!Rank[recs[x][a]]
  BY <1>1, ViewRankIs
<1> HIDE DEF f
<1>3. PICK a \in S : \A c \in S : f[a] <= f[c]
  BY <1>2, ViewLeastRank
<1>4. a \in View!Decisive(x, S)
  BY <1>2, <1>3 DEF View!Decisive
<1>5. recs[x][a] \in {"PARTIAL", "VERIFIED"}
  BY <1>4 DEF View!Executable, View!Fresh
<1>6. View!Rank[recs[x][a]] >= 4
  BY <1>1, <1>5, ViewRankIs
<1>7. View!Rank[recs[x][a]] <= View!Rank[recs[x][b]]
  BY <1>2, <1>3
<1>8. View!Rank[recs[x][a]] \in 0..5 /\ View!Rank[recs[x][b]] \in 0..5
  BY <1>1, ViewRankIs
<1>9. View!Rank[recs[x][b]] >= 4
  BY <1>6, <1>7, <1>8
<1>10. QED
  BY <1>1, <1>9, ViewRankIs

LEMMA ViewCompareKeeps ==
  ASSUME ViewInv, NEW p, NEW kind, NEW given, View!Compare(p, kind, given)
  PROVE  /\ known' = [k \in View!Kinds |-> known'[k]] /\ snapshot' = [k \in View!Kinds |-> snapshot'[k]]
         /\ \A k \in View!Kinds : ViewShown(k)'
<1> DEFINE now == View!Listed(View!Mcp, p)
<1>1. /\ snapshot' = [k \in View!Kinds |-> now]
      /\ told' = (told \cup View!Changed(now, kind)) \ given
      /\ known' = [k \in View!Kinds |-> IF k \in given THEN now ELSE known[k]]
  BY DEF View!Compare
<1> HIDE DEF now
<1>2. ASSUME NEW k \in View!Kinds PROVE ViewShown(k)'
  <2>1. ViewShown(k)
    BY DEF ViewInv
  <2>2. CASE k \in given
    BY <1>1, <2>2 DEF ViewShown
  <2>3. CASE k \notin given /\ k \in told
    BY <1>1, <2>3 DEF ViewShown
  <2>4. CASE k \notin given /\ k \notin told
    BY <1>1, <2>1, <2>4 DEF ViewShown, View!Changed
  <2>5. QED
    BY <2>2, <2>3, <2>4
<1>3. QED
  BY <1>1, <1>2

LEMMA ViewStep == ViewInv /\ [View!Next]_(View!exVars) => ViewInv'
<1> SUFFICES ASSUME ViewInv, [View!Next]_(View!exVars) PROVE ViewInv'
  OBVIOUS
<1>1. View!Mcp \in {"server", "mcp"}
  BY DEF View!Mcp
<1>2. ASSUME NEW a \in Apis, NEW s \in Given, View!Change(a, s) PROVE ViewInv'
  <2>1. s \in ViewMarks
    BY ViewAssumption DEF ViewMarks
  <2>2. recs' = [recs EXCEPT !["server"][a] = s] /\ store' = recs'["server"]
        /\ UNCHANGED <<home, snapshot, known, told, ran>>
    BY <1>2 DEF View!Change
  <2>3. recs' \in [{"server", "mcp"} -> [Apis -> ViewMarks]]
    BY <2>1, <2>2 DEF ViewInv
  <2>4. QED
    BY <2>2, <2>3 DEF ViewInv, ViewShown, ViewHeld
<1>3. ASSUME NEW a \in Apis, View!Age(a) PROVE ViewInv'
  BY <1>3 DEF View!Age, ViewInv, ViewShown, ViewHeld
<1>4. ASSUME NEW p \in Principals, NEW S \in SUBSET View!Apps, View!SetScopes(p, S) PROVE ViewInv'
  BY <1>4 DEF View!SetScopes, ViewInv, ViewShown, ViewHeld
<1>5. ASSUME NEW app \in View!Apps, View!Demote(app) PROVE ViewInv'
  <2> DEFINE new == [a \in Apis |-> IF AppOf[a] = app /\ recs[View!Mcp][a] = "VERIFIED" THEN "DISABLED" ELSE recs[View!Mcp][a]]
  <2>1. /\ recs' = [recs EXCEPT ![View!Mcp] = new] /\ store' = recs'[View!Mcp]
        /\ UNCHANGED <<home, snapshot, known, told, ran>>
    BY <1>5 DEF View!Demote
  <2>2. new \in [Apis -> ViewMarks]
    BY <1>1, ViewStatusesAre DEF ViewInv, ViewMarks
  <2> HIDE DEF new
  <2>3. recs' \in [{"server", "mcp"} -> [Apis -> ViewMarks]] /\ store' \in [Apis -> ViewMarks]
    BY <1>1, <2>1, <2>2 DEF ViewInv
  <2>4. QED
    BY <2>1, <2>3 DEF ViewInv, ViewShown, ViewHeld
<1>6. CASE View!StartSession
  <2>1. recs' \in [{"server", "mcp"} -> [Apis -> ViewMarks]] /\ UNCHANGED <<home, store, ran>>
    BY <1>6 DEF View!StartSession, ViewInv
  <2>2. snapshot' = [k \in View!Kinds |-> View!None] /\ known' = [k \in View!Kinds |-> View!None]
    BY <1>6 DEF View!StartSession
  <2>3. \A k \in View!Kinds : ViewShown(k)'
    BY <2>2 DEF ViewShown
  <2>4. QED
    BY <2>1, <2>2, <2>3 DEF ViewInv, ViewHeld
<1>7. ASSUME NEW p \in Principals, NEW k \in View!Kinds, View!List(p, k) PROVE ViewInv'
  BY <1>7, ViewCompareKeeps DEF View!List, ViewInv, ViewHeld
<1>8. ASSUME NEW p \in Principals, View!Read(p) PROVE ViewInv'
  BY <1>8, ViewCompareKeeps DEF View!Read, ViewInv, ViewHeld
<1>9. ASSUME NEW a \in Apis, View!Call(a) PROVE ViewInv'
  <2>1. ran'.record = a /\ UNCHANGED <<home, recs, store, snapshot, known, told>>
    BY <1>9 DEF View!Call
  <2>2. QED
    BY <2>1, ViewAssumption DEF ViewInv, ViewShown, ViewHeld
<1>10. ASSUME NEW x \in {"server", View!Mcp}, NEW app, NEW action, View!Invoke(x, app, action) PROVE ViewInv'
  <2> DEFINE S == View!Records(x, app, action)
  <2>1. /\ ran'.others = {recs[x][b] : b \in S} /\ UNCHANGED <<home, recs, store, snapshot, known, told>>
        /\ \A a \in View!Decisive(x, S) : View!Executable(x, a)
    BY <1>10 DEF View!Invoke, View!Deciding, View!MayRunAction
  <2>2. S \in SUBSET View!Present(x) /\ x \in {"server", "mcp"}
    BY <1>1 DEF View!Records
  <2> HIDE DEF S
  <2>3. \A b \in S : recs[x][b] \in {"PARTIAL", "VERIFIED"}
    BY <2>1, <2>2, ViewLeastDecides
  <2>4. QED
    BY <2>1, <2>3 DEF ViewInv, ViewShown, ViewHeld
<1>11. CASE UNCHANGED View!exVars
  BY <1>11 DEF View!exVars, ViewInv, ViewShown, ViewHeld
<1>12. QED
  BY <1>2, <1>3, <1>4, <1>5, <1>6, <1>7, <1>8, <1>9, <1>10, <1>11 DEF View!Next

(* Exposure counts as this module does.                                      *)
LEMMA ViewCounts == ASSUME NEW S PROVE View!Cardinality(S) = Cardinality(S)
BY DEF View!Cardinality, Cardinality

LEMMA ViewExportAgrees == ViewInv => View!ExportedIsRunnable
<1> SUFFICES ASSUME NEW p \in Principals, NEW a \in View!Exported("server", p), AppOf[a] # View!NoApp
             PROVE  /\ View!MayRun("server", a) /\ a \in View!Listed("server", p)
                    /\ View!Cardinality(View!Records("server", AppOf[a], ActionOf[a])) = 1
                          => View!MayRunAction("server", AppOf[a], ActionOf[a])
  BY DEF View!ExportedIsRunnable
<1>1. a \in View!Present("server") /\ View!Fresh("server", a) /\ View!Visible("server", p, a) /\ a \in Apis
  BY DEF View!Exported, View!ExportSet, View!Exportable, View!Present
<1>2. View!MayRun("server", a) /\ a \in View!Listed("server", p)
  BY <1>1 DEF View!MayRun, View!Executable, View!Listed, View!Catalog, View!Publishable, View!Fresh
<1>3. ASSUME View!Cardinality(View!Records("server", AppOf[a], ActionOf[a])) = 1
      PROVE  View!MayRunAction("server", AppOf[a], ActionOf[a])
  <2> DEFINE S == View!Records("server", AppOf[a], ActionOf[a])
  <2>1. a \in S /\ S \subseteq Apis
    BY <1>1 DEF View!Records, View!Present
  <2>2. IsFiniteSet(S)
    BY <2>1, ViewAssumption, FS_Subset
  <2>3. \E c : S = {c}
    BY <1>3, <2>2, ViewCounts, FS_Singleton
  <2>4. \A b \in View!Decisive("server", S) : b = a
    BY <2>1, <2>3 DEF View!Decisive
  <2>5. QED
    BY <1>1, <2>4 DEF View!MayRunAction, View!Executable
<1>4. QED
  BY <1>2, <1>3

LEMMA ViewIsSound == ViewInv => View!SurfacesAgree
<1> SUFFICES ASSUME ViewInv PROVE View!SurfacesAgree
  OBVIOUS
<1>1. View!ReadIsListed
  BY DEF View!ReadIsListed, View!Readable, View!Listed, View!Catalog, View!Present
<1>2. View!ChangeIsTold
  BY DEF View!ChangeIsTold, ViewInv, ViewShown
<1>3. View!WithheldIsNotRun
  BY DEF View!WithheldIsNotRun, ViewInv, ViewHeld
<1>4. QED
  BY <1>1, <1>2, <1>3, ViewExportAgrees DEF View!SurfacesAgree

LEMMA ViewAlways == ActivitiesSpec => [](part = "exposure" => ViewInv)
<1> DEFINE Inv == part = "exposure" => ViewInv
<1>1. ActivitiesInit => Inv
  BY ViewStarts DEF ActivitiesInit
<1>2. Inv /\ [ActivitiesNext]_activityVars => Inv'
  <2>1. ASSUME [ActivitiesNext]_activityVars PROVE part' = part /\ (part = "exposure" => [View!Next]_(View!exVars))
    BY <2>1 DEF ActivitiesNext, activityVars, viewVars, View!exVars
  <2>2. QED
    BY <2>1, ViewStep
<1>3. QED
  BY <1>1, <1>2, PTL DEF ActivitiesSpec

(* What the export lists can be run and what MCP reads it lists; a client   *)
(* of MCP is told of a change of its lists, and no action runs while a      *)
(* record of it is withheld (mcp_export, openapi_export and the gateway).   *)
THEOREM SurfacesAlwaysAgree == ActivitiesSpec => []SurfacesAgree
<1>1. (part = "exposure" => ViewInv) => SurfacesAgree
  BY ViewIsSound DEF SurfacesAgree
<1>2. QED
  BY <1>1, ViewAlways, PTL
-----------------------------------------------------------------------------
(* Keyboard, mouse and windows                                              *)
-----------------------------------------------------------------------------
DeskGeometry == [x : Nat, width : Nat]
DeskViews == [active : BOOLEAN, state : {"normal", "minimized", "maximized"}, x : Nat, width : Nat]
DeskShapeIn(wn, w) == [x |-> wn[w].x, width |-> wn[w].width]

\* Calls that answer success although an event of theirs was rejected.
DeskLax(b) == {"click"} \cup IF b = "windows" THEN {"drag", "hotkey"} ELSE {"press", "type"}
DeskTidy(b) == IF b = "windows" THEN "hotkey" ELSE "drag"

DeskAnyEvent == [does : {"down", "up", "tap", "move"}, key : Desk!Keys, checked : BOOLEAN]

\* A tidy call only presses and moves, and all but the lax ones ask.
DeskAllowed(kind, b) ==
    {e \in DeskAnyEvent :
        (kind = DeskTidy(b) => e.does \in {"down", "move"}) /\ (kind \notin DeskLax(b) => e.checked)}

DeskInputs == [at : {"send", "done"}, kind : Desk!Kinds, rest : Seq(DeskAnyEvent),
           pressed : Seq(Desk!Keys), ok : BOOLEAN, missed : BOOLEAN, disturbed : BOOLEAN]
DeskRequests == [at : {"ask", "look", "done"}, kind : Desk!Commands, ok : BOOLEAN, missed : BOOLEAN, verified : BOOLEAN,
             disturbed : BOOLEAN, window : Windows, before : DeskGeometry]

DeskInputOK(a, b) ==
    /\ a \in DeskInputs /\ a.rest \in Seq(DeskAllowed(a.kind, b))
    /\ a.missed /\ a.kind \notin DeskLax(b) => ~a.ok /\ a.rest = <<>>

DeskSeen(a, op, wn) ==
    IF a.kind = "close" THEN a.window \notin op
    ELSE \/ a.disturbed
         \/ a.window \in op /\ IF a.kind = "focus" THEN wn[a.window].active ELSE wn[a.window].state = Desk!States[a.kind]

DeskRequestOK(a, op, wn) ==
    /\ a \in DeskRequests
    /\ a.at # "done" => ~a.ok
    /\ a.at = "ask" /\ ~a.disturbed => a.before = DeskShapeIn(wn, a.window)
    /\ a.ok /\ a.verified /\ ~a.missed => DeskSeen(a, op, wn)

DeskActOK(a, op, wn, b) == a = Desk!Idle \/ DeskInputOK(a, b) \/ DeskRequestOK(a, op, wn)

\* The call a has yet to let go of the key k.
DeskWillFree(a, k, b) ==
    a.at = "send" /\ a.kind = DeskTidy(b) /\ \E i \in 1..Len(a.pressed) : a.pressed[i] = k

DeskReleased(hd, st, ac, b) ==
    \A k \in Desk!Keys : hd[k] = DeskTidy(b) => k \in st \/ \E h \in Workers : DeskWillFree(ac[h], k, b)

DeskInv ==
    /\ seat \in {"windows", "linux"}
    /\ held \in [Desk!Keys -> Desk!Kinds \cup {Desk!Nobody}] /\ stuck \subseteq Desk!Keys /\ open \subseteq Windows
    /\ win \in [Windows -> DeskViews] /\ want = [w \in Windows |-> DeskShapeIn(win, w)]
    /\ \A w \in Windows : win[w].active => w \in open
    /\ DOMAIN act = Workers /\ \A h \in Workers : DeskActOK(act[h], open, win, seat)
    /\ DeskReleased(held, stuck, act, seat)

LEMMA DeskKindsAre ==
  /\ Desk!Kinds = {"click", "press", "type", "double_click", "scroll", "key_down", "key_up", "hotkey", "drag"}
  /\ Desk!Commands = {"minimize", "maximize", "restore", "focus", "close", "move", "resize"}
  /\ Desk!Nobody \notin Desk!Kinds
BY DEF Desk!Kinds, Desk!Commands, Desk!LinuxOlder, Desk!LinuxNewer, Desk!States, Desk!Nobody

LEMMA DeskKindsDiffer == \A kind \in Desk!Kinds : kind \notin Desk!Commands
BY DeskKindsAre

LEMMA DeskStarts == Desk!Init => DeskInv
<1> SUFFICES ASSUME Desk!Init PROVE DeskInv
  OBVIOUS
<1>1. win \in [Windows -> DeskViews] /\ want = [w \in Windows |-> DeskShapeIn(win, w)]
  BY DEF Desk!Init, DeskViews, DeskShapeIn
<1>2. held \in [Desk!Keys -> Desk!Kinds \cup {Desk!Nobody}]
  BY DEF Desk!Init
<1>3. \A k \in Desk!Keys : held[k] # DeskTidy(seat)
  BY DEF Desk!Init, DeskTidy, Desk!Nobody
<1>4. QED
  BY <1>1, <1>2, <1>3 DEF Desk!Init, DeskInv, DeskActOK, DeskReleased

LEMMA DeskNotIdle ==
  /\ \A a \in DeskInputs : a # Desk!Idle
  /\ \A a \in DeskRequests : a # Desk!Idle
<1>1. Desk!Idle.at = "idle"
  BY DEF Desk!Idle
<1>2. \A a \in DeskInputs : a.at # "idle"
  BY DEF DeskInputs
<1>3. \A a \in DeskRequests : a.at # "idle"
  BY DEF DeskRequests
<1>4. QED
  BY <1>1, <1>2, <1>3

\* The call of a hand that is sending is an input; that of one that asks or
\* looks is a request.
LEMMA DeskKnown ==
  ASSUME DeskInv, NEW h \in Workers
  PROVE  /\ act[h].at = "send" => DeskInputOK(act[h], seat)
         /\ act[h].at \in {"ask", "look"} => DeskRequestOK(act[h], open, win)
         /\ act[h].at = "idle" => act[h] = Desk!Idle
<1>1. DeskActOK(act[h], open, win, seat)
  BY DEF DeskInv
<1>2. Desk!Idle.at = "idle"
  BY DEF Desk!Idle
<1>3. \A a \in DeskInputs : a.at \in {"send", "done"}
  BY DEF DeskInputs
<1>4. \A a \in DeskRequests : a.at \in {"ask", "look", "done"}
  BY DEF DeskRequests
<1>5. QED
  BY <1>1, <1>2, <1>3, <1>4 DEF DeskActOK, DeskInputOK, DeskRequestOK

\* One hand goes on, and no window changes.
LEMMA DeskHandMoves ==
  ASSUME DeskInv, NEW h \in Workers, NEW new, act' = [act EXCEPT ![h] = new],
         UNCHANGED <<seat, open, win, want>>, DeskActOK(new, open, win, seat),
         held' \in [Desk!Keys -> Desk!Kinds \cup {Desk!Nobody}], stuck' \subseteq Desk!Keys,
         DeskReleased(held', stuck', act', seat)
  PROVE  DeskInv'
BY DEF DeskInv

\* A hand that frees nothing may go on.
LEMMA DeskStillReleased ==
  ASSUME DeskInv, NEW h \in Workers, NEW new, act' = [act EXCEPT ![h] = new],
         \A k \in Desk!Keys : DeskWillFree(act[h], k, seat) => DeskWillFree(new, k, seat)
  PROVE  DeskReleased(held, stuck, act', seat)
<1>1. SUFFICES ASSUME NEW k \in Desk!Keys, NEW g \in Workers, DeskWillFree(act[g], k, seat)
      PROVE  DeskWillFree(act'[g], k, seat)
  BY DEF DeskReleased, DeskInv
<1>2. CASE g = h
  BY <1>1, <1>2 DEF DeskInv
<1>3. CASE g # h
  BY <1>1, <1>3 DEF DeskInv
<1>4. QED
  BY <1>2, <1>3

LEMMA DeskHandGoesOn ==
  ASSUME DeskInv, NEW h \in Workers, NEW new, act' = [act EXCEPT ![h] = new],
         UNCHANGED <<seat, held, stuck, open, win, want>>, DeskActOK(new, open, win, seat),
         \A k \in Desk!Keys : DeskWillFree(act[h], k, seat) => DeskWillFree(new, k, seat)
  PROVE  DeskInv'
<1>1. DeskReleased(held', stuck', act', seat)
  BY DeskStillReleased
<1>2. QED
  BY <1>1, DeskHandMoves DEF DeskInv

\* What a disturbed call says is still so, and it frees what it would have.
LEMMA DeskDisturbed ==
  ASSUME NEW a, NEW op, NEW wn, NEW b, a # Desk!Idle, DeskActOK(a, op, wn, b), NEW oq \in SUBSET op, NEW wm
  PROVE  /\ DeskActOK([a EXCEPT !.disturbed = TRUE], oq, wm, b)
         /\ \A k : DeskWillFree(a, k, b) => DeskWillFree([a EXCEPT !.disturbed = TRUE], k, b)
<1> DEFINE new == [a EXCEPT !.disturbed = TRUE]
<1>1. CASE DeskInputOK(a, b)
  <2>1. new \in DeskInputs /\ new.at = a.at /\ new.kind = a.kind /\ new.rest = a.rest /\ new.pressed = a.pressed
        /\ new.ok = a.ok /\ new.missed = a.missed
    BY <1>1 DEF DeskInputOK, DeskInputs
  <2> HIDE DEF new
  <2>2. DeskInputOK(new, b)
    BY <1>1, <2>1 DEF DeskInputOK
  <2>3. \A k : DeskWillFree(a, k, b) => DeskWillFree(new, k, b)
    BY <2>1 DEF DeskWillFree
  <2>4. QED
    BY <2>2, <2>3 DEF DeskActOK, new
<1>2. CASE DeskRequestOK(a, op, wn)
  <2>1. new \in DeskRequests /\ new.at = a.at /\ new.kind = a.kind /\ new.window = a.window /\ new.verified = a.verified
        /\ new.ok = a.ok /\ new.missed = a.missed /\ new.disturbed
    BY <1>2 DEF DeskRequestOK, DeskRequests
  <2>2. a.at # "send"
    BY <1>2 DEF DeskRequestOK, DeskRequests
  <2> HIDE DEF new
  <2>3. DeskRequestOK(new, oq, wm)
    BY <1>2, <2>1 DEF DeskRequestOK, DeskSeen
  <2>4. \A k : DeskWillFree(a, k, b) => DeskWillFree(new, k, b)
    BY <2>2 DEF DeskWillFree
  <2>5. QED
    BY <2>3, <2>4 DEF DeskActOK, new
<1>3. QED
  BY <1>1, <1>2 DEF DeskActOK

\* Windows change, and all calls under way are disturbed.
LEMMA DeskDisturbs ==
  ASSUME DeskInv, NEW ac, DOMAIN ac = Workers, \A h \in Workers : DeskActOK(ac[h], open, win, seat),
         \A h \in Workers, k \in Desk!Keys : DeskWillFree(act[h], k, seat) => DeskWillFree(ac[h], k, seat),
         act' = Desk!Disturb(ac), UNCHANGED <<seat, held, stuck>>, open' \subseteq open,
         win' \in [Windows -> DeskViews], want' = [w \in Windows |-> DeskShapeIn(win', w)],
         \A w \in Windows : win'[w].active => w \in open'
  PROVE  DeskInv'
<1>1. ASSUME NEW h \in Workers
      PROVE  /\ DeskActOK(act'[h], open', win', seat)
             /\ \A k \in Desk!Keys : DeskWillFree(act[h], k, seat) => DeskWillFree(act'[h], k, seat)
  <2>1. CASE ac[h].at = "idle"
    <3>1. act'[h] = ac[h]
      BY <2>1 DEF Desk!Disturb
    <3>2. ac[h] = Desk!Idle
      BY <2>1 DEF DeskActOK, DeskInputOK, DeskRequestOK, DeskInputs, DeskRequests
    <3>3. QED
      BY <3>1, <3>2 DEF DeskActOK
  <2>2. CASE ac[h].at # "idle"
    <3>1. act'[h] = [ac[h] EXCEPT !.disturbed = TRUE]
      BY <2>2 DEF Desk!Disturb
    <3>2. ac[h] # Desk!Idle
      BY <2>2 DEF Desk!Idle
    <3>3. open' \in SUBSET open /\ DeskActOK(ac[h], open, win, seat)
      OBVIOUS
    <3>4. DeskActOK([ac[h] EXCEPT !.disturbed = TRUE], open', win', seat)
      BY <3>2, <3>3, DeskDisturbed
    <3>5. \A k \in Desk!Keys : DeskWillFree(ac[h], k, seat) => DeskWillFree([ac[h] EXCEPT !.disturbed = TRUE], k, seat)
      BY <3>2, <3>3, DeskDisturbed
    <3>6. QED
      BY <3>1, <3>4, <3>5
  <2>3. QED
    BY <2>1, <2>2
<1>2. DeskReleased(held, stuck, act', seat)
  BY <1>1 DEF DeskInv, DeskReleased
<1>3. DOMAIN act' = Workers
  BY DEF Desk!Disturb
<1>4. QED
  BY <1>1, <1>2, <1>3 DEF DeskInv

LEMMA DeskTablesAre ==
  /\ DOMAIN Desk!WindowsPointer = {"click", "drag"} /\ DOMAIN Desk!WindowsGestures = {"double_click", "scroll"}
  /\ DOMAIN Desk!WindowsPress = {"press"} /\ DOMAIN Desk!WindowsKeys = {"key_down", "key_up", "hotkey", "type"}
  /\ DOMAIN Desk!LinuxOlder = {"click", "press", "type"}
BY DEF Desk!WindowsPointer, Desk!WindowsGestures, Desk!WindowsPress, Desk!WindowsKeys, Desk!LinuxOlder

LEMMA DeskWindowsScripts ==
  ASSUME seat = "windows", NEW kind \in Desk!Kinds
  PROVE  Desk!OnWindows[kind] \in Seq(DeskAllowed(kind, seat))
<1> DEFINE S == DeskAllowed(kind, seat)
<1> USE DEF Desk!Event, Desk!Down, Desk!Up, Desk!Tap, Desk!Move, Desk!Unchecked, Desk!Keys, Desk!Modifier, Desk!Letter, Desk!Button
<1>1. CASE kind = "click"
  <2>1. Desk!OnWindows[kind] = Desk!WindowsPointer[kind]
    BY <1>1, DeskTablesAre DEF Desk!OnWindows
  <2>2. Desk!WindowsPointer[kind] = <<Desk!Move, Desk!Unchecked(Desk!Tap(Desk!Button))>>
    BY <1>1 DEF Desk!WindowsPointer
  <2>3. Desk!Move \in S /\ Desk!Unchecked(Desk!Tap(Desk!Button)) \in S
    BY <1>1 DEF DeskAllowed, DeskAnyEvent, DeskTidy, DeskLax
  <2>4. QED
    BY <2>1, <2>2, <2>3
<1>2. CASE kind = "drag"
  <2>1. Desk!OnWindows[kind] = Desk!WindowsPointer[kind]
    BY <1>2, DeskTablesAre DEF Desk!OnWindows
  <2>2. Desk!WindowsPointer[kind] = <<Desk!Move, Desk!Down(Desk!Button), Desk!Unchecked(Desk!Move), Desk!Up(Desk!Button)>>
    BY <1>2 DEF Desk!WindowsPointer
  <2>3. Desk!Move \in S /\ Desk!Down(Desk!Button) \in S /\ Desk!Unchecked(Desk!Move) \in S /\ Desk!Up(Desk!Button) \in S
    BY <1>2 DEF DeskAllowed, DeskAnyEvent, DeskTidy, DeskLax
  <2>4. QED
    BY <2>1, <2>2, <2>3
<1>3. CASE kind = "double_click"
  <2>1. Desk!OnWindows[kind] = Desk!WindowsGestures[kind]
    BY <1>3, DeskTablesAre DEF Desk!OnWindows
  <2>2. Desk!WindowsGestures[kind] = <<Desk!Move, Desk!Tap(Desk!Button)>>
    BY <1>3 DEF Desk!WindowsGestures
  <2>3. Desk!Move \in S /\ Desk!Tap(Desk!Button) \in S
    BY <1>3 DEF DeskAllowed, DeskAnyEvent, DeskTidy, DeskLax
  <2>4. QED
    BY <2>1, <2>2, <2>3
<1>4. CASE kind = "scroll"
  <2>1. Desk!OnWindows[kind] = Desk!WindowsGestures[kind]
    BY <1>4, DeskTablesAre DEF Desk!OnWindows
  <2>2. Desk!WindowsGestures[kind] = <<Desk!Move, Desk!Tap(Desk!Button)>>
    BY <1>4 DEF Desk!WindowsGestures
  <2>3. Desk!Move \in S /\ Desk!Tap(Desk!Button) \in S
    BY <1>4 DEF DeskAllowed, DeskAnyEvent, DeskTidy, DeskLax
  <2>4. QED
    BY <2>1, <2>2, <2>3
<1>5. CASE kind = "press"
  <2>1. Desk!OnWindows[kind] = Desk!WindowsPress[kind]
    BY <1>5, DeskTablesAre DEF Desk!OnWindows
  <2>2. Desk!WindowsPress[kind] = <<Desk!Down(Desk!Modifier), Desk!Down(Desk!Letter), Desk!Up(Desk!Letter), Desk!Up(Desk!Modifier)>>
    BY <1>5 DEF Desk!WindowsPress
  <2>3. Desk!Down(Desk!Modifier) \in S /\ Desk!Down(Desk!Letter) \in S /\ Desk!Up(Desk!Letter) \in S /\ Desk!Up(Desk!Modifier) \in S
    BY <1>5 DEF DeskAllowed, DeskAnyEvent, DeskTidy, DeskLax
  <2>4. QED
    BY <2>1, <2>2, <2>3
<1>6. CASE kind = "key_down"
  <2>1. Desk!OnWindows[kind] = Desk!WindowsKeys[kind]
    BY <1>6, DeskTablesAre DEF Desk!OnWindows
  <2>2. Desk!WindowsKeys[kind] = <<Desk!Down(Desk!Modifier)>>
    BY <1>6 DEF Desk!WindowsKeys
  <2>3. Desk!Down(Desk!Modifier) \in S
    BY <1>6 DEF DeskAllowed, DeskAnyEvent, DeskTidy, DeskLax
  <2>4. QED
    BY <2>1, <2>2, <2>3
<1>7. CASE kind = "key_up"
  <2>1. Desk!OnWindows[kind] = Desk!WindowsKeys[kind]
    BY <1>7, DeskTablesAre DEF Desk!OnWindows
  <2>2. Desk!WindowsKeys[kind] = <<Desk!Up(Desk!Modifier)>>
    BY <1>7 DEF Desk!WindowsKeys
  <2>3. Desk!Up(Desk!Modifier) \in S
    BY <1>7 DEF DeskAllowed, DeskAnyEvent, DeskTidy, DeskLax
  <2>4. QED
    BY <2>1, <2>2, <2>3
<1>8. CASE kind = "hotkey"
  <2>1. Desk!OnWindows[kind] = Desk!WindowsKeys[kind]
    BY <1>8, DeskTablesAre DEF Desk!OnWindows
  <2>2. Desk!WindowsKeys[kind] = <<Desk!Down(Desk!Modifier), Desk!Down(Desk!Letter)>>
    BY <1>8 DEF Desk!WindowsKeys
  <2>3. Desk!Down(Desk!Modifier) \in S /\ Desk!Down(Desk!Letter) \in S
    BY <1>8 DEF DeskAllowed, DeskAnyEvent, DeskTidy, DeskLax
  <2>4. QED
    BY <2>1, <2>2, <2>3
<1>9. CASE kind = "type"
  <2>1. Desk!OnWindows[kind] = Desk!WindowsKeys[kind]
    BY <1>9, DeskTablesAre DEF Desk!OnWindows
  <2>2. Desk!WindowsKeys[kind] = <<Desk!Tap(Desk!Letter), Desk!Down(Desk!Letter), Desk!Up(Desk!Letter)>>
    BY <1>9 DEF Desk!WindowsKeys
  <2>3. Desk!Tap(Desk!Letter) \in S /\ Desk!Down(Desk!Letter) \in S /\ Desk!Up(Desk!Letter) \in S
    BY <1>9 DEF DeskAllowed, DeskAnyEvent, DeskTidy, DeskLax
  <2>4. QED
    BY <2>1, <2>2, <2>3
<1>10. QED
  BY <1>1, <1>2, <1>3, <1>4, <1>5, <1>6, <1>7, <1>8, <1>9, DeskKindsAre

LEMMA DeskLinuxScripts ==
  ASSUME seat = "linux", NEW kind \in Desk!Kinds
  PROVE  Desk!OnLinux[kind] \in Seq(DeskAllowed(kind, seat))
<1> DEFINE S == DeskAllowed(kind, seat)
<1> USE DEF Desk!Event, Desk!Down, Desk!Up, Desk!Tap, Desk!Move, Desk!Unchecked, Desk!Keys, Desk!Modifier, Desk!Letter, Desk!Button
<1>1. CASE kind = "click"
  <2>1. Desk!OnLinux[kind] = Desk!LinuxOlder[kind]
    BY <1>1, DeskTablesAre DEF Desk!OnLinux
  <2>2. Desk!LinuxOlder[kind] = <<Desk!Unchecked(Desk!Move), Desk!Unchecked(Desk!Tap(Desk!Button))>>
    BY <1>1 DEF Desk!LinuxOlder
  <2>3. Desk!Unchecked(Desk!Move) \in S /\ Desk!Unchecked(Desk!Tap(Desk!Button)) \in S
    BY <1>1 DEF DeskAllowed, DeskAnyEvent, DeskTidy, DeskLax
  <2>4. QED
    BY <2>1, <2>2, <2>3
<1>2. CASE kind = "press"
  <2>1. Desk!OnLinux[kind] = Desk!LinuxOlder[kind]
    BY <1>2, DeskTablesAre DEF Desk!OnLinux
  <2>2. Desk!LinuxOlder[kind] = <<Desk!Unchecked(Desk!Tap(Desk!Letter))>>
    BY <1>2 DEF Desk!LinuxOlder
  <2>3. Desk!Unchecked(Desk!Tap(Desk!Letter)) \in S
    BY <1>2 DEF DeskAllowed, DeskAnyEvent, DeskTidy, DeskLax
  <2>4. QED
    BY <2>1, <2>2, <2>3
<1>3. CASE kind = "type"
  <2>1. Desk!OnLinux[kind] = Desk!LinuxOlder[kind]
    BY <1>3, DeskTablesAre DEF Desk!OnLinux
  <2>2. Desk!LinuxOlder[kind] = <<Desk!Unchecked(Desk!Tap(Desk!Letter))>>
    BY <1>3 DEF Desk!LinuxOlder
  <2>3. Desk!Unchecked(Desk!Tap(Desk!Letter)) \in S
    BY <1>3 DEF DeskAllowed, DeskAnyEvent, DeskTidy, DeskLax
  <2>4. QED
    BY <2>1, <2>2, <2>3
<1>4. CASE kind = "double_click"
  <2>1. Desk!OnLinux[kind] = Desk!LinuxNewer[kind]
    BY <1>4, DeskTablesAre DEF Desk!OnLinux
  <2>2. Desk!LinuxNewer[kind] = <<Desk!Move, Desk!Tap(Desk!Button)>>
    BY <1>4 DEF Desk!LinuxNewer
  <2>3. Desk!Move \in S /\ Desk!Tap(Desk!Button) \in S
    BY <1>4 DEF DeskAllowed, DeskAnyEvent, DeskTidy, DeskLax
  <2>4. QED
    BY <2>1, <2>2, <2>3
<1>5. CASE kind = "scroll"
  <2>1. Desk!OnLinux[kind] = Desk!LinuxNewer[kind]
    BY <1>5, DeskTablesAre DEF Desk!OnLinux
  <2>2. Desk!LinuxNewer[kind] = <<Desk!Move, Desk!Tap(Desk!Button)>>
    BY <1>5 DEF Desk!LinuxNewer
  <2>3. Desk!Move \in S /\ Desk!Tap(Desk!Button) \in S
    BY <1>5 DEF DeskAllowed, DeskAnyEvent, DeskTidy, DeskLax
  <2>4. QED
    BY <2>1, <2>2, <2>3
<1>6. CASE kind = "key_down"
  <2>1. Desk!OnLinux[kind] = Desk!LinuxNewer[kind]
    BY <1>6, DeskTablesAre DEF Desk!OnLinux
  <2>2. Desk!LinuxNewer[kind] = <<Desk!Down(Desk!Modifier)>>
    BY <1>6 DEF Desk!LinuxNewer
  <2>3. Desk!Down(Desk!Modifier) \in S
    BY <1>6 DEF DeskAllowed, DeskAnyEvent, DeskTidy, DeskLax
  <2>4. QED
    BY <2>1, <2>2, <2>3
<1>7. CASE kind = "key_up"
  <2>1. Desk!OnLinux[kind] = Desk!LinuxNewer[kind]
    BY <1>7, DeskTablesAre DEF Desk!OnLinux
  <2>2. Desk!LinuxNewer[kind] = <<Desk!Up(Desk!Modifier)>>
    BY <1>7 DEF Desk!LinuxNewer
  <2>3. Desk!Up(Desk!Modifier) \in S
    BY <1>7 DEF DeskAllowed, DeskAnyEvent, DeskTidy, DeskLax
  <2>4. QED
    BY <2>1, <2>2, <2>3
<1>8. CASE kind = "hotkey"
  <2>1. Desk!OnLinux[kind] = Desk!LinuxNewer[kind]
    BY <1>8, DeskTablesAre DEF Desk!OnLinux
  <2>2. Desk!LinuxNewer[kind] = <<Desk!Tap(Desk!Modifier)>>
    BY <1>8 DEF Desk!LinuxNewer
  <2>3. Desk!Tap(Desk!Modifier) \in S
    BY <1>8 DEF DeskAllowed, DeskAnyEvent, DeskTidy, DeskLax
  <2>4. QED
    BY <2>1, <2>2, <2>3
<1>9. CASE kind = "drag"
  <2>1. Desk!OnLinux[kind] = Desk!LinuxNewer[kind]
    BY <1>9, DeskTablesAre DEF Desk!OnLinux
  <2>2. Desk!LinuxNewer[kind] = <<Desk!Move, Desk!Down(Desk!Button), Desk!Move>>
    BY <1>9 DEF Desk!LinuxNewer
  <2>3. Desk!Move \in S /\ Desk!Down(Desk!Button) \in S
    BY <1>9 DEF DeskAllowed, DeskAnyEvent, DeskTidy, DeskLax
  <2>4. QED
    BY <2>1, <2>2, <2>3
<1>10. QED
  BY <1>1, <1>2, <1>3, <1>4, <1>5, <1>6, <1>7, <1>8, <1>9, DeskKindsAre

LEMMA DeskScriptsAre ==
  ASSUME seat \in {"windows", "linux"}, NEW kind \in Desk!Kinds
  PROVE  Desk!Events[kind] \in Seq(DeskAllowed(kind, seat))
BY DeskWindowsScripts, DeskLinuxScripts DEF Desk!Events

LEMMA DeskWider == ASSUME NEW S, NEW T, S \subseteq T, NEW s \in Seq(S) PROVE s \in Seq(T)
OBVIOUS

LEMMA DeskEnds ==
  ASSUME NEW S, NEW s \in Seq(S), s # <<>>
  PROVE  Head(s) \in S /\ Tail(s) \in Seq(S)
OBVIOUS

LEMMA DeskAppended ==
  ASSUME NEW S, NEW s \in Seq(S), NEW x \in S
  PROVE  /\ Append(s, x) \in Seq(S) /\ Len(s) + 1 \in 1..Len(Append(s, x)) /\ Append(s, x)[Len(s) + 1] = x
         /\ \A i \in 1..Len(s) : i \in 1..Len(Append(s, x)) /\ Append(s, x)[i] = s[i]
OBVIOUS

LEMMA DeskAllowedAre == ASSUME NEW kind, NEW b PROVE DeskAllowed(kind, b) \subseteq DeskAnyEvent
BY DEF DeskAllowed

LEMMA DeskBeginStep ==
  ASSUME DeskInv, NEW h \in Workers, NEW kind \in Desk!Kinds, Desk!Begin(h, kind)
  PROVE  DeskInv'
<1> DEFINE new == [at |-> "send", kind |-> kind, rest |-> Desk!Events[kind], pressed |-> <<>>,
                   ok |-> TRUE, missed |-> FALSE, disturbed |-> FALSE]
<1>1. act' = [act EXCEPT ![h] = new] /\ UNCHANGED <<seat, held, open, win, stuck, want>>
      /\ act[h].at \in {"idle", "done"}
  BY DEF Desk!Begin, Desk!Starts
<1>2. Desk!Events[kind] \in Seq(DeskAllowed(kind, seat))
  BY DeskScriptsAre DEF DeskInv
<1>3. Desk!Events[kind] \in Seq(DeskAnyEvent)
  BY <1>2, DeskAllowedAre, DeskWider
<1>4. DeskInputOK(new, seat)
  BY <1>2, <1>3 DEF DeskInputOK, DeskInputs
<1>5. \A k \in Desk!Keys : DeskWillFree(act[h], k, seat) => DeskWillFree(new, k, seat)
  BY <1>1 DEF DeskWillFree
<1> HIDE DEF new
<1>6. DeskActOK(new, open, win, seat)
  BY <1>4 DEF DeskActOK
<1>7. QED
  BY <1>1, <1>5, <1>6, DeskHandGoesOn

\* The next event of a call, and the call after it.
LEMMA DeskSendStep == ASSUME DeskInv, NEW h \in Workers, Desk!Send(h) PROVE DeskInv'
<1> DEFINE a == act[h]
           e == Head(a.rest)
<1>1. DeskInputOK(a, seat) /\ a.at = "send" /\ a.rest # <<>>
  BY DeskKnown DEF Desk!Send
<1>2. a \in DeskInputs /\ a.rest \in Seq(DeskAllowed(a.kind, seat)) /\ (a.missed => a.kind \in DeskLax(seat))
  BY <1>1 DEF DeskInputOK
<1>3. PICK how \in Desk!Outcomes(e) :
        /\ held' = Desk!Effect(e, a.kind, how)
        /\ act' = [act EXCEPT
            ![h].rest = IF Desk!Continues(e, how) THEN Tail(@) ELSE <<>>,
            ![h].ok = Desk!Continues(e, how),
            ![h].missed = @ \/ how # "all",
            ![h].pressed = IF how = "all" /\ e.does = "down" THEN Append(@, e.key) ELSE @]
  BY DEF Desk!Send
<1> DEFINE goes == Desk!Continues(e, how)
           rest == IF goes THEN Tail(a.rest) ELSE <<>>
           pressed == IF how = "all" /\ e.does = "down" THEN Append(a.pressed, e.key) ELSE a.pressed
           new == [a EXCEPT !.rest = rest, !.ok = goes, !.missed = a.missed \/ how # "all", !.pressed = pressed]
<1>4. act' = [act EXCEPT ![h] = new]
  BY <1>3 DEF DeskInv
<1>5. UNCHANGED <<seat, open, win, stuck, want>>
  BY DEF Desk!Send
<1>6. e \in DeskAllowed(a.kind, seat) /\ Tail(a.rest) \in Seq(DeskAllowed(a.kind, seat))
  BY <1>1, <1>2, DeskEnds
<1>7. e.does \in {"down", "up", "tap", "move"} /\ e.key \in Desk!Keys /\ e.checked \in BOOLEAN
      /\ (a.kind = DeskTidy(seat) => e.does \in {"down", "move"}) /\ (a.kind \notin DeskLax(seat) => e.checked)
  BY <1>6 DEF DeskAllowed, DeskAnyEvent
<1>8. goes \in BOOLEAN /\ rest \in Seq(DeskAllowed(a.kind, seat))
  <2>1. goes \in BOOLEAN
    BY <1>7 DEF Desk!Continues
  <2>2. <<>> \in Seq(DeskAllowed(a.kind, seat))
    OBVIOUS
  <2>3. QED
    BY <1>6, <2>1, <2>2
<1>9. a.pressed \in Seq(Desk!Keys) /\ pressed \in Seq(Desk!Keys)
  <2>1. a.pressed \in Seq(Desk!Keys)
    BY <1>2 DEF DeskInputs
  <2>2. QED
    BY <1>7, <2>1, DeskAppended
<1>10. rest \in Seq(DeskAnyEvent)
  <2>1. \A s \in Seq(DeskAllowed(a.kind, seat)) : s \in Seq(DeskAnyEvent)
    BY DeskAllowedAre, DeskWider
  <2>2. QED
    BY <1>8, <2>1
<1>11. new \in DeskInputs /\ new.at = "send" /\ new.kind = a.kind /\ new.rest = rest /\ new.pressed = pressed
       /\ new.ok = goes /\ new.missed = (a.missed \/ how # "all")
  BY <1>1, <1>2, <1>8, <1>9, <1>10 DEF DeskInputs
<1>12. ASSUME new.missed, a.kind \notin DeskLax(seat) PROVE ~goes /\ rest = <<>>
  <2>1. how # "all" /\ e.checked
    BY <1>2, <1>7, <1>11, <1>12
  <2>2. QED
    BY <2>1 DEF Desk!Continues
<1> HIDE DEF new, goes, rest
<1>13. DeskActOK(new, open, win, seat)
  BY <1>8, <1>11, <1>12 DEF DeskActOK, DeskInputOK
<1>14. \A k \in Desk!Keys : DeskWillFree(a, k, seat) => DeskWillFree(new, k, seat)
  <2>1. \A i \in 1..Len(a.pressed) : i \in 1..Len(pressed) /\ pressed[i] = a.pressed[i]
    BY <1>7, <1>9, DeskAppended
  <2>2. QED
    BY <1>1, <1>11, <2>1 DEF DeskWillFree
<1>15. e.does = "down" /\ how = "all" => DeskWillFree(new, e.key, seat) \/ a.kind # DeskTidy(seat)
  <2>1. ASSUME e.does = "down", how = "all" PROVE \E i \in 1..Len(pressed) : pressed[i] = e.key
    <3>1. pressed = Append(a.pressed, e.key)
      BY <2>1
    <3>2. QED
      BY <1>7, <1>9, <3>1, DeskAppended
  <2>2. QED
    BY <1>1, <1>11, <2>1 DEF DeskWillFree
<1>16. how \in {"all", "none", "half"} /\ (how = "half" => e.does = "tap")
  BY DEF Desk!Outcomes
<1>17. a.kind \in Desk!Kinds
  BY <1>2 DEF DeskInputs
<1>18. \/ held' = held
       \/ held' = [held EXCEPT ![e.key] = Desk!Nobody]
       \/ held' = [held EXCEPT ![e.key] = a.kind] /\ (a.kind = DeskTidy(seat) => DeskWillFree(new, e.key, seat))
  BY <1>3, <1>7, <1>15, <1>16 DEF Desk!Effect
<1>19. DeskReleased(held, stuck, act', seat)
  BY <1>4, <1>14, DeskStillReleased
<1>20. held' \in [Desk!Keys -> Desk!Kinds \cup {Desk!Nobody}]
  BY <1>7, <1>17, <1>18 DEF DeskInv
<1>21. Desk!Nobody # DeskTidy(seat)
  BY DEF Desk!Nobody, DeskTidy
<1>22. act'[h] = new
  BY <1>4 DEF DeskInv
<1>23. DeskReleased(held', stuck', act', seat)
  BY <1>5, <1>18, <1>19, <1>21, <1>22 DEF DeskReleased, DeskInv
<1>24. QED
  BY <1>4, <1>5, <1>13, <1>20, <1>23, DeskHandMoves DEF DeskInv

LEMMA DeskReleaseStep ==
  ASSUME DeskInv, NEW h \in Workers, NEW rejected \in BOOLEAN, Desk!Release(h, rejected)
  PROVE  DeskInv'
<1> DEFINE a == act[h]
           n == Len(a.pressed)
           k == a.pressed[n]
           new == [a EXCEPT !.pressed = SubSeq(a.pressed, 1, n - 1),
                            !.ok = a.ok /\ (rejected => seat = "windows"),
                            !.missed = a.missed \/ rejected]
<1>1. DeskInputOK(a, seat) /\ a.at = "send" /\ a.rest = <<>> /\ a \in DeskInputs
  BY DeskKnown DEF Desk!Release, DeskInputOK
<1>2. a.kind = DeskTidy(seat) /\ a.pressed # <<>> /\ Desk!Owed(h) = a.pressed
  BY DEF Desk!Release, Desk!Owed, Desk!LetsGo, DeskTidy
<1>3. a.pressed \in Seq(Desk!Keys) /\ n \in Nat \ {0} /\ k \in Desk!Keys
  BY <1>1, <1>2 DEF DeskInputs
<1>4. /\ held' = IF rejected THEN held ELSE [held EXCEPT ![k] = Desk!Nobody]
      /\ stuck' = IF rejected THEN stuck \cup {k} ELSE stuck
      /\ UNCHANGED <<seat, open, win, want>>
  BY <1>2 DEF Desk!Release
<1>5. act' = [act EXCEPT ![h] = new]
  BY DEF Desk!Release, DeskInv
<1>6. SubSeq(a.pressed, 1, n - 1) \in Seq(Desk!Keys) /\ Len(SubSeq(a.pressed, 1, n - 1)) = n - 1
      /\ \A i \in 1..(n - 1) : SubSeq(a.pressed, 1, n - 1)[i] = a.pressed[i]
  BY <1>3
<1>7. new \in DeskInputs /\ new.at = "send" /\ new.kind = a.kind /\ new.rest = <<>>
      /\ new.pressed = SubSeq(a.pressed, 1, n - 1)
      /\ new.ok = (a.ok /\ (rejected => seat = "windows")) /\ new.missed = (a.missed \/ rejected)
  BY <1>1, <1>6 DEF DeskInputs
<1>8. ASSUME new.missed, new.kind \notin DeskLax(seat) PROVE ~new.ok
  <2>1. seat = "linux"
    BY <1>2, <1>7, <1>8 DEF DeskTidy, DeskLax, DeskInv
  <2>2. QED
    BY <1>1, <1>7, <1>8, <2>1 DEF DeskInputOK
<1> HIDE DEF new
<1>9. DeskActOK(new, open, win, seat)
  BY <1>7, <1>8 DEF DeskActOK, DeskInputOK
<1>10. ASSUME NEW j \in Desk!Keys, j # k, DeskWillFree(a, j, seat) PROVE DeskWillFree(new, j, seat)
  <2>1. PICK i \in 1..n : a.pressed[i] = j
    BY <1>10 DEF DeskWillFree
  <2>2. i \in 1..(n - 1)
    BY <1>3, <1>10, <2>1
  <2>3. QED
    BY <1>2, <1>6, <1>7, <2>1, <2>2 DEF DeskWillFree
<1>11. Desk!Nobody # DeskTidy(seat)
  BY DEF Desk!Nobody, DeskTidy
<1>12. \A g \in Workers : g # h => act'[g] = act[g]
  BY <1>5 DEF DeskInv
<1>13. act'[h] = new
  BY <1>5 DEF DeskInv
<1>14. held[k] = held[k] /\ (held'[k] = Desk!Nobody \/ k \in stuck') /\ stuck \subseteq stuck'
       /\ \A j \in Desk!Keys : j # k => held'[j] = held[j]
  BY <1>3, <1>4 DEF DeskInv
<1>15. DeskReleased(held', stuck', act', seat)
  BY <1>10, <1>11, <1>12, <1>13, <1>14 DEF DeskReleased, DeskInv
<1>16. held' \in [Desk!Keys -> Desk!Kinds \cup {Desk!Nobody}] /\ stuck' \subseteq Desk!Keys
  BY <1>3, <1>4 DEF DeskInv
<1>17. QED
  BY <1>4, <1>5, <1>9, <1>15, <1>16, DeskHandMoves

LEMMA DeskAnswerStep ==
  ASSUME DeskInv, NEW h \in Workers, NEW elsewhere \in BOOLEAN, Desk!Answer(h, elsewhere)
  PROVE  DeskInv'
<1> DEFINE a == act[h]
           new == [a EXCEPT !.at = "done", !.ok = a.ok /\ ~elsewhere]
<1>1. DeskInputOK(a, seat) /\ a.at = "send" /\ a \in DeskInputs /\ Desk!Owed(h) = <<>>
  BY DeskKnown DEF Desk!Answer, DeskInputOK
<1>2. act' = [act EXCEPT ![h] = new] /\ UNCHANGED <<seat, held, open, win, stuck, want>>
  BY DEF Desk!Answer, DeskInv
<1>3. new \in DeskInputs /\ new.at = "done" /\ new.kind = a.kind /\ new.rest = a.rest
      /\ new.ok = (a.ok /\ ~elsewhere) /\ new.missed = a.missed
  BY <1>1 DEF DeskInputs
<1> HIDE DEF new
<1>4. DeskActOK(new, open, win, seat)
  BY <1>1, <1>3 DEF DeskActOK, DeskInputOK
<1>5. a.kind = DeskTidy(seat) => Len(a.pressed) = 0
  BY <1>1 DEF Desk!Owed, Desk!LetsGo, DeskTidy
<1>6. \A k \in Desk!Keys : ~DeskWillFree(a, k, seat)
  BY <1>5 DEF DeskWillFree
<1>7. QED
  BY <1>2, <1>4, <1>6, DeskHandGoesOn

\* What one window v looks like after some steps.
LEMMA DeskViewIs ==
  ASSUME DeskInv, NEW w \in Windows
  PROVE  /\ win[w] \in DeskViews /\ want[w] = DeskShapeIn(win, w) /\ Desk!Shape(w) = DeskShapeIn(win, w) /\ DeskShapeIn(win, w) \in DeskGeometry
         /\ want[w].x = win[w].x /\ want[w].width = win[w].width
BY DEF DeskInv, DeskViews, DeskShapeIn, DeskGeometry, Desk!Shape

LEMMA DeskFocusIs ==
  ASSUME DeskInv, NEW w \in Windows
  PROVE  /\ Desk!Focused(w) \in [Windows -> DeskViews]
         /\ \A v \in Windows : /\ Desk!Focused(w)[v].x = win[v].x /\ Desk!Focused(w)[v].width = win[v].width
                               /\ Desk!Focused(w)[v].active = (v = w)
<1>1. \A v \in Windows : win[v] \in DeskViews
  BY DEF DeskInv
<1>2. \A v \in Windows : /\ [win[v] EXCEPT !.active = v = w] \in DeskViews
                         /\ [win[v] EXCEPT !.active = v = w].x = win[v].x
                         /\ [win[v] EXCEPT !.active = v = w].width = win[v].width
                         /\ [win[v] EXCEPT !.active = v = w].active = (v = w)
  BY <1>1 DEF DeskViews
<1>3. QED
  BY <1>2 DEF Desk!Focused

\* A window of some views wn is replaced by a view of its own.
LEMMA DeskReplaced ==
  ASSUME NEW wn \in [Windows -> DeskViews], NEW w \in Windows, NEW new \in DeskViews, NEW wm, wm = [wn EXCEPT ![w] = new]
  PROVE  /\ wm \in [Windows -> DeskViews] /\ wm[w] = new
         /\ \A v \in Windows : v # w => wm[v] = wn[v]
OBVIOUS

LEMMA DeskClosedStep ==
  ASSUME DeskInv, NEW w \in open, Desk!Closed(w), UNCHANGED <<seat, held, stuck, want>>
  PROVE  DeskInv'
<1> DEFINE new == [win[w] EXCEPT !.active = FALSE]
<1>1. w \in Windows /\ win[w] \in DeskViews /\ win \in [Windows -> DeskViews]
  BY DEF DeskInv
<1>2. new \in DeskViews /\ new.x = win[w].x /\ new.width = win[w].width /\ new.active = FALSE
  BY <1>1 DEF DeskViews
<1>3. win' = [win EXCEPT ![w] = new] /\ open' = open \ {w} /\ act' = Desk!Disturb(act)
  BY DEF Desk!Closed
<1> HIDE DEF new
<1>4. win' \in [Windows -> DeskViews] /\ win'[w] = new /\ \A v \in Windows : v # w => win'[v] = win[v]
  BY <1>1, <1>2, <1>3, DeskReplaced
<1>5. \A v \in Windows : DeskShapeIn(win', v) = DeskShapeIn(win, v)
  BY <1>2, <1>4 DEF DeskShapeIn
<1>6. want' = [v \in Windows |-> DeskShapeIn(win', v)]
  BY <1>5 DEF DeskInv
<1>7. \A v \in Windows : win'[v].active => v \in open'
  BY <1>2, <1>3, <1>4 DEF DeskInv
<1>8. DOMAIN act = Workers /\ \A h \in Workers : DeskActOK(act[h], open, win, seat)
  BY DEF DeskInv
<1>9. QED
  BY <1>3, <1>4, <1>6, <1>7, <1>8, DeskDisturbs

LEMMA DeskUserActsStep == ASSUME DeskInv, NEW w \in Windows, Desk!UserActs(w) PROVE DeskInv'
<1>1. w \in open /\ UNCHANGED <<seat, held, stuck>>
  BY DEF Desk!UserActs
<1>2. CASE Desk!Closed(w) /\ want' = want
  BY <1>1, <1>2, DeskClosedStep
<1>3. DOMAIN act = Workers /\ (\A h \in Workers : DeskActOK(act[h], open, win, seat)) /\ win \in [Windows -> DeskViews]
      /\ win[w] \in DeskViews
  BY DEF DeskInv
<1>4. CASE open' = open /\ act' = Desk!Disturb(act) /\ win' = Desk!Focused(w) /\ want' = want
  <2>1. want' = [v \in Windows |-> DeskShapeIn(win', v)]
    BY <1>4, DeskFocusIs DEF DeskInv, DeskShapeIn
  <2>2. win' \in [Windows -> DeskViews] /\ \A v \in Windows : win'[v].active => v \in open'
    BY <1>1, <1>4, DeskFocusIs
  <2>3. QED
    BY <1>1, <1>3, <1>4, <2>1, <2>2, DeskDisturbs
<1>5. CASE open' = open /\ act' = Desk!Disturb(act) /\ win' = [win EXCEPT ![w].state = "maximized"] /\ want' = want
  <2> DEFINE new == [win[w] EXCEPT !.state = "maximized"]
  <2>1. new \in DeskViews /\ new.x = win[w].x /\ new.width = win[w].width /\ new.active = win[w].active
    BY <1>3 DEF DeskViews
  <2>2. win' = [win EXCEPT ![w] = new]
    BY <1>5
  <2> HIDE DEF new
  <2>3. win' \in [Windows -> DeskViews] /\ win'[w] = new /\ \A v \in Windows : v # w => win'[v] = win[v]
    BY <1>3, <2>1, <2>2, DeskReplaced
  <2>4. \A v \in Windows : DeskShapeIn(win', v) = DeskShapeIn(win, v)
    BY <2>1, <2>3 DEF DeskShapeIn
  <2>5. want' = [v \in Windows |-> DeskShapeIn(win', v)]
    BY <1>5, <2>4 DEF DeskInv
  <2>6. \A v \in Windows : win'[v].active => v \in open'
    BY <1>1, <1>5, <2>3 DEF DeskInv
  <2>7. QED
    BY <1>1, <1>3, <1>5, <2>3, <2>5, <2>6, DeskDisturbs
<1>6. CASE open' = open /\ act' = Desk!Disturb(act) /\ win' = [win EXCEPT ![w].width = 2] /\ want' = [want EXCEPT ![w].width = 2]
  <2> DEFINE new == [win[w] EXCEPT !.width = 2]
  <2>1. new \in DeskViews /\ new.x = win[w].x /\ new.width = 2 /\ new.active = win[w].active
    BY <1>3 DEF DeskViews
  <2>2. win' = [win EXCEPT ![w] = new]
    BY <1>6
  <2> HIDE DEF new
  <2>3. win' \in [Windows -> DeskViews] /\ win'[w] = new /\ \A v \in Windows : v # w => win'[v] = win[v]
    BY <1>3, <2>1, <2>2, DeskReplaced
  <2>4. [want[w] EXCEPT !.width = 2] = DeskShapeIn(win', w)
    <3>1. want[w] = [x |-> win[w].x, width |-> win[w].width]
      BY <1>1, DeskViewIs DEF DeskShapeIn, DeskInv
    <3>2. [want[w] EXCEPT !.width = 2] = [x |-> win[w].x, width |-> 2]
      BY <3>1
    <3>3. QED
      BY <2>1, <2>3, <3>2 DEF DeskShapeIn
  <2>5. \A v \in Windows : v # w => DeskShapeIn(win', v) = DeskShapeIn(win, v)
    BY <2>3 DEF DeskShapeIn
  <2>6. want' = [v \in Windows |-> DeskShapeIn(win', v)]
    BY <1>6, <2>4, <2>5 DEF DeskInv
  <2>7. \A v \in Windows : win'[v].active => v \in open'
    BY <1>1, <1>6, <2>1, <2>3 DEF DeskInv
  <2>8. QED
    BY <1>1, <1>3, <1>6, <2>3, <2>6, <2>7, DeskDisturbs
<1>7. QED
  BY <1>2, <1>4, <1>5, <1>6 DEF Desk!UserActs

LEMMA DeskBeginWindowStep ==
  ASSUME DeskInv, NEW h \in Workers, NEW kind \in Desk!Commands, NEW w \in Windows, NEW found \in BOOLEAN,
         Desk!BeginWindow(h, kind, w, found)
  PROVE  DeskInv'
<1> DEFINE new == [at |-> IF found THEN "ask" ELSE "done", kind |-> kind, ok |-> FALSE,
                   missed |-> FALSE, verified |-> FALSE, disturbed |-> FALSE,
                   window |-> w, before |-> Desk!Shape(w)]
<1>1. act' = [act EXCEPT ![h] = new] /\ UNCHANGED <<seat, held, open, win, stuck, want>>
      /\ act[h].at \in {"idle", "done"}
  BY DEF Desk!BeginWindow, Desk!Starts
<1>2. Desk!Shape(w) = DeskShapeIn(win, w) /\ Desk!Shape(w) \in DeskGeometry
  BY DeskViewIs
<1>3. new \in DeskRequests
  BY <1>2 DEF DeskRequests
<1>4. DeskRequestOK(new, open, win)
  BY <1>2, <1>3 DEF DeskRequestOK
<1>5. \A k \in Desk!Keys : DeskWillFree(act[h], k, seat) => DeskWillFree(new, k, seat)
  BY <1>1 DEF DeskWillFree
<1> HIDE DEF new
<1>6. DeskActOK(new, open, win, seat)
  BY <1>4 DEF DeskActOK
<1>7. QED
  BY <1>1, <1>5, <1>6, DeskHandGoesOn

\* What the window manager does when it grants a request.
LEMMA DeskChangedIs ==
  ASSUME DeskInv, NEW h \in Workers, DeskRequestOK(act[h], open, win), act[h].at = "ask", act[h].window \in open
  PROVE  /\ Desk!Changed(h) \in [Windows -> DeskViews]
         /\ \A v \in Windows : Desk!Changed(h)[v].active => v \in open
         /\ act[h].kind \notin {"move", "resize"} =>
                \A v \in Windows : DeskShapeIn(Desk!Changed(h), v) = DeskShapeIn(win, v)
         /\ act[h].kind \in {"move", "resize"} =>
                /\ DeskShapeIn(Desk!Changed(h), act[h].window) = Desk!Wanted(h)
                /\ \A v \in Windows : v # act[h].window => DeskShapeIn(Desk!Changed(h), v) = DeskShapeIn(win, v)
<1> DEFINE a == act[h]
           w == a.window
<1>1. a \in DeskRequests /\ w \in Windows /\ a.kind \in Desk!Commands /\ win[w] \in DeskViews /\ win \in [Windows -> DeskViews]
      /\ a.before \in DeskGeometry
  BY DEF DeskRequestOK, DeskRequests, DeskInv
<1>2. \A v \in Windows : win[v].active => v \in open
  BY DEF DeskInv
<1>3. CASE a.kind = "focus"
  <2>1. Desk!Changed(h) = Desk!Focused(w)
    BY <1>3 DEF Desk!Changed
  <2>2. Desk!Focused(w) \in [Windows -> DeskViews] /\ \A v \in Windows : Desk!Focused(w)[v].active => v \in open
    BY <1>1, DeskFocusIs
  <2>3. \A v \in Windows : DeskShapeIn(Desk!Focused(w), v) = DeskShapeIn(win, v)
    BY <1>1, DeskFocusIs DEF DeskShapeIn
  <2>4. QED
    BY <1>3, <2>1, <2>2, <2>3
<1>4. CASE a.kind = "close"
  <2>1. Desk!Changed(h) = win
    BY <1>4 DEF Desk!Changed
  <2>2. QED
    BY <1>1, <1>2, <1>4, <2>1
<1>5. CASE a.kind = "restore"
  <2> DEFINE new == [Desk!Focused(w)[w] EXCEPT !.state = "normal"]
  <2>1. Desk!Changed(h) = [Desk!Focused(w) EXCEPT ![w] = new]
    BY <1>5 DEF Desk!Changed
  <2>2. Desk!Focused(w) \in [Windows -> DeskViews] /\ Desk!Focused(w)[w] \in DeskViews
    BY <1>1, DeskFocusIs
  <2>3. new \in DeskViews /\ new.x = Desk!Focused(w)[w].x /\ new.width = Desk!Focused(w)[w].width /\ new.active = Desk!Focused(w)[w].active
    BY <2>2 DEF DeskViews
  <2>a. \A v \in Windows : Desk!Focused(w)[v].x = win[v].x /\ Desk!Focused(w)[v].width = win[v].width
    BY <1>1, DeskFocusIs
  <2>b. \A v \in Windows : Desk!Focused(w)[v].active => v \in open
    BY <1>1, <1>5, DeskFocusIs
  <2> HIDE DEF new
  <2>c. PICK wn : wn = Desk!Focused(w)
    OBVIOUS
  <2>d. Desk!Changed(h) = [wn EXCEPT ![w] = new] /\ wn \in [Windows -> DeskViews]
    BY <2>1, <2>2, <2>c
  <2>4. Desk!Changed(h) \in [Windows -> DeskViews] /\ Desk!Changed(h)[w] = new
        /\ \A v \in Windows : v # w => Desk!Changed(h)[v] = wn[v]
    BY <1>1, <2>3, <2>d, DeskReplaced
  <2>5. \A v \in Windows : DeskShapeIn(Desk!Changed(h), v) = DeskShapeIn(win, v)
    <3>1. \A v \in Windows : Desk!Changed(h)[v].x = win[v].x /\ Desk!Changed(h)[v].width = win[v].width
      BY <1>1, <2>3, <2>4, <2>a, <2>c
    <3>2. QED
      BY <3>1 DEF DeskShapeIn
  <2>6. \A v \in Windows : Desk!Changed(h)[v].active => v \in open
    BY <1>1, <2>3, <2>4, <2>b, <2>c
  <2>7. QED
    BY <1>5, <2>4, <2>5, <2>6
<1>6. CASE a.kind \in {"minimize", "maximize"}
  <2> DEFINE new == IF a.kind = "minimize" THEN [win[w] EXCEPT !.state = "minimized", !.active = FALSE]
                                           ELSE [win[w] EXCEPT !.state = "maximized"]
  <2>1. Desk!Changed(h) = [win EXCEPT ![w] = new]
    BY <1>1, <1>6 DEF Desk!Changed
  <2>2. new \in DeskViews /\ new.x = win[w].x /\ new.width = win[w].width
    BY <1>1 DEF DeskViews
  <2> HIDE DEF new
  <2>3. Desk!Changed(h) \in [Windows -> DeskViews] /\ Desk!Changed(h)[w] = new
        /\ \A v \in Windows : v # w => Desk!Changed(h)[v] = win[v]
    BY <1>1, <2>1, <2>2, DeskReplaced
  <2>4. \A v \in Windows : DeskShapeIn(Desk!Changed(h), v) = DeskShapeIn(win, v)
    BY <2>2, <2>3 DEF DeskShapeIn
  <2>5. QED
    BY <1>2, <1>6, <2>3, <2>4
<1>7. CASE a.kind \in {"move", "resize"}
  <2> DEFINE new == [win[w] EXCEPT !.x = Desk!Moved(h).x, !.width = Desk!Moved(h).width]
  <2>1. Desk!Changed(h) = [win EXCEPT ![w] = new]
    BY <1>1, <1>7 DEF Desk!Changed
  <2>2. Desk!Shape(w) \in DeskGeometry
    BY <1>1, DeskViewIs
  <2>3. Desk!Moved(h) \in DeskGeometry
    BY <1>1, <2>2 DEF Desk!Moved, DeskGeometry
  <2>4. new \in DeskViews /\ new.x = Desk!Moved(h).x /\ new.width = Desk!Moved(h).width /\ new.active = win[w].active
    BY <1>1, <2>3 DEF DeskViews, DeskGeometry
  <2> HIDE DEF new
  <2>5. Desk!Changed(h) \in [Windows -> DeskViews] /\ Desk!Changed(h)[w] = new
        /\ \A v \in Windows : v # w => Desk!Changed(h)[v] = win[v]
    BY <1>1, <2>1, <2>4, DeskReplaced
  <2>6. DeskShapeIn(Desk!Changed(h), w) = Desk!Moved(h)
    BY <2>3, <2>4, <2>5 DEF DeskShapeIn, DeskGeometry
  <2>7. Desk!Wanted(h) = Desk!Moved(h)
    <3>1. CASE a.disturbed
      BY <3>1 DEF Desk!Wanted
    <3>2. CASE ~a.disturbed
      <4>1. a.before = want[w] /\ Desk!Shape(w) = want[w]
        BY <1>1, <3>2, DeskViewIs DEF DeskRequestOK
      <4>2. QED
        BY <3>2, <4>1 DEF Desk!Wanted, Desk!Moved
    <3>3. QED
      BY <3>1, <3>2
  <2>8. \A v \in Windows : v # w => DeskShapeIn(Desk!Changed(h), v) = DeskShapeIn(win, v)
    BY <2>5 DEF DeskShapeIn
  <2>9. \A v \in Windows : Desk!Changed(h)[v].active => v \in open
    BY <1>2, <2>4, <2>5
  <2>10. QED
    BY <1>7, <2>5, <2>6, <2>7, <2>8, <2>9
<1>8. QED
  BY <1>1, <1>3, <1>4, <1>5, <1>6, <1>7, DeskKindsAre

LEMMA DeskAskStep ==
  ASSUME DeskInv, NEW h \in Workers, NEW how \in {"granted", "refused", "error"}, Desk!Ask(h, how)
  PROVE  DeskInv'
<1> DEFINE a == act[h]
           w == a.window
           does == how = "granted" /\ w \in open
           at == IF how = "error" /\ Desk!Fatal(a.kind) THEN "done" ELSE "look"
           new == [a EXCEPT !.at = at]
           ac == [act EXCEPT ![h] = new]
<1>1. DeskRequestOK(a, open, win) /\ a.at = "ask" /\ a \in DeskRequests /\ ~a.ok
  BY DeskKnown DEF Desk!Ask, DeskRequestOK
<1>2. new \in DeskRequests /\ new.at = at /\ new.ok = a.ok
  BY <1>1 DEF DeskRequests
<1>3. act' = (IF does THEN Desk!Disturb(ac) ELSE ac)
      /\ win' = (IF does THEN Desk!Changed(h) ELSE win)
      /\ want' = (IF does /\ a.kind \in {"move", "resize"} THEN [want EXCEPT ![w] = Desk!Wanted(h)] ELSE want)
      /\ UNCHANGED <<seat, held, open, stuck>>
  BY DEF Desk!Ask
<1> HIDE DEF new
<1>4. DeskActOK(new, open, win, seat)
  <2>1. at \in {"done", "look"}
    OBVIOUS
  <2>2. DeskRequestOK(new, open, win)
    BY <1>1, <1>2, <2>1 DEF DeskRequestOK
  <2>3. QED
    BY <2>2 DEF DeskActOK
<1>5. \A k \in Desk!Keys : ~DeskWillFree(a, k, seat)
  BY <1>1 DEF DeskWillFree
<1>6. DOMAIN ac = Workers /\ ac[h] = new /\ \A g \in Workers : g # h => ac[g] = act[g]
  BY DEF DeskInv
<1> HIDE DEF ac
<1>7. \A g \in Workers :
         /\ DeskActOK(ac[g], open, win, seat)
         /\ \A k \in Desk!Keys : DeskWillFree(act[g], k, seat) => DeskWillFree(ac[g], k, seat)
  BY <1>4, <1>5, <1>6 DEF DeskInv
<1>8. CASE does
  <2>1. w \in Windows /\ w \in open
    BY <1>1, <1>8 DEF DeskRequests
  <2>2. win' \in [Windows -> DeskViews] /\ \A v \in Windows : win'[v].active => v \in open'
    BY <1>1, <1>3, <1>8, DeskChangedIs
  <2>3. want' = [v \in Windows |-> DeskShapeIn(win', v)]
    <3>1. CASE a.kind \in {"move", "resize"}
      BY <1>1, <1>3, <1>8, <2>1, <3>1, DeskChangedIs DEF DeskInv
    <3>2. CASE a.kind \notin {"move", "resize"}
      BY <1>1, <1>3, <1>8, <2>1, <3>2, DeskChangedIs DEF DeskInv
    <3>3. QED
      BY <3>1, <3>2
  <2>4. act' = Desk!Disturb(ac) /\ open' \subseteq open
    BY <1>3, <1>8
  <2>5. QED
    BY <1>3, <1>6, <1>7, <2>2, <2>3, <2>4, DeskDisturbs
<1>9. CASE ~does
  <2>1. act' = [act EXCEPT ![h] = new] /\ UNCHANGED <<seat, held, open, stuck, win, want>>
    BY <1>3, <1>9 DEF ac
  <2>2. QED
    BY <1>4, <1>5, <2>1, DeskHandGoesOn
<1>10. QED
  BY <1>8, <1>9

LEMMA DeskLookStep ==
  ASSUME DeskInv, NEW h \in Workers, NEW unread \in BOOLEAN, Desk!Look(h, unread)
  PROVE  DeskInv'
<1> DEFINE a == act[h]
           w == a.window
           blind == unread \/ (a.kind \in DOMAIN Desk!States /\ Desk!IsGone(w))
           verified == a.kind = "close" \/ (~blind /\ a.kind \notin {"move", "resize"})
           ok == IF blind THEN Desk!Trusted(a.kind) ELSE Desk!Observed(a.kind, w)
           new == [a EXCEPT !.at = "done", !.ok = ok, !.verified = verified, !.missed = unread, !.disturbed = FALSE]
<1>1. DeskRequestOK(a, open, win) /\ a.at = "look" /\ a \in DeskRequests /\ a.kind \in Desk!Commands /\ w \in Windows
  BY DeskKnown DEF Desk!Look, DeskRequestOK, DeskRequests
<1>2. act' = [act EXCEPT ![h] = new] /\ UNCHANGED <<seat, held, open, win, stuck, want>>
  BY DEF Desk!Look
<1>3. DOMAIN Desk!States = {"minimize", "maximize", "restore"}
  BY DEF Desk!States
<1>4. win[w] \in DeskViews
  BY <1>1 DEF DeskInv
<1>5. ok \in BOOLEAN
  BY <1>1, <1>3, <1>4, DeskKindsAre DEF Desk!Trusted, Desk!Observed, Desk!HasFocus, Desk!HasState, Desk!IsGone, DeskViews
<1>6. ok /\ verified /\ ~unread =>
        IF a.kind = "close" THEN w \notin open
        ELSE w \in open /\ IF a.kind = "focus" THEN win[w].active ELSE win[w].state = Desk!States[a.kind]
  <2>1. CASE a.kind = "close"
    BY <1>3, <2>1 DEF Desk!Observed, Desk!IsGone
  <2>2. CASE a.kind = "focus"
    BY <1>1, <1>3, <2>2 DEF Desk!Observed, Desk!HasFocus, DeskInv
  <2>3. CASE a.kind \in {"minimize", "maximize", "restore"}
    BY <1>3, <2>3 DEF Desk!Observed, Desk!HasState, Desk!IsGone
  <2>4. QED
    BY <1>1, <2>1, <2>2, <2>3, DeskKindsAre
<1>7. new \in DeskRequests /\ new.at = "done" /\ new.ok = ok /\ new.verified = verified /\ new.missed = unread
      /\ new.kind = a.kind /\ new.window = w
  BY <1>1, <1>5 DEF DeskRequests
<1> HIDE DEF new, ok, verified
<1>8. DeskRequestOK(new, open, win)
  BY <1>6, <1>7 DEF DeskRequestOK, DeskSeen
<1>9. \A k \in Desk!Keys : ~DeskWillFree(a, k, seat)
  BY <1>1 DEF DeskWillFree
<1>10. DeskActOK(new, open, win, seat)
  BY <1>8 DEF DeskActOK
<1>11. QED
  BY <1>2, <1>9, <1>10, DeskHandGoesOn

LEMMA DeskStep == DeskInv /\ [Desk!Next]_(Desk!diVars) => DeskInv'
<1> SUFFICES ASSUME DeskInv, [Desk!Next]_(Desk!diVars) PROVE DeskInv'
  OBVIOUS
<1>1. CASE UNCHANGED Desk!diVars
  BY <1>1 DEF Desk!diVars, DeskInv, DeskReleased
<1>2. ASSUME NEW h \in Workers, NEW bad \in BOOLEAN, Desk!Release(h, bad) \/ Desk!Answer(h, bad) \/ Desk!Look(h, bad)
      PROVE  DeskInv'
  BY <1>2, DeskReleaseStep, DeskAnswerStep, DeskLookStep
<1>3. ASSUME NEW w \in Windows, Desk!Obey(w) PROVE DeskInv'
  BY <1>3, DeskClosedStep DEF Desk!Obey
<1>4. QED
  BY <1>1, <1>2, <1>3, DeskBeginStep, DeskSendStep, DeskBeginWindowStep, DeskAskStep, DeskUserActsStep DEF Desk!Next

LEMMA DeskIsSound == DeskInv => Desk!DesktopIsSound
<1> SUFFICES ASSUME DeskInv PROVE Desk!DesktopIsSound
  OBVIOUS
<1>1. Desk!NothingStaysDown
  BY DEF Desk!NothingStaysDown, DeskInv, DeskReleased, DeskWillFree, Desk!LetsGo, DeskTidy
<1>2. ASSUME NEW h \in Workers, Desk!Done(h) PROVE DeskInputOK(act[h], seat) \/ DeskRequestOK(act[h], open, win)
  BY <1>2 DEF DeskInv, DeskActOK, Desk!Done, Desk!Idle
<1>3. Desk!SuccessMeansAccepted
  <2>1. \A h \in Workers : DeskRequestOK(act[h], open, win) => act[h].kind \in Desk!Commands
    BY DEF DeskRequestOK, DeskRequests
  <2>2. \A h \in Workers : DeskInputOK(act[h], seat) /\ act[h].missed /\ act[h].ok => act[h].kind \in DeskLax(seat)
    BY DEF DeskInputOK
  <2>3. QED
    BY <1>2, <2>1, <2>2, DeskKindsDiffer DEF Desk!SuccessMeansAccepted, DeskLax
<1>4. Desk!VerifiedWasSeen
  <2>1. \A h \in Workers : DeskInputOK(act[h], seat) => act[h].kind \in Desk!Kinds
    BY DEF DeskInputOK, DeskInputs
  <2>2. QED
    BY <1>2, <2>1, DeskKindsDiffer DEF Desk!VerifiedWasSeen, DeskRequestOK, DeskSeen
<1>5. Desk!MovesKeepTheRest
  BY DeskViewIs DEF Desk!MovesKeepTheRest
<1>6. QED
  BY <1>1, <1>3, <1>4, <1>5 DEF Desk!DesktopIsSound

LEMMA DeskAlways == ActivitiesSpec => [](part = "desktop" => DeskInv)
<1> DEFINE Inv == part = "desktop" => DeskInv
<1>1. ActivitiesInit => Inv
  BY DeskStarts DEF ActivitiesInit
<1>2. Inv /\ [ActivitiesNext]_activityVars => Inv'
  <2>1. ASSUME [ActivitiesNext]_activityVars PROVE part' = part /\ (part = "desktop" => [Desk!Next]_(Desk!diVars))
    BY <2>1 DEF ActivitiesNext, activityVars, deskVars, Desk!diVars
  <2>2. QED
    BY <2>1, DeskStep
<1>3. QED
  BY <1>1, <1>2, PTL DEF ActivitiesSpec

-----------------------------------------------------------------------------
(* Sound                                                                    *)
-----------------------------------------------------------------------------
(* No output is called none.                                                *)
LEMMA SoundOutputAssumption == Sound!None \notin Outputs
BY ActivitiesAssumption DEF Sound!None

SoundReadings == [volume : Sound!Volumes, muted : BOOLEAN]
SoundValues == [volume |-> Sound!Volumes, muted |-> BOOLEAN]
SoundSteps == {"capture", "set", "check", "restore volume", "restore mute"}
SoundChanges == [at : SoundSteps \cup {"done"}, field : {"volume", "muted"}, value : Sound!Volumes \cup BOOLEAN,
            valid : BOOLEAN, prior : SoundReadings, ok : BOOLEAN, verified : BOOLEAN,
            restored : BOOLEAN, alone : BOOLEAN]
SoundFits(field, value) == IF field = "volume" THEN value \in Sound!Volumes ELSE value \in BOOLEAN

\* The field that a change k leaves alone is as it was read.
SoundSparesRest(k, now) == IF k.field = "volume" THEN now.muted = k.prior.muted ELSE now.volume = k.prior.volume

(***************************************************************************)
(* A change k that has the output to itself: before the device is set it   *)
(* is as it was read; then all but the one field is; without an event the  *)
(* device has what was asked for.                                          *)
(***************************************************************************)
SoundAlone(k, lv, df, ev) ==
    /\ df # Sound!None
    /\ k.at = "set" => lv[df] = k.prior
    /\ k.at \in {"check", "restore volume"} => SoundSparesRest(k, lv[df])
    /\ k.at = "check" /\ ev = 0 => lv[df][k.field] = k.value
    /\ k.at \in {"restore volume", "restore mute"} => ev # 0
    /\ k.at = "restore mute" => lv[df].volume = k.prior.volume

SoundFinished(k, lv, df, b, ev) ==
    /\ k.verified /\ k.alone => df # Sound!None /\ lv[df][k.field] = k.value
    /\ k.restored /\ k.alone => ~k.ok /\ df # Sound!None /\ lv[df] = k.prior
    /\ b = "windows" /\ ev = 0 /\ k.alone => k.ok \/ ~k.valid

SoundChangeOK(k, lv, df, b, ev) ==
    \/ k = Sound!Idle
    \/ /\ k \in SoundChanges /\ SoundFits(k.field, k.value)
       /\ k.at # "done" => ~k.ok /\ ~k.verified /\ ~k.restored
       /\ k.at = "done" => SoundFinished(k, lv, df, b, ev)
       /\ k.at \in SoundSteps \ {"set"} => b = "windows"
       /\ b = "windows" /\ k.alone /\ k.at \in SoundSteps \ {"capture"} => SoundAlone(k, lv, df, ev)

SoundInv ==
    /\ sound \in {"windows", "linux"} /\ level \in [Outputs -> SoundReadings]
    /\ default \in Outputs \cup {Sound!None} /\ events \in Nat /\ (events = 0 => default # Sound!None)
    /\ DOMAIN change = Workers /\ \A c \in Workers : SoundChangeOK(change[c], level, default, sound, events)

LEMMA SoundStarts == Sound!Init => SoundInv
BY SoundOutputAssumption DEF Sound!Init, SoundInv, SoundChangeOK, SoundReadings, Sound!Volumes

LEMMA SoundNotIdle == \A k \in SoundChanges : k # Sound!Idle
<1>1. \A k \in SoundChanges : k.at \in SoundSteps \cup {"done"}
  BY DEF SoundChanges
<1>2. Sound!Idle.at \notin SoundSteps \cup {"done"}
  BY DEF Sound!Idle, SoundSteps
<1>3. QED
  BY <1>1, <1>2

\* A disturbed change claims nothing.
LEMMA SoundDisturbed ==
  ASSUME NEW k, NEW lv, NEW df, NEW b, NEW ev, NEW lw, NEW dg, NEW ew, k # Sound!Idle, SoundChangeOK(k, lv, df, b, ev)
  PROVE  SoundChangeOK([k EXCEPT !.alone = FALSE], lw, dg, b, ew)
<1> DEFINE new == [k EXCEPT !.alone = FALSE]
<1>1. /\ k \in SoundChanges /\ SoundFits(k.field, k.value) /\ (k.at # "done" => ~k.ok /\ ~k.verified /\ ~k.restored)
      /\ k.at \in SoundSteps \ {"set"} => b = "windows"
  BY DEF SoundChangeOK
<1>2. new \in SoundChanges /\ new.alone = FALSE /\ new.at = k.at /\ new.field = k.field /\ new.value = k.value
      /\ new.ok = k.ok /\ new.verified = k.verified /\ new.restored = k.restored
  BY <1>1 DEF SoundChanges
<1> HIDE DEF new
<1>3. ~new.alone /\ SoundFits(new.field, new.value) /\ (new.at # "done" => ~new.ok /\ ~new.verified /\ ~new.restored)
      /\ (new.at \in SoundSteps \ {"set"} => b = "windows")
  BY <1>1, <1>2
<1>4. SoundFinished(new, lw, dg, b, ew)
  <2>1. new.alone = FALSE
    BY <1>2
  <2>2. QED
    BY <2>1, Zenon DEF SoundFinished
<1>5. new \in SoundChanges
  BY <1>2
<1>6. ASSUME new.alone PROVE FALSE
  BY <1>2, <1>6
<1>7. SoundChangeOK(new, lw, dg, b, ew)
  BY <1>3, <1>4, <1>5, <1>6, Zenon DEF SoundChangeOK
<1>8. QED
  BY <1>7 DEF new

LEMMA SoundStays ==
  ASSUME NEW k, NEW lv, NEW df, NEW b, NEW ev \in Nat, NEW ew \in Nat, ev <= ew, SoundChangeOK(k, lv, df, b, ev)
  PROVE  SoundChangeOK(k, lv, df, b, ew)
<1>1. (ew = 0 => ev = 0) /\ (ev # 0 => ew # 0)
  OBVIOUS
<1>2. SoundFinished(k, lv, df, b, ev) => SoundFinished(k, lv, df, b, ew)
  BY <1>1, Zenon DEF SoundFinished
<1>3. SoundAlone(k, lv, df, ev) => SoundAlone(k, lv, df, ew)
  BY <1>1, Zenon DEF SoundAlone
<1>4. QED
  BY <1>2, <1>3, Zenon DEF SoundChangeOK

LEMMA SoundCounted ==
  ASSUME SoundInv, NEW happens \in BOOLEAN, Sound!Event(happens)
  PROVE  events' \in Nat /\ events <= events' /\ (happens => events' # 0)
BY DEF SoundInv, Sound!Event

\* One caller's change goes on, and nothing else happens.
LEMMA SoundQuietly ==
  ASSUME SoundInv, NEW c \in Workers, NEW new, events' \in Nat, events <= events',
         UNCHANGED <<sound, level, default>>, change' = [change EXCEPT ![c] = new],
         SoundChangeOK(new, level, default, sound, events')
  PROVE  SoundInv'
<1>1. \A d \in Workers : SoundChangeOK(change'[d], level, default, sound, events')
  BY SoundStays DEF SoundInv
<1>2. events' = 0 => events = 0
  BY DEF SoundInv
<1>3. QED
  BY <1>1, <1>2 DEF SoundInv

\* One caller's change goes on and is heard.
LEMMA SoundLoudly ==
  ASSUME SoundInv, NEW c \in Workers, NEW new, events' \in Nat, events <= events',
         UNCHANGED <<sound, default>>, level' \in [Outputs -> SoundReadings],
         change' = Sound!Disturb([change EXCEPT ![c] = new], {c}),
         SoundChangeOK(new, level', default, sound, events')
  PROVE  SoundInv'
<1>1. \A d \in Workers : SoundChangeOK(change'[d], level', default, sound, events')
  <2> TAKE d \in Workers
  <2>1. CASE d = c
    BY <2>1 DEF SoundInv, Sound!Disturb
  <2>2. CASE d # c /\ change[d].at = "idle"
    <3>1. change'[d] = change[d]
      BY <2>2 DEF SoundInv, Sound!Disturb
    <3>2. change[d] = Sound!Idle
      BY <2>2 DEF SoundInv, SoundChangeOK, SoundChanges, SoundSteps
    <3>3. QED
      BY <3>1, <3>2 DEF SoundChangeOK
  <2>3. CASE d # c /\ change[d].at # "idle"
    <3>1. change'[d] = [change[d] EXCEPT !.alone = FALSE]
      BY <2>3 DEF SoundInv, Sound!Disturb
    <3>2. change[d] # Sound!Idle /\ SoundChangeOK(change[d], level, default, sound, events)
      BY <2>3 DEF SoundInv, Sound!Idle
    <3>3. QED
      BY <3>1, <3>2, SoundDisturbed
  <2>4. QED
    BY <2>1, <2>2, <2>3
<1>2. events' = 0 => events = 0
  BY DEF SoundInv
<1>3. DOMAIN change' = Workers
  BY DEF Sound!Disturb
<1>4. QED
  BY <1>1, <1>2, <1>3 DEF SoundInv

\* In lv what is written is written, and the other field is as it was.
SoundCarries(lv, field, v) ==
    /\ lv \in [Outputs -> SoundReadings] /\ lv[default][field] = v
    /\ field = "volume" => lv[default].muted = level[default].muted
    /\ field = "muted" => lv[default].volume = level[default].volume

LEMMA SoundWrote ==
  ASSUME SoundInv, default # Sound!None, NEW field \in {"volume", "muted"}, NEW v, SoundFits(field, v),
         NEW lv, lv = [level EXCEPT ![default][field] = v]
  PROVE  SoundCarries(lv, field, v)
<1>1. default \in Outputs /\ level[default] \in SoundReadings
  BY DEF SoundInv
<1>2. CASE field = "volume"
  <2>1. [level[default] EXCEPT !.volume = v] \in SoundReadings
    BY <1>1, <1>2 DEF SoundReadings, SoundFits
  <2>2. lv = [level EXCEPT ![default] = [level[default] EXCEPT !.volume = v]]
    BY <1>2
  <2>3. QED
    BY <1>1, <1>2, <2>1, <2>2 DEF SoundInv, SoundReadings, SoundCarries
<1>3. CASE field = "muted"
  <2>1. [level[default] EXCEPT !.muted = v] \in SoundReadings
    BY <1>1, <1>3 DEF SoundReadings, SoundFits
  <2>2. lv = [level EXCEPT ![default] = [level[default] EXCEPT !.muted = v]]
    BY <1>3
  <2>3. QED
    BY <1>1, <1>3, <2>1, <2>2 DEF SoundInv, SoundReadings, SoundCarries
<1>4. QED
  BY <1>2, <1>3

LEMMA SoundUserActsStep == ASSUME SoundInv, Sound!UserActs PROVE SoundInv'
<1>1. events' \in Nat /\ events' # 0 /\ sound' = sound
  BY SoundCounted DEF Sound!UserActs
<1>2. level' \in [Outputs -> SoundReadings] /\ default' \in Outputs \cup {Sound!None}
  <2>1. level \in [Outputs -> SoundReadings] /\ default \in Outputs \cup {Sound!None}
    BY DEF SoundInv
  <2>2. ASSUME NEW o \in Outputs PROVE /\ [level[o] EXCEPT !.volume = 2] \in SoundReadings
                                       /\ [level[o] EXCEPT !.muted = ~@] \in SoundReadings
    BY <2>1, <2>2 DEF SoundReadings, Sound!Volumes
  <2>3. CASE \E o \in Outputs : level' = [level EXCEPT ![o].volume = 2] /\ default' = default
    <3>1. PICK o \in Outputs : level' = [level EXCEPT ![o] = [level[o] EXCEPT !.volume = 2]] /\ default' = default
      BY <2>3
    <3>2. QED
      BY <2>1, <2>2, <3>1
  <2>4. CASE \E o \in Outputs : level' = [level EXCEPT ![o].muted = ~@] /\ default' = default
    <3>1. PICK o \in Outputs : level' = [level EXCEPT ![o] = [level[o] EXCEPT !.muted = ~@]] /\ default' = default
      BY <2>4
    <3>2. QED
      BY <2>1, <2>2, <3>1
  <2>5. QED
    BY <2>1, <2>3, <2>4 DEF Sound!UserActs
<1>3. change' = Sound!Disturb(change, {})
  BY DEF Sound!UserActs
<1>4. \A d \in Workers : SoundChangeOK(change'[d], level', default', sound, events')
  <2> TAKE d \in Workers
  <2>1. CASE change[d].at = "idle"
    <3>1. change[d] = Sound!Idle
      BY <2>1 DEF SoundInv, SoundChangeOK, SoundChanges, SoundSteps
    <3>2. QED
      BY <1>3, <2>1, <3>1 DEF SoundChangeOK, Sound!Disturb
  <2>2. CASE change[d].at # "idle"
    <3>1. change'[d] = [change[d] EXCEPT !.alone = FALSE]
      BY <1>3, <2>2 DEF Sound!Disturb
    <3>2. change[d] # Sound!Idle /\ SoundChangeOK(change[d], level, default, sound, events)
      BY <2>2 DEF SoundInv, Sound!Idle
    <3>3. QED
      BY <3>1, <3>2, SoundDisturbed
  <2>3. QED
    BY <2>1, <2>2
<1>5. DOMAIN change' = Workers
  BY <1>3 DEF Sound!Disturb
<1>6. QED
  BY <1>1, <1>2, <1>4, <1>5 DEF SoundInv

LEMMA SoundBeginStep ==
  ASSUME SoundInv, NEW c \in Workers, NEW field \in {"volume", "muted"}, NEW value, SoundFits(field, value),
         NEW valid \in BOOLEAN, Sound!Begin(c, field, value, valid)
  PROVE  SoundInv'
<1> DEFINE new == [at |-> IF ~valid THEN "done" ELSE IF sound = "windows" THEN "capture" ELSE "set",
         field |-> field, value |-> value, valid |-> valid, prior |-> Sound!Unread,
         ok |-> FALSE, verified |-> FALSE, restored |-> FALSE, alone |-> TRUE]
<1>1. new \in SoundChanges
  BY DEF SoundChanges, SoundSteps, SoundFits, Sound!Unread, SoundReadings, Sound!Volumes
<1>2. SoundChangeOK(new, level, default, sound, events)
  BY <1>1 DEF SoundChangeOK, SoundFinished, SoundSteps, SoundInv
<1>3. change' = [change EXCEPT ![c] = new] /\ UNCHANGED <<sound, level, default, events>>
  BY DEF Sound!Begin
<1> HIDE DEF new
<1>4. events' \in Nat /\ events <= events'
  BY <1>3 DEF SoundInv
<1>5. QED
  BY <1>2, <1>3, <1>4, SoundQuietly

\* The change of a caller who is at some step.
LEMMA SoundKnown ==
  ASSUME SoundInv, NEW c \in Workers, change[c].at \in SoundSteps
  PROVE  /\ change[c] \in SoundChanges /\ SoundFits(change[c].field, change[c].value)
         /\ ~change[c].ok /\ ~change[c].verified /\ ~change[c].restored
         /\ change[c].at # "set" => sound = "windows"
         /\ sound = "windows" /\ change[c].alone /\ change[c].at # "capture" => SoundAlone(change[c], level, default, events)
<1>1. change[c] # Sound!Idle
  <2>1. Sound!Idle.at \notin SoundSteps
    BY DEF Sound!Idle, SoundSteps
  <2>2. QED
    BY <2>1
<1>2. SoundChangeOK(change[c], level, default, sound, events)
  BY DEF SoundInv
<1>3. change[c].at # "done" /\ (change[c].at # "set" => change[c].at \in SoundSteps \ {"set"})
      /\ (change[c].at # "capture" => change[c].at \in SoundSteps \ {"capture"})
  BY DEF SoundSteps
<1>4. QED
  BY <1>1, <1>2, <1>3, Zenon DEF SoundChangeOK

LEMMA SoundCaptureStep ==
  ASSUME SoundInv, NEW c \in Workers, NEW fails \in BOOLEAN, Sound!Capture(c, fails)
  PROVE  SoundInv'
<1> DEFINE k == change[c]
<1>1. change[c].at = "capture" /\ k \in SoundChanges /\ SoundFits(k.field, k.value) /\ ~k.ok /\ ~k.verified /\ ~k.restored
      /\ sound = "windows"
  BY SoundKnown DEF Sound!Capture, SoundSteps
<1>2. events' \in Nat /\ events <= events' /\ (fails => events' # 0) /\ UNCHANGED <<sound, level, default>>
  BY SoundCounted DEF Sound!Capture
<1>3. CASE fails \/ default = Sound!None
  <2> DEFINE new == [k EXCEPT !.at = "done"]
  <2>1. new \in SoundChanges /\ new.at = "done" /\ new.field = k.field /\ new.value = k.value
        /\ new.ok = k.ok /\ new.verified = k.verified /\ new.restored = k.restored
    BY <1>1 DEF SoundChanges
  <2>2. change' = [change EXCEPT ![c] = new]
    BY <1>3 DEF Sound!Capture
  <2> HIDE DEF new
  <2>3. events' # 0
    BY <1>2, <1>3 DEF SoundInv
  <2>4. SoundChangeOK(new, level, default, sound, events')
    BY <1>1, <2>1, <2>3 DEF SoundChangeOK, SoundFinished, SoundSteps
  <2>5. QED
    BY <1>2, <2>2, <2>4, SoundQuietly
<1>4. CASE ~(fails \/ default = Sound!None)
  <2> DEFINE new == [k EXCEPT !.at = "set", !.prior = level[default], !.alone = TRUE]
  <2>1. level[default] \in SoundReadings
    BY <1>4 DEF SoundInv
  <2>2. new \in SoundChanges /\ new.at = "set" /\ new.field = k.field /\ new.value = k.value /\ new.prior = level[default]
        /\ new.ok = k.ok /\ new.verified = k.verified /\ new.restored = k.restored
    BY <1>1, <2>1 DEF SoundChanges, SoundSteps
  <2>3. change' = [change EXCEPT ![c] = new]
    BY <1>4 DEF Sound!Capture
  <2> HIDE DEF new
  <2>4. SoundChangeOK(new, level, default, sound, events')
    BY <1>1, <1>4, <2>2 DEF SoundChangeOK, SoundAlone, SoundSteps
  <2>5. QED
    BY <1>2, <2>3, <2>4, SoundQuietly
<1>5. QED
  BY <1>3, <1>4

LEMMA SoundNearFits ==
  ASSUME NEW field \in {"volume", "muted"}, NEW value, SoundFits(field, value)
  PROVE  SoundFits(field, Sound!Near(field, value))
<1>1. CASE field = "volume"
  <2>1. value \in {0, 1, 2}
    BY <1>1 DEF SoundFits, Sound!Volumes
  <2>2. (value + 1) % 3 \in {0, 1, 2}
    BY <2>1
  <2>3. QED
    BY <1>1, <2>2 DEF SoundFits, Sound!Near, Sound!Volumes
<1>2. CASE field = "muted"
  BY <1>2 DEF SoundFits, Sound!Near
<1>3. QED
  BY <1>1, <1>2

LEMMA SoundSetStep ==
  ASSUME SoundInv, NEW c \in Workers, NEW how \in Sound!Outcomes, Sound!Set(c, how)
  PROVE  SoundInv'
<1> DEFINE k == change[c]
           raised == Sound!Raises(how)
           done == [k EXCEPT !.at = "done", !.ok = ~raised]
           next == [k EXCEPT !.at = IF raised THEN "restore volume" ELSE "check"]
<1>1. k.at = "set" /\ k \in SoundChanges /\ SoundFits(k.field, k.value) /\ ~k.ok /\ ~k.verified /\ ~k.restored
      /\ (sound = "windows" /\ k.alone => default # Sound!None /\ level[default] = k.prior)
  BY SoundKnown DEF Sound!Set, SoundSteps, SoundAlone
<1>2. events' \in Nat /\ events <= events' /\ (how # "taken" => events' # 0) /\ UNCHANGED <<sound, default>>
  BY SoundCounted DEF Sound!Set
<1>3. level' = Sound!Written(k.field, k.value, how) /\ k.field \in {"volume", "muted"}
  BY <1>1 DEF Sound!Set, SoundChanges
<1>4. /\ level' \in [Outputs -> SoundReadings]
      /\ default # Sound!None =>
           /\ k.field = "volume" => level'[default].muted = level[default].muted
           /\ k.field = "muted" => level'[default].volume = level[default].volume
           /\ how = "taken" => level'[default][k.field] = k.value
  <2>1. CASE how = "raised" \/ default = Sound!None
    <3>1. level' = level
      BY <1>3, <2>1 DEF Sound!Written
    <3>2. QED
      BY <2>1, <3>1 DEF SoundInv
  <2>2. CASE how = "near" /\ default # Sound!None
    <3>1. level' = [level EXCEPT ![default][k.field] = Sound!Near(k.field, k.value)]
      BY <1>3, <2>2 DEF Sound!Written
    <3>2. SoundFits(k.field, Sound!Near(k.field, k.value))
      BY <1>1, <1>3, SoundNearFits
    <3>3. SoundCarries(level', k.field, Sound!Near(k.field, k.value))
      BY <1>3, <2>2, <3>1, <3>2, SoundWrote
    <3>4. QED
      BY <2>2, <3>3 DEF SoundCarries
  <2>3. CASE how \in {"taken", "raised late"} /\ default # Sound!None
    <3>1. level' = [level EXCEPT ![default][k.field] = k.value]
      BY <1>3, <2>3 DEF Sound!Written
    <3>2. SoundCarries(level', k.field, k.value)
      BY <1>1, <1>3, <2>3, <3>1, SoundWrote
    <3>3. QED
      BY <3>2 DEF SoundCarries
  <2>4. QED
    BY <2>1, <2>2, <2>3 DEF Sound!Outcomes
<1>5. raised \in BOOLEAN /\ (default # Sound!None /\ raised => how # "taken")
  BY DEF Sound!Raises
<1> HIDE DEF raised
<1>6. CASE sound = "linux"
  <2>1. done \in SoundChanges /\ done.at = "done" /\ done.field = k.field /\ done.value = k.value
        /\ done.verified = k.verified /\ done.restored = k.restored
    BY <1>1, <1>5 DEF SoundChanges
  <2>2. change' = Sound!Disturb([change EXCEPT ![c] = done], {c})
    BY <1>6 DEF Sound!Set, Sound!AfterSet, raised
  <2> HIDE DEF done
  <2>3. SoundChangeOK(done, level', default, sound, events')
    BY <1>1, <1>6, <2>1 DEF SoundChangeOK, SoundFinished, SoundSteps
  <2>4. QED
    BY <1>2, <1>4, <2>2, <2>3, SoundLoudly
<1>7. CASE sound = "windows"
  <2>1. next \in SoundChanges /\ next.at = (IF raised THEN "restore volume" ELSE "check") /\ next.field = k.field
        /\ next.value = k.value /\ next.prior = k.prior /\ next.alone = k.alone
        /\ next.ok = k.ok /\ next.verified = k.verified /\ next.restored = k.restored
    BY <1>1 DEF SoundChanges, SoundSteps
  <2>2. change' = Sound!Disturb([change EXCEPT ![c] = next], {c})
    BY <1>7 DEF Sound!Set, Sound!AfterSet, raised
  <2> HIDE DEF next
  <2>3. ASSUME next.alone PROVE SoundAlone(next, level', default, events')
    <3>1. default # Sound!None /\ level[default] = k.prior
      BY <1>1, <1>7, <2>1, <2>3
    <3>2. SoundSparesRest(next, level'[default])
      BY <1>3, <1>4, <2>1, <3>1 DEF SoundSparesRest
    <3>3. raised => events' # 0
      BY <1>2, <1>5, <3>1
    <3>4. events' = 0 => level'[default][k.field] = k.value
      BY <1>2, <1>4, <3>1
    <3>5. QED
      BY <2>1, <3>1, <3>2, <3>3, <3>4 DEF SoundAlone
  <2>4. SoundChangeOK(next, level', default, sound, events')
    BY <1>1, <1>7, <2>1, <2>3 DEF SoundChangeOK, SoundSteps
  <2>5. QED
    BY <1>2, <1>4, <2>2, <2>4, SoundLoudly
<1>8. QED
  BY <1>6, <1>7 DEF SoundInv

LEMMA SoundCheckStep ==
  ASSUME SoundInv, NEW c \in Workers, NEW fails \in BOOLEAN, Sound!Check(c, fails)
  PROVE  SoundInv'
<1> DEFINE k == change[c]
           good == [k EXCEPT !.at = "done", !.ok = TRUE, !.verified = TRUE, !.alone = TRUE]
           bad == [k EXCEPT !.at = "restore volume"]
<1>1. k.at = "check" /\ k \in SoundChanges /\ SoundFits(k.field, k.value) /\ ~k.ok /\ ~k.verified /\ ~k.restored
      /\ sound = "windows" /\ (k.alone => SoundAlone(k, level, default, events))
  BY SoundKnown DEF Sound!Check, SoundSteps
<1>2. events' \in Nat /\ events <= events' /\ (fails => events' # 0) /\ UNCHANGED <<sound, level, default>>
  BY SoundCounted DEF Sound!Check
<1>3. CASE ~fails /\ Sound!Agrees(c)
  <2>1. good \in SoundChanges /\ good.at = "done" /\ good.field = k.field /\ good.value = k.value
        /\ good.ok /\ good.restored = k.restored
    BY <1>1 DEF SoundChanges
  <2>2. change' = [change EXCEPT ![c] = good]
    BY <1>3 DEF Sound!Check
  <2> HIDE DEF good
  <2>3. SoundChangeOK(good, level, default, sound, events')
    BY <1>1, <1>3, <2>1 DEF SoundChangeOK, SoundFinished, Sound!Agrees, SoundSteps
  <2>4. QED
    BY <1>2, <2>2, <2>3, SoundQuietly
<1>4. CASE ~(~fails /\ Sound!Agrees(c))
  <2>1. bad \in SoundChanges /\ bad.at = "restore volume" /\ bad.field = k.field /\ bad.value = k.value
        /\ bad.prior = k.prior /\ bad.alone = k.alone
        /\ bad.ok = k.ok /\ bad.verified = k.verified /\ bad.restored = k.restored
    BY <1>1 DEF SoundChanges, SoundSteps
  <2>2. change' = [change EXCEPT ![c] = bad]
    BY <1>4 DEF Sound!Check
  <2> HIDE DEF bad
  <2>3. ASSUME bad.alone PROVE SoundAlone(bad, level, default, events')
    <3>1. SoundAlone(k, level, default, events)
      BY <1>1, <2>1, <2>3
    <3>2. events' # 0
      BY <1>1, <1>2, <1>4, <3>1 DEF SoundAlone, Sound!Agrees, SoundInv
    <3>3. SoundSparesRest(bad, level[default]) /\ default # Sound!None
      BY <1>1, <2>1, <3>1 DEF SoundAlone, SoundSparesRest
    <3>4. QED
      BY <2>1, <3>2, <3>3 DEF SoundAlone
  <2>4. SoundChangeOK(bad, level, default, sound, events')
    BY <1>1, <2>1, <2>3 DEF SoundChangeOK, SoundSteps
  <2>5. QED
    BY <1>2, <2>2, <2>4, SoundQuietly
<1>5. QED
  BY <1>3, <1>4

LEMMA SoundRestoreStep ==
  ASSUME SoundInv, NEW c \in Workers, NEW raises \in BOOLEAN, Sound!Restore(c, raises)
  PROVE  SoundInv'
<1> DEFINE k == change[c]
           volume == k.at = "restore volume"
           field == IF volume THEN "volume" ELSE "muted"
           fails == raises \/ default = Sound!None
           next == IF fails THEN [at |-> "done", restored |-> FALSE] ELSE Sound!NextRestored(c)
           new == [k EXCEPT !.at = next.at, !.restored = next.restored]
<1>1. k.at \in {"restore volume", "restore mute"} /\ k \in SoundChanges /\ SoundFits(k.field, k.value)
      /\ ~k.ok /\ ~k.verified /\ ~k.restored
      /\ sound = "windows" /\ (k.alone => SoundAlone(k, level, default, events))
  BY SoundKnown DEF Sound!Restore, SoundSteps
<1>2. events' \in Nat /\ events <= events' /\ (raises => events' # 0) /\ UNCHANGED <<sound, default>>
  BY SoundCounted DEF Sound!Restore
<1>3. level' = Sound!Written(field, k.prior[field], IF fails THEN "raised" ELSE "taken")
      /\ change' = Sound!Disturb([change EXCEPT ![c].at = next.at, ![c].restored = next.restored], {c})
  BY DEF Sound!Restore
<1>4. field \in {"volume", "muted"} /\ SoundFits(field, k.prior[field])
  BY <1>1 DEF SoundChanges, SoundReadings, SoundFits
<1> HIDE DEF field
<1>5. /\ level' \in [Outputs -> SoundReadings]
      /\ ~fails => /\ level'[default][field] = k.prior[field]
                   /\ field = "muted" => level'[default].volume = level[default].volume
  <2>1. CASE fails
    BY <1>3, <2>1 DEF Sound!Written, SoundInv
  <2>2. CASE ~fails
    <3>1. PICK f, v : f = field /\ v = k.prior[field]
      OBVIOUS
    <3>2. level' = [level EXCEPT ![default][f] = v]
      BY <1>3, <2>2, <3>1 DEF Sound!Written
    <3>3. f \in {"volume", "muted"} /\ SoundFits(f, v) /\ default # Sound!None
      BY <1>4, <2>2, <3>1
    <3>4. SoundCarries(level', f, v)
      BY <3>2, <3>3, SoundWrote
    <3>5. QED
      BY <3>1, <3>4 DEF SoundCarries
  <2>3. QED
    BY <2>1, <2>2
<1>6. next.at = (IF ~fails /\ volume THEN "restore mute" ELSE "done") /\ next.restored = (~fails /\ ~volume)
  BY DEF Sound!NextRestored
<1>7. new \in SoundChanges /\ new.at = next.at /\ new.restored = next.restored /\ new.field = k.field
      /\ new.value = k.value /\ new.prior = k.prior /\ new.alone = k.alone /\ new.ok = k.ok /\ new.verified = k.verified
  BY <1>1, <1>6 DEF SoundChanges, SoundSteps
<1>8. change' = Sound!Disturb([change EXCEPT ![c] = new], {c})
  <2>1. [change EXCEPT ![c].at = next.at, ![c].restored = next.restored] = [change EXCEPT ![c] = new]
    BY DEF SoundInv
  <2>2. QED
    BY <1>3, <2>1
<1> HIDE DEF new, next
<1>9. ASSUME new.alone PROVE default # Sound!None /\ events' # 0
  <2>1. SoundAlone(k, level, default, events)
    BY <1>1, <1>7, <1>9
  <2>2. default # Sound!None /\ events # 0
    BY <1>1, <2>1 DEF SoundAlone
  <2>3. QED
    BY <1>2, <2>2 DEF SoundInv
<1>10. ASSUME new.alone, new.at = "restore mute" PROVE level'[default].volume = new.prior.volume
  <2>1. ~fails /\ volume
    BY <1>6, <1>7, <1>10
  <2>2. QED
    BY <1>5, <1>7, <2>1 DEF field
<1>11. ASSUME new.alone, new.restored PROVE level'[default] = new.prior
  <2>1. ~fails /\ ~volume
    BY <1>6, <1>7, <1>11
  <2>6. k.at = "restore mute" /\ level[default].volume = k.prior.volume
    BY <1>1, <1>7, <1>11, <2>1 DEF SoundAlone
  <2>2. level'[default].muted = k.prior.muted /\ level'[default].volume = k.prior.volume
    BY <1>5, <2>1, <2>6 DEF field
  <2>3. level'[default] \in SoundReadings /\ k.prior \in SoundReadings
    BY <1>1, <1>2, <1>5, <1>9, <1>11 DEF SoundChanges, SoundInv
  <2>5. QED
    BY <1>7, <2>2, <2>3 DEF SoundReadings
<1>12. SoundChangeOK(new, level', default, sound, events')
  BY <1>1, <1>6, <1>7, <1>9, <1>10, <1>11 DEF SoundChangeOK, SoundAlone, SoundFinished, SoundSteps
<1>13. QED
  BY <1>2, <1>5, <1>8, <1>12, SoundLoudly

LEMMA SoundStep == SoundInv /\ [Sound!Next]_(Sound!auVars) => SoundInv'
<1> SUFFICES ASSUME SoundInv, [Sound!Next]_(Sound!auVars) PROVE SoundInv'
  OBVIOUS
<1>1. CASE UNCHANGED Sound!auVars
  BY <1>1 DEF Sound!auVars, SoundInv
<1>2. ASSUME NEW c \in Workers, NEW valid \in BOOLEAN, Sound!Begin(c, "volume", 1, valid) PROVE SoundInv'
  <2>1. SoundFits("volume", 1)
    BY DEF SoundFits, Sound!Volumes
  <2>2. QED
    BY <1>2, <2>1, SoundBeginStep
<1>3. ASSUME NEW c \in Workers, NEW muted \in BOOLEAN, Sound!Begin(c, "muted", muted, TRUE) PROVE SoundInv'
  <2>1. SoundFits("muted", muted)
    BY DEF SoundFits
  <2>2. QED
    BY <1>3, <2>1, SoundBeginStep
<1>4. ASSUME NEW c \in Workers, NEW bad \in BOOLEAN, Sound!Capture(c, bad) \/ Sound!Check(c, bad) \/ Sound!Restore(c, bad)
      PROVE  SoundInv'
  BY <1>4, SoundCaptureStep, SoundCheckStep, SoundRestoreStep
<1>5. QED
  BY <1>1, <1>2, <1>3, <1>4, SoundUserActsStep, SoundSetStep DEF Sound!Next

LEMMA SoundIsSound == SoundInv => Sound!AnswersMatchTheSound
<1> SUFFICES ASSUME SoundInv PROVE Sound!AnswersMatchTheSound
  OBVIOUS
<1>1. ASSUME NEW c \in Workers, Sound!Done(c) PROVE SoundFinished(change[c], level, default, sound, events)
  <2>1. change[c] # Sound!Idle
    BY <1>1 DEF Sound!Done, Sound!Idle
  <2>2. QED
    BY <1>1, <2>1 DEF SoundInv, SoundChangeOK, Sound!Done
<1>2. QED
  BY <1>1 DEF Sound!AnswersMatchTheSound, Sound!VerifiedIsHeard, Sound!RestoredIsAsBefore, Sound!FailuresHaveReasons, SoundFinished

LEMMA SoundAlways == ActivitiesSpec => [](part = "audio" => SoundInv)
<1> DEFINE Inv == part = "audio" => SoundInv
<1>1. ActivitiesInit => Inv
  BY SoundStarts DEF ActivitiesInit
<1>2. Inv /\ [ActivitiesNext]_activityVars => Inv'
  <2>1. ASSUME [ActivitiesNext]_activityVars PROVE part' = part /\ (part = "audio" => [Sound!Next]_(Sound!auVars))
    BY <2>1 DEF ActivitiesNext, activityVars, soundVars, Sound!auVars
  <2>2. QED
    BY <2>1, SoundStep
<1>3. QED
  BY <1>1, <1>2, PTL DEF ActivitiesSpec

(* Nothing stays down, success means that the system accepted, what is said *)
(* to be verified was seen, a move keeps the rest, and what is said of the  *)
(* sound is so (os.input, os.windows and os.audio with their backends).     *)
THEOREM DesktopAlwaysHonest == ActivitiesSpec => []DesktopIsHonest
<1>1. (part = "desktop" => DeskInv) /\ (part = "audio" => SoundInv) => DesktopIsHonest
  BY DeskIsSound, SoundIsSound DEF DesktopIsHonest
<1>2. QED
  BY <1>1, DeskAlways, SoundAlways, PTL

=============================================================================
