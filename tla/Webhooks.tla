------------------------------ MODULE Webhooks ------------------------------
(***************************************************************************)
(* Webhook delivery (core/events/webhooks.py, api/rest/webhooks.py): the   *)
(* bus hands an event to fan_out on whatever thread published it, while    *)
(* destinations are registered, registered again and removed.  fan_out,    *)
(* the lookup, the test of _delivered, each post and the mark are separate *)
(* critical sections.  Receivers, names and the network are external.      *)
(***************************************************************************)
EXTENDS Naturals, FiniteSets

CONSTANTS
    Publishers,      \* threads that publish
    Events,          \* events of a type of WEBHOOK_EVENT_TYPES
    Destinations,    \* destination ids
    MaxAttempts,     \* max_attempts
    MaxPublishes,    \* bound: calls of fan_out
    MaxChanges       \* bound: registrations and removals

VARIABLES
    dests,      \* _destinations: [url, secret, types], url 0 when absent; the
                \* number of the registration stands for its URL and its secret
    delivered,  \* _delivered: pairs of id and event
    fan,        \* per thread: the fan_out under way
    acked,      \* history: pairs of id and event some receiver has accepted
    publishes, changes

whVars == <<dests, delivered, fan, acked, publishes, changes>>

Absent == [url |-> 0, secret |-> 0, types |-> {}]
Resting == [at |-> "idle", event |-> "none", todo |-> {}, id |-> "none", dest |-> Absent,
            attempt |-> 0, last |-> Absent,
            owed |-> {}, served |-> {}, before |-> {}]
At(t, place) == fan[t].at = place
Key(t) == <<fan[t].id, fan[t].event>>

Init ==
    /\ dests = [d \in Destinations |-> Absent]
    /\ delivered = {} /\ acked = {}
    /\ fan = [t \in Publishers |-> Resting]
    /\ publishes = 0 /\ changes = 0

-----------------------------------------------------------------------------
(* Registration                                                            *)

\* validate_webhook_url for an https URL with a public or private address or
\* a name, and for an http URL of the own machine.  A name is resolved at the
\* registration only, unless the caller skips it.
Kinds == {"public", "private", "name", "loopback"}
Valid(kind, loop, resolve, address) ==
    CASE kind = "loopback" -> loop
      [] kind = "name" -> resolve => address = "public"
      [] OTHER -> kind = "public"

\* History: a fan_out owes nothing to a destination that changed meanwhile.
Excused(d) == [t \in Publishers |-> [fan[t] EXCEPT !.owed = @ \ {d}]]

\* What passes at the registration passes again at the delivery, where no name
\* is resolved: Check need not look at the URL.
PassesAgain ==
    \A kind \in Kinds, loop, resolve \in BOOLEAN, address \in {"public", "private", "none"} :
        Valid(kind, loop, resolve, address) => Valid(kind, loop, FALSE, "none")

\* A registration of the same id replaces the earlier one.
Register(d, types) ==
    /\ changes < MaxChanges /\ changes' = changes + 1
    /\ \E kind \in Kinds, loop, skip \in BOOLEAN, address \in {"public", "private", "none"} :
         Valid(kind, loop, ~skip, address)
    /\ dests' = [dests EXCEPT ![d] = [url |-> changes', secret |-> changes', types |-> types]]
    /\ fan' = Excused(d)
    /\ UNCHANGED <<delivered, acked, publishes>>

\* Mutated form of Kept: a removal forgets what was delivered.
KeptElsewhere(d) == {k \in delivered : k[1] # d}

Kept(d) == delivered
Unregister(d) ==
    /\ changes < MaxChanges /\ changes' = changes + 1
    /\ dests[d] # Absent
    /\ dests' = [dests EXCEPT ![d] = Absent]
    /\ delivered' = Kept(d)
    /\ fan' = Excused(d)
    /\ UNCHANGED <<acked, publishes>>

-----------------------------------------------------------------------------
(* Delivery                                                                *)

Matching(e) == {d \in Destinations : e \in dests[d].types}

\* fan_out; an event may be handed over more than once.
FanOut(t, e) ==
    /\ At(t, "idle") /\ publishes < MaxPublishes
    /\ publishes' = publishes + 1
    /\ fan' = [fan EXCEPT ![t] = [Resting EXCEPT !.at = "next", !.event = e,
                                    !.todo = Matching(e), !.owed = Matching(e),
                                    !.before = {k \in delivered : k[2] = e}]]
    /\ UNCHANGED <<dests, delivered, acked, changes>>

\* Mutated form of Passed: a destination that is gone ends the whole fan_out.
PassedAll(t, d) == {}

\* fan_out goes on to the next destination whatever became of this one.
Passed(t, d) == fan[t].todo \ {d}

\* deliver: the destination as it is now; its types may have changed.
Lookup(t, d) ==
    /\ At(t, "next") /\ d \in fan[t].todo
    /\ fan' = [fan EXCEPT ![t] =
         IF dests[d] = Absent THEN [@ EXCEPT !.todo = Passed(t, d)]
         ELSE IF fan[t].event \notin dests[d].types
         THEN [@ EXCEPT !.todo = fan[t].todo \ {d}]
         ELSE [@ EXCEPT !.at = "check", !.id = d, !.dest = dests[d], !.todo = fan[t].todo \ {d}]]
    /\ UNCHANGED <<dests, delivered, acked, publishes, changes>>

\* Mutated form of Claimed: an event counts as delivered when it is tried.
ClaimedEarly(t) == delivered \cup {Key(t)}

Claimed(t) == delivered

\* The delivery to this destination is over.
Done(t) ==
    [fan[t] EXCEPT !.at = "next", !.served = @ \cup {fan[t].id}, !.dest = Absent, !.attempt = 0]

\* The test of _delivered; the URL is validated again and passes.
Check(t) ==
    /\ At(t, "check")
    /\ delivered' = Claimed(t)
    /\ fan' = [fan EXCEPT ![t] =
         IF Key(t) \notin delivered THEN [@ EXCEPT !.at = "post", !.attempt = 1] ELSE Done(t)]
    /\ UNCHANGED <<dests, acked, publishes, changes>>

MayRetry(t) == fan[t].attempt < MaxAttempts

\* Mutated form of Secret: the secret registered now.
SecretNow(t) == dests[fan[t].id].secret

\* The body is signed with the secret found together with the URL.
Secret(t) == fan[t].dest.secret
Posted(t) == [fan[t].dest EXCEPT !.secret = Secret(t)]

\* One post; last is what it was made with.  "lost": the transport raises, whether or not the receiver got
\* the post; urllib's errors come as WebhookDeliveryError and end the delivery.
\* "broken": the error answer itself cannot be read, which does not.
Answers == {"2xx", "5xx or 429", "4xx", "lost", "broken"}
Post(t, answer) ==
    /\ At(t, "post")
    /\ acked' \in IF answer = "2xx" THEN {acked \cup {Key(t)}}
                  ELSE IF answer = "lost" THEN {acked, acked \cup {Key(t)}} ELSE {acked}
    /\ fan' = [fan EXCEPT ![t] =
         CASE answer = "2xx" -> [@ EXCEPT !.at = "mark", !.last = Posted(t)]
           [] answer \in {"4xx", "lost"} -> [Done(t) EXCEPT !.last = Posted(t)]
           [] OTHER -> IF MayRetry(t) THEN [@ EXCEPT !.attempt = fan[t].attempt + 1, !.last = Posted(t)]
                       ELSE [Done(t) EXCEPT !.last = Posted(t)]]
    /\ UNCHANGED <<dests, delivered, publishes, changes>>

Mark(t) ==
    /\ At(t, "mark")
    /\ delivered' = delivered \cup {Key(t)}
    /\ fan' = [fan EXCEPT ![t] = Done(t)]
    /\ UNCHANGED <<dests, acked, publishes, changes>>

Finish(t) ==
    /\ At(t, "next") /\ fan[t].todo = {}
    /\ fan' = [fan EXCEPT ![t] = Resting]
    /\ UNCHANGED <<dests, delivered, acked, publishes, changes>>

Next ==
    \/ \E d \in Destinations, types \in SUBSET Events : Register(d, types)
    \/ \E d \in Destinations : Unregister(d)
    \/ \E t \in Publishers, e \in Events : FanOut(t, e)
    \/ \E t \in Publishers, d \in Destinations : Lookup(t, d)
    \/ \E t \in Publishers, a \in Answers : Post(t, a)
    \/ \E t \in Publishers : Check(t) \/ Mark(t) \/ Finish(t)

Spec == Init /\ [][Next]_whVars

-----------------------------------------------------------------------------
(* Properties                                                              *)

TypeOK ==
    /\ \A d \in Destinations : dests[d].url \in 0..MaxChanges /\ dests[d].types \subseteq Events
    /\ delivered \cup acked \subseteq Destinations \X Events
    /\ \A t \in Publishers : fan[t].attempt \in 0..MaxAttempts
                             /\ fan[t].todo \cup fan[t].served \subseteq Destinations

(***************************************************************************)
(* A post to a URL is signed with the secret registered together with that *)
(* URL, also when the destination is registered anew between two attempts  *)
(* (deliver keeps the destination it looked up).                           *)
(***************************************************************************)
SecretStaysWithUrl == \A t \in Publishers : fan[t].last.secret = fan[t].last.url

(***************************************************************************)
(* An event marked as delivered has been accepted by a receiver: a         *)
(* delivery that gave up leaves it to be delivered again (deliver).        *)
(***************************************************************************)
DeliveredIsAccepted == delivered \subseteq acked

(***************************************************************************)
(* A fan_out that begins after the event was marked as delivered to a      *)
(* destination posts it there no more, also when the destination was       *)
(* removed and registered again meanwhile (the key is the id).             *)
(***************************************************************************)
NotDeliveredAgain == \A t \in Publishers : At(t, "post") => Key(t) \notin fan[t].before

(***************************************************************************)
(* A fan_out ends only after it has tried every destination that wanted    *)
(* the event and did not change, whatever became of the others (fan_out).  *)
(***************************************************************************)
EveryoneIsTried ==
    \A t \in Publishers : At(t, "next") /\ fan[t].todo = {} => fan[t].owed \subseteq fan[t].served

(***************************************************************************)
(* Posts are signed for their URL, only what was accepted is marked and is *)
(* not posted again, and no destination is left out.                       *)
(***************************************************************************)
DeliveriesAreSound ==
    SecretStaysWithUrl /\ DeliveredIsAccepted /\ NotDeliveredAgain /\ EveryoneIsTried

=============================================================================
