------------------------------ MODULE EventBus ------------------------------
(***************************************************************************)
(* The in-process event bus (core/events/bus.py, class EventBus) from its  *)
(* creation to its stop: publishers on the event loop and on foreign       *)
(* threads, subscribers (async generators) on the loop, the callbacks the  *)
(* threads hand to the loop, and the teardown with the stop sentinel.      *)
(*                                                                         *)
(* An event is the number of its acceptance.  What the loop runs without   *)
(* awaiting is one step; a foreign thread is preempted between accepting   *)
(* an event, reading `_loop`, fanning out and recording the sizes, which   *)
(* it does with the bus lock held: only a get that needs no lock overlaps. *)
(* Subscribing to a stopped or full bus raises and changes nothing, so it  *)
(* is no step here.                                                        *)
(***************************************************************************)
EXTENDS Integers, Sequences, SequencesExt, FiniteSets

CONSTANTS
    Subscribers,  \* subscribe() calls, one life each
    Threads,      \* threads other than the one that runs the loop
    QueueMax,     \* queue_maxsize
    MaxSubs,      \* max_subscribers
    MaxBytes,     \* max_queued_bytes
    SizeOf,       \* payload bytes of each event
    MaxEvents,    \* bound: publish calls in a behaviour
    MaxStops      \* bound: stop() calls in a behaviour

ASSUME BusAssumption ==
    /\ QueueMax \in Nat \ {0}
    /\ MaxSubs \in Nat
    /\ MaxBytes \in Nat
    /\ MaxEvents \in Nat
    /\ SizeOf \in [1..MaxEvents -> Nat]
    /\ MaxStops \in Nat

Events == 1..MaxEvents
STOP == 0                    \* the _STOP sentinel, which has no size

VARIABLES
    subs,         \* _subs: subscriber queues in order of subscription
    queue,        \* contents of each subscriber's asyncio.Queue
    pending,      \* _winos_pending_sizes of each queue
    queuedBytes,  \* _queued_bytes
    rejected,     \* _rejected
    dropped,      \* _dropped
    stops,        \* calls of stop() so far; _stopped is stops > 0
    bound,        \* a running loop is recorded in _loop
    callbacks,    \* call_soon_threadsafe callbacks the loop has yet to run
    thread,       \* what each foreign thread is doing
    pc,           \* where each subscriber is
    nextId,       \* the next event to be accepted
    fanned,       \* history: events fanned out, in order (_published is its length)
    delivered     \* history: events each subscriber got

busVars == <<subs, queue, pending, queuedBytes, dropped>>
vars == <<subs, queue, pending, queuedBytes, rejected, dropped, stops, bound,
          callbacks, thread, pc, nextId, fanned, delivered>>

Attached == ToSet(subs)
stopped == stops > 0

Activity == [doing : {"idle", "accepted", "fanning", "charging"},
             event : Events \cup {STOP}, takers : SUBSET Subscribers]
Idle == [doing |-> "idle", event |-> STOP, takers |-> {}]

\* A thread inside _fan_out holds the bus lock.
LockFree == \A t \in Threads : thread[t].doing # "charging"

Callback == [event : Events, to : {{}}] \cup [event : {STOP}, to : SUBSET Subscribers]

Reclaim(bytes, n) == IF bytes > n THEN bytes - n ELSE 0

TailOf(s) == IF s = <<>> THEN s ELSE Tail(s)
HeadOr0(s) == IF s = <<>> THEN 0 ELSE Head(s)

Init ==
    /\ subs = <<>>
    /\ queue = [s \in Subscribers |-> <<>>]
    /\ pending = [s \in Subscribers |-> <<>>]
    /\ queuedBytes = 0
    /\ rejected = 0
    /\ dropped = 0
    /\ stops = 0
    /\ bound = FALSE
    /\ callbacks = <<>>
    /\ thread = [t \in Threads |-> Idle]
    /\ pc = [s \in Subscribers |-> "out"]
    /\ nextId = 1
    /\ fanned = <<>>
    /\ delivered = [s \in Subscribers |-> <<>>]

-----------------------------------------------------------------------------
(* Fan-out                                                                 *)

(* The subscribers that take event e: those whose queue has room, in order *)
(* of subscription, as long as the byte budget lasts.                      *)
Takes(T, e) ==
    \A i \in 1..Len(subs) :
        i \in T <=>
            /\ Len(queue[subs[i]]) < QueueMax
            /\ queuedBytes + SizeOf[e] * (1 + Cardinality({j \in T : j < i})) <= MaxBytes

\* Mutated form of MustIgnore: the stop flag is not looked at again.
NeverIgnore == FALSE

\* Looked at again on the loop: the event may have been scheduled earlier.
MustIgnore == stopped

\* Mutated form of Missed: a drop is silent.
MissedSilently(T) == Cardinality(T) - Cardinality(T)

\* The subscribers a full queue or the budget deprived of the event.
Missed(T) == Len(subs) - Cardinality(T)

\* The queues of the takers get the event and the budget is charged ...
Offer(e, T) ==
    LET takers == {subs[i] : i \in T} IN
    /\ Takes(T, e)
    /\ fanned' = Append(fanned, e)
    /\ queue' = [s \in Subscribers |->
                    IF s \in takers THEN Append(queue[s], e) ELSE queue[s]]
    /\ queuedBytes' = queuedBytes + SizeOf[e] * Cardinality(T)
    /\ dropped' = dropped + Missed(T)

\* ... and its size is appended to the pending sizes of their queues.
Charge(e, takers) ==
    pending' = [s \in Subscribers |->
                  IF s \in takers THEN Append(pending[s], SizeOf[e]) ELSE pending[s]]

FanOut(e) ==
    /\ LockFree
    /\ \/ MustIgnore /\ UNCHANGED <<busVars, fanned>>
       \/ /\ ~MustIgnore
          /\ \E T \in SUBSET (1..Len(subs)) : Offer(e, T) /\ Charge(e, {subs[i] : i \in T})
          /\ UNCHANGED subs

-----------------------------------------------------------------------------
(* Publishers                                                              *)

Accept == nextId <= MaxEvents /\ nextId' = nextId + 1

\* _accept refuses the event: only the counter moves.
Reject ==
    /\ LockFree
    /\ Accept
    /\ rejected' = rejected + 1
    /\ UNCHANGED <<busVars, stops, bound, callbacks, thread, pc, fanned, delivered>>

\* publish (which binds the loop) or publish_sync, called on the loop thread.
PublishOnLoop ==
    /\ Accept
    /\ bound' \in {TRUE, bound}
    /\ FanOut(nextId)
    /\ UNCHANGED <<rejected, stops, callbacks, thread, pc, delivered>>

\* publish_sync on another thread: the event is accepted ...
ThreadAccept(t) ==
    /\ thread[t].doing = "idle"
    /\ Accept
    /\ thread' = [thread EXCEPT ![t] = [Idle EXCEPT !.doing = "accepted", !.event = nextId]]
    /\ UNCHANGED <<busVars, rejected, stops, bound, callbacks, pc, fanned, delivered>>

\* Mutated form of Handed: the `return` after the handoff is missing.
HandedAndFanning(e) == [Idle EXCEPT !.doing = "fanning", !.event = e]

\* A thread that has handed event e to the loop returns.
Handed(e) == Idle

\* ... then _schedule_fan_out reads _stopped and _loop under the lock: a
\* stopped bus ends it, a bound loop gets a callback, otherwise the thread
\* goes on to fan out by itself.
ThreadSchedule(t) ==
    LET e == thread[t].event IN
    /\ thread[t].doing = "accepted"
    /\ LockFree
    /\ \/ /\ stopped
          /\ thread' = [thread EXCEPT ![t] = Idle]
          /\ UNCHANGED callbacks
       \/ /\ ~stopped /\ bound
          /\ thread' = [thread EXCEPT ![t] = Handed(e)]
          /\ callbacks' = Append(callbacks, [event |-> e, to |-> {}])
       \/ /\ ~stopped /\ ~bound
          /\ thread' = [thread EXCEPT ![t].doing = "fanning"]
          /\ UNCHANGED callbacks
    /\ UNCHANGED <<busVars, rejected, stops, bound, pc, nextId, fanned, delivered>>

\* By now a subscriber may have bound the loop, and may get the event
\* before its size is on record.
ThreadFanOut(t) ==
    LET e == thread[t].event IN
    /\ thread[t].doing = "fanning"
    /\ LockFree
    /\ \/ /\ MustIgnore
          /\ thread' = [thread EXCEPT ![t] = Idle]
          /\ UNCHANGED <<busVars, fanned>>
       \/ /\ ~MustIgnore
          /\ \E T \in SUBSET (1..Len(subs)) :
                /\ Offer(e, T)
                /\ thread' = [thread EXCEPT ![t].doing = "charging",
                                           ![t].takers = {subs[i] : i \in T}]
          /\ UNCHANGED <<subs, pending>>
    /\ UNCHANGED <<rejected, stops, bound, callbacks, pc, nextId, delivered>>

ThreadCharge(t) ==
    /\ thread[t].doing = "charging"
    /\ Charge(thread[t].event, thread[t].takers)
    /\ thread' = [thread EXCEPT ![t] = Idle]
    /\ UNCHANGED <<subs, queue, queuedBytes, dropped, rejected, stops, bound, callbacks, pc,
                   nextId, fanned, delivered>>

-----------------------------------------------------------------------------
(* Subscribers                                                             *)

Subscribe(s) ==
    /\ pc[s] = "out"
    /\ LockFree
    /\ ~stopped
    /\ Len(subs) < MaxSubs
    /\ bound' = TRUE
    /\ subs' = Append(subs, s)
    /\ pc' = [pc EXCEPT ![s] = "waiting"]
    /\ UNCHANGED <<queue, pending, queuedBytes, rejected, dropped, stops, callbacks,
                   thread, nextId, fanned, delivered>>

\* Mutated form of Leftover: the bytes still queued are not given back.
LeftoverKept(sizes) == 0 * Len(sizes)

\* The bytes a leaving subscriber's queue still holds.
Leftover(sizes) == SumFunction(sizes)

(* The generator's `finally`: the queue leaves _subs and what it still held *)
(* is reclaimed.                                                           *)
Detach(s, bytes, sizes) ==
    /\ LockFree
    /\ subs' = RemoveFirst(subs, s)
    /\ queue' = [queue EXCEPT ![s] = <<>>]
    /\ pending' = [pending EXCEPT ![s] = <<>>]
    /\ queuedBytes' = Reclaim(bytes, Leftover(sizes))
    /\ pc' = [pc EXCEPT ![s] = "done"]

\* q.get() returns: an event is yielded, the sentinel ends the generator.
\* The lock is needed only to reclaim a size.
Get(s) ==
    LET bytes == Reclaim(queuedBytes, HeadOr0(pending[s])) IN
    /\ pc[s] = "waiting"
    /\ queue[s] # <<>>
    /\ \/ /\ Head(queue[s]) # STOP
          /\ LockFree \/ pending[s] = <<>>
          /\ queue' = [queue EXCEPT ![s] = Tail(@)]
          /\ pending' = [pending EXCEPT ![s] = TailOf(@)]
          /\ queuedBytes' = bytes
          /\ pc' = [pc EXCEPT ![s] = "busy"]
          /\ delivered' = [delivered EXCEPT ![s] = Append(@, Head(queue[s]))]
          /\ UNCHANGED subs
       \/ /\ Head(queue[s]) = STOP
          /\ Detach(s, bytes, TailOf(pending[s]))
          /\ UNCHANGED delivered
    /\ UNCHANGED <<rejected, dropped, stops, bound, callbacks, thread, nextId, fanned>>

\* The consumer comes back for the next event.
Resume(s) ==
    /\ pc[s] = "busy"
    /\ pc' = [pc EXCEPT ![s] = "waiting"]
    /\ UNCHANGED <<busVars, rejected, stops, bound, callbacks, thread, nextId, fanned,
                   delivered>>

\* The consumer returns without closing the generator (the WebSocket route
\* leaves that to the event loop's finalizer): the queue stays in _subs.
Abandon(s) ==
    /\ pc[s] = "busy"
    /\ pc' = [pc EXCEPT ![s] = "left"]
    /\ UNCHANGED <<busVars, rejected, stops, bound, callbacks, thread, nextId, fanned,
                   delivered>>

\* The idle timeout cancels a pending get, or the finalizer closes an
\* abandoned generator: the `finally` runs.
Close(s) ==
    /\ pc[s] \in {"waiting", "left"}
    /\ Detach(s, queuedBytes, pending[s])
    /\ UNCHANGED <<rejected, dropped, stops, bound, callbacks, thread, nextId, fanned,
                   delivered>>

-----------------------------------------------------------------------------
(* Stop                                                                    *)

Full(s) == Len(queue[s]) >= QueueMax

\* Mutated form of Reached: a full queue does without the sentinel.
ReachedIfRoom(to) == {s \in to \cap Attached : ~Full(s)}

\* A queue that has left _subs is nobody's any more.
Reached(to) == to \cap Attached

(* _put_stop on every queue of the snapshot: a full queue first gives up   *)
(* its oldest entry, so that the sentinel fits.                            *)
InjectStop(to) ==
    LET here == Reached(to)
        full == {s \in here : Full(s)}
        given == SumFunction([s \in full |-> HeadOr0(pending[s])])
    IN
    /\ queue' = [s \in Subscribers |->
                    CASE s \in full -> Append(Tail(queue[s]), STOP)
                      [] s \in here \ full -> Append(queue[s], STOP)
                      [] OTHER -> queue[s]]
    /\ pending' = [s \in Subscribers |-> IF s \in full THEN TailOf(pending[s]) ELSE pending[s]]
    /\ queuedBytes' = Reclaim(queuedBytes, given)
    /\ UNCHANGED <<subs, dropped>>

Stopping ==
    /\ LockFree
    /\ stops < MaxStops
    /\ stops' = stops + 1
    /\ UNCHANGED <<rejected, bound, thread, pc, nextId, fanned, delivered>>

\* stop() on the loop thread, or with no loop bound: the sentinels go in now.
StopHere ==
    /\ Stopping
    /\ InjectStop(Attached)
    /\ UNCHANGED callbacks

\* stop() on a foreign thread: the snapshot of _subs goes in a callback.
StopFromThread ==
    /\ Stopping
    /\ bound
    /\ callbacks' = Append(callbacks, [event |-> STOP, to |-> Attached])
    /\ UNCHANGED busVars

\* The loop runs the oldest callback.
RunCallback ==
    /\ LockFree
    /\ callbacks # <<>>
    /\ callbacks' = Tail(callbacks)
    /\ LET c == Head(callbacks) IN
          \/ c.event # STOP /\ FanOut(c.event)
          \/ c.event = STOP /\ InjectStop(c.to) /\ UNCHANGED fanned
    /\ UNCHANGED <<rejected, stops, bound, thread, pc, nextId, delivered>>

-----------------------------------------------------------------------------
Next ==
    \/ Reject
    \/ PublishOnLoop
    \/ StopHere
    \/ StopFromThread
    \/ RunCallback
    \/ \E t \in Threads : ThreadAccept(t) \/ ThreadSchedule(t) \/ ThreadFanOut(t) \/ ThreadCharge(t)
    \/ \E s \in Subscribers :
          Subscribe(s) \/ Get(s) \/ Resume(s) \/ Abandon(s) \/ Close(s)

Spec == Init /\ [][Next]_vars

(* The loop runs its callbacks and wakes a subscriber whose queue is not   *)
(* empty; a consumer comes back or returns (its sends are bounded by the   *)
(* client's liveness), the loop finalizes abandoned generators, and a      *)
(* thread does not keep the lock.                                          *)
Fairness ==
    /\ WF_vars(RunCallback)
    /\ \A t \in Threads : WF_vars(ThreadCharge(t))
    /\ \A s \in Subscribers :
          /\ WF_vars(Get(s))
          /\ WF_vars(Resume(s) \/ Abandon(s))
          /\ WF_vars(pc[s] = "left" /\ Close(s))

FairSpec == Spec /\ Fairness

-----------------------------------------------------------------------------
(* Properties                                                              *)

TypeOK ==
    /\ subs \in Seq(Subscribers)
    /\ queue \in [Subscribers -> Seq(Events \cup {STOP})]
    /\ pending \in [Subscribers -> Seq(Nat)]
    /\ queuedBytes \in Nat
    /\ rejected \in Nat
    /\ dropped \in Nat
    /\ stops \in Nat
    /\ bound \in BOOLEAN
    /\ callbacks \in Seq(Callback)
    /\ thread \in [Threads -> Activity]
    /\ pc \in [Subscribers -> {"out", "waiting", "busy", "left", "done"}]
    /\ nextId \in 1..(MaxEvents + 1)
    /\ fanned \in Seq(Events)
    /\ delivered \in [Subscribers -> Seq(Events)]

\* How many events wait in the queue of s, the sentinels aside.
Waiting(s) == Cardinality({i \in DOMAIN queue[s] : queue[s][i] # STOP})

(* Whatever thread fans out, the budget never under-counts what the queues  *)
(* hold: outside the lock it is the sum of the recorded sizes, the record   *)
(* of a queue ends with the sizes of its events in order (a size recorded   *)
(* after its event was taken stays in front until the next get), and the   *)
(* total respects the cap (bus.py _fan_out, subscribe, _put_stop).         *)
BudgetCoversQueues ==
    /\ LockFree =>
          /\ queuedBytes = SumFunction([s \in Attached |-> SumFunction(pending[s])])
          /\ \A s \in Subscribers :
                LET early == Len(pending[s]) - Waiting(s) IN
                /\ early >= 0
                /\ \A i \in 1..Waiting(s) : queue[s][i] # STOP =>
                      pending[s][early + i] = SizeOf[queue[s][i]]
    /\ queuedBytes <= MaxBytes

Position(e) == CHOOSE i \in 1..Len(fanned) : fanned[i] = e

(* What a subscriber got and what still waits for it are events in the      *)
(* order the bus published them, without repetition (bus.py _fan_out).     *)
InPublishOrder ==
    \A s \in Subscribers :
        LET all == delivered[s] \o queue[s] IN
        \A i, j \in 1..Len(all) :
            i < j /\ STOP \notin {all[i], all[j]} => Position(all[i]) < Position(all[j])

(* No event ever sits behind the sentinel, so nothing queued is lost when  *)
(* the subscriber exits on it (bus.py stop, _put_stop, _fan_out).          *)
NothingBehindStop ==
    \A s \in Subscribers : \A i, j \in 1..Len(queue[s]) :
        i < j /\ queue[s][i] = STOP => queue[s][j] = STOP

\* What s got and has waiting; while the bus runs no sentinel is among it.
Kept(s) == Len(delivered[s]) + Len(queue[s])

Deprived(s) ==
    (Len(fanned') - Len(fanned)) - (Kept(s)' - Kept(s))

(* An event an attached subscriber is deprived of while the bus runs is     *)
(* counted by `dropped` in that very step (bus.py:6-7, observable drops).  *)
DropsAreCounted ==
    [][~stopped' =>
          dropped' - dropped =
              SumFunction([s \in Attached \cap Attached' |-> Deprived(s)])]_vars

(* stop() reaches every subscriber: they all leave (bus.py:6-7, 259-303).  *)
StopReleasesEverySubscriber == stopped ~> (subs = <<>>)

=============================================================================
