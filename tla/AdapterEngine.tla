--------------------------- MODULE AdapterEngine ----------------------------
(***************************************************************************)
(* The adapter of one application and one editable control: creation,      *)
(* invocation, verification by a probe that is undone, the manifest on     *)
(* disk, publisher trust and the return after a restart                    *)
(* (apps/adapters, apps/trust, apps/sandbox/permissions.py).               *)
(*                                                                         *)
(* create_adapter puts a new object in the place of the old one, and a     *)
(* thread may go on with the object it has.  Each object has its own       *)
(* verification lock.  An object knows its action by the fingerprint of    *)
(* the content; two contents of the control differ in risk or parameters.  *)
(***************************************************************************)
EXTENDS Naturals, Sequences, FiniteSets

CONSTANTS
    Threads,
    Contents,    \* what the action may look like (action_content_fingerprint)
    MaxTimes,    \* attempts of one verification
    MaxCalls,    \* bound: calls begun
    MaxObjects,  \* bound: adapter objects in one life of the server
    MaxEvents    \* bound: policy and trust changes, restarts

ASSUME AdapterAssumption ==
    /\ {MaxTimes, MaxCalls, MaxObjects, MaxEvents} \subseteq Nat
    /\ MaxTimes > 0 /\ MaxObjects > 0
    /\ Contents # {} /\ "none" \notin Contents \cup Threads

None == "none"
Nothing == [fp |-> None, state |-> "DISCOVERED", id |-> FALSE, stamp |-> None,
            signed |-> FALSE, level |-> "unsigned"]   \* no manifest
Original == <<"original">>
Typed == <<"typed">>   \* the value of an ordinary invocation

VARIABLES
    objs,     \* adapter objects, in order of creation
    mem,      \* the one in _adapters, 0 when none
    disk,     \* the manifest file
    shown,    \* what the accessibility tree shows for the control
    pending,  \* writes the application has not shown yet
    lock,     \* _verification_lock of each object: owner and depth
    job,      \* what each thread is doing
    denied,   \* the sandbox policy denies the action
    trusted,  \* the publisher's key is in the keystore, not revoked
    proven,   \* history: contents whose probe was observed and undone
    raced,    \* history: a creation overlapped a verification or a creation
    unsaved,  \* history: a manifest could not be written, or was edited by hand
    calls, events

app == <<shown, pending>>
settings == <<denied, trusted>>
history == <<proven, raced, unsaved>>
vars == <<objs, mem, disk, app, lock, job, settings, history, calls, events>>

Idle == [at |-> "idle", kind |-> None, rec |-> 0, obj |-> 0, use |-> None, via |-> 0, nr |-> 0,
         found |-> Original, left |-> 0, seen |-> {}, verdict |-> None,
         acted |-> None, file |-> Nothing]
\* The value of a probe is drawn anew for each attempt.
Probe(t) == <<"probe", job[t].nr, job[t].left>>
Free == [by |-> None, depth |-> 0]

At(t, place) == job[t].at = place
Goto(t, place) == job' = [job EXCEPT ![t].at = place]

\* Mutated form of MayLock: a lock that is not reentrant.
MayLockOnce(o, t) == lock[o] = Free

MayLock(o, t) == lock[o].by \in {None, t}
Lock(o, t) == MayLock(o, t) /\ lock' = [lock EXCEPT ![o] = [by |-> t, depth |-> @.depth + 1]]

Unlock(o) == lock' = [lock EXCEPT ![o] = IF @.depth = 1 THEN Free
                                               ELSE [by |-> @.by, depth |-> @.depth - 1]]

\* The application shows the oldest write.
Show ==
    /\ pending # <<>>
    /\ shown' = Head(pending) /\ pending' = Tail(pending)
    /\ UNCHANGED <<objs, mem, disk, lock, job, settings, history, calls, events>>
Settled == IF pending = <<>> THEN shown ELSE pending[Len(pending)]

-----------------------------------------------------------------------------
(* create_adapter, verify_and_record and invoke_action, as they are called *)

Call == calls < MaxCalls /\ calls' = calls + 1
Running(kinds) == {t \in Threads : job[t].kind \in kinds}

\* A new object, without signature or claim, takes the place of the old one.
Create(t, c) ==
    /\ At(t, "idle") /\ Call
    /\ Len(objs) < MaxObjects
    /\ objs' = Append(objs, [bound |-> TRUE, fp |-> c, state |-> "DISCOVERED", id |-> FALSE,
                             stamp |-> None, signed |-> FALSE, level |-> "unsigned"])
    /\ mem' = Len(objs) + 1
    /\ job' = [job EXCEPT ![t] = [Idle EXCEPT !.at = "build", !.kind = "create", !.rec = mem']]
    /\ raced' = (raced \/ \E u \in Threads : ~At(u, "idle"))
    /\ UNCHANGED <<disk, app, lock, settings, proven, unsaved, events>>

Verify(t, times) ==
    /\ At(t, "idle") /\ Call
    /\ mem # 0
    /\ job' = [job EXCEPT ![t] = [Idle EXCEPT !.at = "enter", !.kind = "verify",
                                              !.rec = mem, !.left = times, !.nr = calls]]
    /\ raced' = (raced \/ Running({"create"}) # {})
    /\ UNCHANGED <<objs, mem, disk, app, lock, settings, proven, unsaved, events>>

Invoke(t) ==
    /\ At(t, "idle") /\ Call
    /\ mem # 0
    /\ job' = [job EXCEPT ![t] = [Idle EXCEPT !.at = "reget", !.kind = "invoke", !.use = "plain"]]
    /\ UNCHANGED <<objs, mem, disk, app, lock, settings, history, events>>

\* rebind_adapter
Rebind ==
    /\ mem # 0 /\ ~objs[mem].bound
    /\ objs' = [objs EXCEPT ![mem].bound = TRUE]
    /\ UNCHANGED <<mem, disk, app, lock, job, settings, history, calls, events>>

-----------------------------------------------------------------------------
(* The invocation, alone or as the two halves of a probe                    *)

\* How a failed half ends: a probe is undone all the same, a failed undoing
\* is the verdict.
Failed(t) ==
    CASE job[t].use = "plain"  -> Idle
      [] job[t].use = "probe" -> [job[t] EXCEPT !.at = "reget", !.use = "undo", !.verdict = "FAILED"]
      [] job[t].use = "undo"  -> [job[t] EXCEPT !.at = "leave", !.verdict = "FAILED"]

Reget(t) ==
    /\ At(t, "reget")
    /\ job' = [job EXCEPT ![t] = IF objs[mem].bound THEN [@ EXCEPT !.at = "lock", !.via = mem]
                                 ELSE Failed(t)]
    /\ UNCHANGED <<objs, mem, disk, app, lock, settings, history, calls, events>>

LockVia(t) ==
    /\ At(t, "lock")
    /\ Lock(job[t].via, t)
    /\ Goto(t, "act")
    /\ UNCHANGED <<objs, mem, disk, app, settings, history, calls, events>>

\* revalidate_adapter_trust: a production claim needs a signature that holds.
Claims(o) == o.signed \/ o.level \in {"verified", "publisher"}
Holds(o) == o.signed /\ trusted
Withdrawn(o) == [o EXCEPT !.state = IF @ = "VERIFIED" THEN "INVALID" ELSE @,
                          !.id = IF o.state = "VERIFIED" THEN FALSE ELSE @,
                          !.level = IF o.signed /\ trusted THEN "verified" ELSE "unsigned"]

Value(t) == CASE job[t].use = "probe" -> Probe(t)
              [] job[t].use = "undo" -> job[t].found
              [] job[t].use = "plain" -> Typed

\* Trust, then policy, then the control.  The application may take the value
\* or not, and the backend may say so, say otherwise or raise.
Act(t) ==
    LET o == objs[job[t].via] IN
    /\ At(t, "act")
    /\ Unlock(job[t].via)
    /\ \/ /\ Claims(o) /\ ~Holds(o)
          /\ objs' = [objs EXCEPT ![job[t].via] = Withdrawn(o)]
          /\ job' = [job EXCEPT ![t] = Failed(t)]
          /\ UNCHANGED app
       \/ /\ ~Claims(o) \/ Holds(o)
          /\ denied
          /\ job' = [job EXCEPT ![t] = Failed(t)]
          /\ UNCHANGED <<objs, app>>
       \/ /\ ~Claims(o) \/ Holds(o)
          /\ ~denied
          /\ \E taken, ok \in BOOLEAN :
               /\ pending' = IF taken THEN Append(pending, Value(t)) ELSE pending
               /\ job' = [job EXCEPT ![t] =
                           IF ~ok \/ job[t].use = "plain" THEN Failed(t)
                           ELSE [@ EXCEPT !.at = "wait",
                                          !.acted = IF job[t].use = "probe" THEN o.fp ELSE job[t].acted]]
          /\ UNCHANGED <<objs, shown>>
    /\ UNCHANGED <<mem, disk, settings, history, calls, events>>

-----------------------------------------------------------------------------
(* verify_and_record around verify_action around two invocations            *)

Enter(t) ==
    /\ At(t, "enter")
    /\ Lock(job[t].rec, t)
    /\ Goto(t, "get")
    /\ UNCHANGED <<objs, mem, disk, app, settings, history, calls, events>>

\* verify_action asks _adapters again, and locks what it gets.
Get(t) ==
    /\ At(t, "get")
    /\ job' = [job EXCEPT ![t].at = "hold", ![t].obj = mem]
    /\ UNCHANGED <<objs, mem, disk, app, lock, settings, history, calls, events>>
Hold(t) ==
    /\ At(t, "hold")
    /\ Lock(job[t].obj, t)
    /\ Goto(t, "look")
    /\ UNCHANGED <<objs, mem, disk, app, settings, history, calls, events>>

\* Nothing is written when the action may not be tried, or when the control
\* cannot be read or shows no value to go back to.
Look(t) ==
    /\ At(t, "look")
    /\ \/ /\ ~objs[job[t].obj].bound \/ denied
          /\ job' = [job EXCEPT ![t].at = "leave", ![t].verdict = "BLOCKED"]
       \/ /\ objs[job[t].obj].bound /\ ~denied
          /\ \/ job' = [job EXCEPT ![t].at = "leave", ![t].verdict = "FAILED"]
             \/ job' = [job EXCEPT ![t].at = "leave", ![t].verdict = "UNSUPPORTED"]
             \/ job' = [job EXCEPT ![t].at = "reget", ![t].use = "probe", ![t].found = shown]
    /\ UNCHANGED <<objs, mem, disk, app, lock, settings, history, calls, events>>

\* Mutated form of Undone: the undoing counts without being read again.
UndoneUnread(t) == TRUE

\* _wait_for_value: the value is read, or the time is over.
Undone(t) == shown = job[t].found
Wait(t) ==
    /\ At(t, "wait")
    /\ job' = [job EXCEPT ![t] =
         CASE job[t].use = "probe" -> [@ EXCEPT !.at = "reget", !.use = "undo",
                                    !.verdict = IF shown = Probe(t) THEN "VERIFIED" ELSE "FAILED"]
           [] job[t].use = "undo" -> [@ EXCEPT !.at = "leave",
                                    !.verdict = IF Undone(t) THEN job[t].verdict ELSE "FAILED"]]
    /\ UNCHANGED <<objs, mem, disk, app, lock, settings, history, calls, events>>

\* One attempt is over; verify_action_repeatedly goes on under the outer lock.
Leave(t) ==
    /\ At(t, "leave")
    /\ Unlock(job[t].obj)
    /\ proven' = IF job[t].verdict = "VERIFIED" THEN proven \cup {job[t].acted} ELSE proven
    /\ job' = [job EXCEPT ![t].at = IF job[t].left > 1 THEN "get" ELSE "record",
                          ![t].left = @ - 1,
                          ![t].seen = @ \cup {job[t].verdict}]
    /\ UNCHANGED <<objs, mem, disk, app, settings, raced, unsaved, calls, events>>

\* The same verdict of every attempt counts, different ones are UNSTABLE.
Final(seen) == IF Cardinality(seen) = 1 THEN CHOOSE s \in seen : TRUE ELSE "UNSTABLE"

\* Mutated form of Manifest: the payload is made before the verdict.
ManifestBefore(o, before) == [f \in DOMAIN Nothing |-> before[f]]

\* to_manifest: everything but the window.
Manifest(o, before) == [f \in DOMAIN Nothing |-> o[f]]

\* The verdict goes on the object that was found first, with the fingerprint
\* of its own content.
Record(t) ==
    LET s == Final(job[t].seen)
        o == objs[job[t].rec]
        new == [o EXCEPT !.state = s, !.id = (s = "VERIFIED"),
                         !.stamp = IF s = "VERIFIED" THEN o.fp ELSE None]
    IN
    /\ At(t, "record")
    /\ objs' = [objs EXCEPT ![job[t].rec] = new]
    /\ job' = [job EXCEPT ![t].at = "write", ![t].file = Manifest(new, o)]
    /\ UNCHANGED <<mem, disk, app, lock, settings, history, calls, events>>

\* save() makes the payload before it takes the I/O lock.
Build(t) ==
    /\ At(t, "build")
    /\ job' = [job EXCEPT ![t].at = "write",
                          ![t].file = Manifest(objs[job[t].rec], objs[job[t].rec])]
    /\ UNCHANGED <<objs, mem, disk, app, lock, settings, history, calls, events>>

Write(t) ==
    /\ At(t, "write")
    /\ \/ disk' = job[t].file /\ UNCHANGED unsaved
       \/ unsaved' = TRUE /\ UNCHANGED disk
    /\ IF job[t].kind = "verify" THEN Unlock(job[t].rec) ELSE UNCHANGED lock
    /\ job' = [job EXCEPT ![t] = Idle]
    /\ UNCHANGED <<objs, mem, app, settings, proven, raced, calls, events>>

-----------------------------------------------------------------------------
(* What goes on around: settings, the disk, the end of the process          *)

Event == events < MaxEvents /\ events' = events + 1

SetPolicy ==
    /\ Event /\ denied' = ~denied
    /\ UNCHANGED <<objs, mem, disk, app, lock, job, trusted, history, calls>>

\* TrustKeystore.revoke; a key revoked may be added again.
SetTrust ==
    /\ Event /\ trusted' = ~trusted
    /\ UNCHANGED <<objs, mem, disk, app, lock, job, denied, history, calls>>

\* What a hand edit of the manifest may leave: another content, with or
\* without its stamp, or a claim without an identifier.
Edited(m) ==
    IF m = Nothing THEN {}
    ELSE {[m EXCEPT !.state = "VERIFIED"]} \cup
         UNION {{[m EXCEPT !.fp = c], [m EXCEPT !.fp = c, !.stamp = None]} : c \in Contents}

\* Mutated form of Sanitized: the fingerprint is not compared.
SanitizedById(m) ==
    IF m.state = "VERIFIED" /\ ~m.id
    THEN [m EXCEPT !.state = "FAILED", !.stamp = None] ELSE m

\* sanitize_action_verification
Sanitized(m) ==
    IF m.state = "VERIFIED" /\ (~m.id \/ m.stamp # m.fp)
    THEN [m EXCEPT !.state = "FAILED", !.id = FALSE, !.stamp = None]
    ELSE IF m.state # "VERIFIED" THEN [m EXCEPT !.id = FALSE, !.stamp = None] ELSE m

\* load_persisted_adapters: trust is resolved again, and a claim the keystore
\* does not support keeps the adapter out.  The window is not known any more.
Resolved(m) == IF m.signed /\ trusted THEN "verified" ELSE "unsigned"
Loadable(m) ==
    m # Nothing /\ (m.level \in {"verified", "publisher"} => Resolved(m) # "unsigned")
Loaded(m) ==
    LET s == Sanitized(m) IN
    [bound |-> FALSE, fp |-> s.fp, state |-> s.state, id |-> s.id, stamp |-> s.stamp,
     signed |-> s.signed, level |-> Resolved(m)]

Restored(m) == IF Loadable(m) THEN <<Loaded(m)>> ELSE <<>>

\* A first start, or one with the manifest of a publisher.
Signed == [Nothing EXCEPT !.fp = CHOOSE c \in Contents : TRUE, !.signed = TRUE,
                          !.level = "verified"]
Init ==
    /\ disk \in {Nothing, Signed}
    /\ trusted = TRUE /\ denied = FALSE
    /\ objs = Restored(disk) /\ mem = Len(objs)
    /\ shown = Original /\ pending = <<>>
    /\ lock = [o \in 1..MaxObjects |-> Free]
    /\ job = [t \in Threads |-> Idle]
    /\ proven = {} /\ raced = FALSE /\ unsaved = FALSE
    /\ calls = 0 /\ events = 0

\* The process ends and starts again, on a manifest that may have been edited.
Restart ==
    /\ Event
    /\ disk' \in {disk} \cup Edited(disk)
    /\ unsaved' = (unsaved \/ disk' # disk)
    /\ objs' = Restored(disk') /\ mem' = Len(objs')
    /\ lock' = [o \in 1..MaxObjects |-> Free]
    /\ job' = [t \in Threads |-> Idle]
    /\ UNCHANGED <<app, settings, proven, raced, calls>>

Thread(t) ==
    \/ Reget(t) \/ LockVia(t) \/ Act(t)
    \/ Enter(t) \/ Get(t) \/ Hold(t) \/ Look(t) \/ Wait(t) \/ Leave(t) \/ Record(t)
    \/ Build(t) \/ Write(t)

Next ==
    \/ \E t \in Threads, c \in Contents : Create(t, c)
    \/ \E t \in Threads, times \in 1..MaxTimes : Verify(t, times)
    \/ \E t \in Threads : Invoke(t) \/ Thread(t)
    \/ Rebind \/ Show
    \/ SetPolicy \/ SetTrust \/ Restart

Spec == Init /\ [][Next]_vars

-----------------------------------------------------------------------------
(* Properties                                                              *)

States == {"DISCOVERED", "VERIFIED", "FAILED", "BLOCKED", "UNSUPPORTED", "UNSTABLE", "INVALID"}
TypeOK ==
    /\ objs \in Seq([bound : BOOLEAN, fp : Contents, state : States, id : BOOLEAN,
                     stamp : Contents \cup {None}, signed : BOOLEAN,
                     level : {"unsigned", "verified"}])
    /\ mem \in 0..Len(objs)
    /\ \A o \in DOMAIN lock : lock[o] = Free \/ (lock[o].by \in Threads /\ lock[o].depth \in 1..3)
    /\ \A t \in Threads : /\ {job[t].rec, job[t].obj, job[t].via} \subseteq 0..Len(objs)
                          /\ job[t].left \in 0..MaxTimes /\ job[t].seen \subseteq States
    /\ proven \subseteq Contents /\ {denied, trusted, raced, unsaved} \subseteq BOOLEAN

(***************************************************************************)
(* A verification that ends VERIFIED leaves the control with the value it  *)
(* found, also when the application is slow to show what is written and    *)
(* whatever the backend answers, unless the adapter was created anew       *)
(* meanwhile (_verify_action_locked, the finally clause).                  *)
(***************************************************************************)
VerifiedRestores ==
    \A t \in Threads : At(t, "leave") /\ job[t].verdict = "VERIFIED" /\ ~raced
                         => Settled = job[t].found

(***************************************************************************)
(* An action is VERIFIED, with an identifier and a stamp, only if a probe  *)
(* of exactly that content was observed, also after a restart from a       *)
(* manifest that was edited by hand.                                       *)
(***************************************************************************)
ProvenByProbe == \A o \in DOMAIN objs : objs[o].state = "VERIFIED" =>
    objs[o].id /\ objs[o].stamp = objs[o].fp /\ objs[o].fp \in proven
VerifiedIsProven == ~raced => ProvenByProbe

(***************************************************************************)
(* When nothing is under way, the manifest is that of the adapter in       *)
(* memory, but for the verdicts a loss of trust withdrew, unless a write   *)
(* failed, somebody edited it or a creation overlapped another call        *)
(* (store.save makes its payload before it takes the I/O lock).            *)
(***************************************************************************)
ManifestFollows ==
    (\A t \in Threads : At(t, "idle")) /\ mem # 0 /\ objs[mem].bound /\ ~objs[mem].signed
      /\ ~raced /\ ~unsaved /\ objs[mem].level = disk.level
        => Manifest(objs[mem], objs[mem]) = disk

(***************************************************************************)
(* No circle of threads waits for each other's locks, and none for itself: *)
(* the locks of several generations of the adapter are only ever taken     *)
(* from an older to a newer one, and the same one again (lock_order.md).   *)
(***************************************************************************)
WaitsFor(t) == CASE At(t, "enter") -> job[t].rec [] At(t, "hold") -> job[t].obj
                 [] At(t, "lock") -> job[t].via  [] OTHER -> 0
Blocked(t) == WaitsFor(t) # 0 /\ ~MayLock(WaitsFor(t), t)
NoCircularWait ==
    ~ \E S \in (SUBSET Threads) \ {{}} :
        \A t \in S : Blocked(t) /\ lock[WaitsFor(t)].by \in S

(***************************************************************************)
(* A verified action was proved by a probe, which was undone.              *)
(***************************************************************************)
VerifiedIsGenuine == VerifiedRestores /\ VerifiedIsProven

=============================================================================
