------------------------ MODULE AdapterEngine_proofs ------------------------
(* Theorems about AdapterEngine, for every value of its constants.          *)
EXTENDS AdapterEngine, FiniteSetTheorems, WellFoundedInduction, TLAPS

Values == {Original, Typed} \cup {<<"probe", n, l>> : n, l \in Nat}
Objects == [bound : BOOLEAN, fp : Contents, state : States, id : BOOLEAN,
            stamp : Contents \cup {None}, signed : BOOLEAN, level : {"unsigned", "verified"}]
Written == [fp : Contents, state : States, id : BOOLEAN, stamp : Contents \cup {None},
            signed : BOOLEAN, level : {"unsigned", "verified"}]
Manifests == Written \cup {Nothing}
Places == {"idle", "build", "write", "reget", "lock", "act", "enter", "get", "hold", "look",
           "wait", "leave", "record"}
Jobs == [at : Places, kind : {None, "create", "verify", "invoke"}, rec : Nat, obj : Nat,
         use : {None, "plain", "probe", "undo"}, via : Nat, nr : Nat, found : Values,
         left : 0..MaxTimes, seen : SUBSET States, verdict : States \cup {None},
         acted : Contents \cup {None}, file : Manifests]

LockType == lock \in [1..MaxObjects -> [by : Threads \cup {None}, depth : Nat]]

TypeInv ==
    /\ objs \in Seq(Objects) /\ mem = Len(objs) /\ mem <= MaxObjects
    /\ disk \in Manifests
    /\ shown \in Values /\ pending \in Seq(Values)
    /\ LockType
    /\ job \in [Threads -> Jobs]
    /\ {denied, trusted, raced, unsaved} \subseteq BOOLEAN
    /\ proven \subseteq Contents
    /\ calls \in Nat /\ events \in Nat

Inside == {"look", "reget", "lock", "act", "wait", "leave"}
Staged(j, m) ==
    /\ j.kind = None => j = Idle
    /\ j.kind = "create" => j.at \in {"build", "write"} /\ j.rec \in 1..m
    /\ j.kind = "invoke" => /\ j.at \in {"reget", "lock", "act"} /\ j.use = "plain" /\ m > 0
                            /\ j.at # "reget" => j.via \in 1..m
    /\ j.kind = "verify" =>
          /\ j.at \in Inside \cup {"enter", "get", "hold", "record", "write"}
          /\ j.rec \in 1..m
          /\ j.at \in Inside \cup {"hold"} => j.obj \in j.rec..m
          /\ j.at \in {"lock", "act"} => j.via \in j.obj..m
          /\ j.at \in {"reget", "lock", "act", "wait"} =>
                j.use = "probe" \/ (j.use = "undo" /\ j.verdict \in {"VERIFIED", "FAILED"})
          /\ j.at = "leave" => j.verdict # None
          /\ j.at \notin {"record", "write"} => j.left > 0
          /\ j.verdict = "VERIFIED" \/ (j.at = "wait" /\ j.use = "probe") => j.acted # None
Stages == \A t \in Threads : Staged(job[t], mem)

LEMMA SeqReplaced ==
  ASSUME NEW S, NEW s \in Seq(S), NEW k, NEW v \in S
  PROVE  [s EXCEPT ![k] = v] \in Seq(S) /\ Len([s EXCEPT ![k] = v]) = Len(s)
<1>1. s \in [1..Len(s) -> S] /\ Len(s) \in Nat
  OBVIOUS
<1>2. [s EXCEPT ![k] = v] \in [1..Len(s) -> S]
  BY <1>1
<1>3. QED
  BY <1>1, <1>2

LEMMA Marks == None \notin Contents /\ None \notin Threads
BY AdapterAssumption DEF None

LEMMA ManifestFields == DOMAIN Nothing = {"fp", "state", "id", "stamp", "signed", "level"}
BY DEF Nothing

LEMMA ManifestOf ==
  ASSUME NEW o, NEW b
  PROVE  Manifest(o, b) = [fp |-> o.fp, state |-> o.state, id |-> o.id, stamp |-> o.stamp,
                           signed |-> o.signed, level |-> o.level]
BY ManifestFields DEF Manifest

LEMMA ManifestType ==
  ASSUME NEW o \in Objects, NEW b
  PROVE  Manifest(o, b) \in Written
BY ManifestOf DEF Written, Objects

LEMMA WrittenIsSome == Nothing \notin Written
BY Marks DEF Written, Nothing

LEMMA FinalType ==
  ASSUME NEW seen \in SUBSET States
  PROVE  Final(seen) \in States /\ (Final(seen) = "VERIFIED" => "VERIFIED" \in seen)
<1>1. CASE Cardinality(seen) = 1
  <2>1. seen # {}
    BY <1>1, FS_EmptySet
  <2>2. (CHOOSE s \in seen : TRUE) \in seen
    BY <2>1
  <2>3. QED
    BY <1>1, <2>2 DEF Final
<1>2. CASE Cardinality(seen) # 1
  BY <1>2 DEF Final, States
<1>3. QED
  BY <1>1, <1>2

LEMMA EditedType ==
  ASSUME NEW m \in Manifests, NEW n \in Edited(m)
  PROVE  n \in Written
<1>1. m \in Written
  BY DEF Edited, Manifests
<1>2. \/ n = [m EXCEPT !.state = "VERIFIED"]
      \/ \E c \in Contents : n = [m EXCEPT !.fp = c] \/ n = [m EXCEPT !.fp = c, !.stamp = None]
  BY <1>1, WrittenIsSome DEF Edited
<1>3. QED
  BY <1>1, <1>2 DEF Written, States

LEMMA LoadedType ==
  ASSUME NEW m \in Written
  PROVE  Loaded(m) \in Objects
<1>1. Sanitized(m) \in Written
  BY DEF Sanitized, Written, States
<1>2. Resolved(m) \in {"unsigned", "verified"}
  BY DEF Resolved
<1>3. QED
  BY <1>1, <1>2 DEF Loaded, Objects, Written

LEMMA RestoredType ==
  ASSUME NEW m \in Manifests
  PROVE  Restored(m) \in Seq(Objects) /\ Len(Restored(m)) \in Nat /\ Len(Restored(m)) <= MaxObjects
<1>1. CASE Loadable(m)
  <2>1. Loaded(m) \in Objects
    BY <1>1, LoadedType DEF Loadable, Manifests
  <2>2. QED
    BY <1>1, <2>1, AdapterAssumption DEF Restored
<1>2. CASE ~Loadable(m)
  BY <1>2, AdapterAssumption DEF Restored
<1>3. QED
  BY <1>1, <1>2

LEMMA IdleType == Idle \in Jobs /\ Nothing \in Manifests /\ Original \in Values /\ Typed \in Values
BY AdapterAssumption DEF Idle, Jobs, Places, Manifests, Values, None, Nothing, Original

(* A lock is held as deep as the stage of its owner says, by nobody else.   *)
N(b) == IF b THEN 1 ELSE 0
Depth(j, o) == N(j.kind = "verify" /\ j.at # "enter" /\ j.rec = o)
             + N(j.kind = "verify" /\ j.at \in Inside /\ j.obj = o)
             + N(j.at = "act" /\ j.via = o)
Owned(o) ==
    /\ lock[o].by = None <=> lock[o].depth = 0
    /\ \A t \in Threads : Depth(job[t], o) = IF lock[o].by = t THEN lock[o].depth ELSE 0
LocksAddUp == \A o \in 1..MaxObjects : Owned(o)

Base == TypeInv /\ Stages /\ LocksAddUp

LEMMA DepthType == \A j, o : Depth(j, o) \in 0..3 /\ Depth(Idle, o) = 0
<1>1. \A b : N(b) \in 0..1
  BY DEF N
<1>2. \A j, o : Depth(j, o) \in 0..3
  BY <1>1 DEF Depth
<1>3. \A o : Depth(Idle, o) = 0
  BY DEF Depth, Idle, N, None
<1>4. QED
  BY <1>2, <1>3

LEMMA BaseInit == Init => Base
<1> SUFFICES ASSUME Init PROVE Base
  OBVIOUS
<1>1. Signed \in Manifests
  <2>1. (CHOOSE c \in Contents : TRUE) \in Contents
    BY AdapterAssumption
  <2>2. QED
    BY <2>1 DEF Signed, Nothing, Manifests, Written, States
<1>2. disk \in Manifests
  BY <1>1, IdleType DEF Init
<1>3. objs \in Seq(Objects) /\ mem = Len(objs) /\ mem <= MaxObjects
  BY <1>2, RestoredType DEF Init
<1>4. TypeInv
  <2>1. shown \in Values /\ pending \in Seq(Values)
    BY IdleType DEF Init
  <2>2. LockType
    BY DEF Init, Free, LockType
  <2>3. job \in [Threads -> Jobs]
    BY IdleType DEF Init
  <2>4. QED
    BY <1>2, <1>3, <2>1, <2>2, <2>3 DEF Init, TypeInv
<1>5. Stages
  BY DEF Init, Stages, Staged, Idle, None
<1>6. LocksAddUp
  BY DepthType, Marks DEF Init, LocksAddUp, Owned, Free
<1>7. QED
  BY <1>4, <1>5, <1>6 DEF Base

LEMMA JobIs ==
  ASSUME Base, NEW t \in Threads
  PROVE  /\ job[t] \in Jobs /\ Staged(job[t], mem)
         /\ mem \in Nat /\ mem <= MaxObjects /\ MaxObjects \in Nat
         /\ \A o \in 1..mem : objs[o] \in Objects
BY AdapterAssumption DEF Base, TypeInv, Stages

(* A step of thread t that makes no object, and leaves the locks alone or   *)
(* takes or leaves one.                                                    *)
JobMoves(t, new) ==
    /\ new \in Jobs /\ Staged(new, mem)
    /\ job' = [job EXCEPT ![t] = new] /\ mem' = mem

LEMMA JobMoved ==
  ASSUME Base, NEW t \in Threads, NEW new, JobMoves(t, new)
  PROVE  /\ job' \in [Threads -> Jobs] /\ Stages'
         /\ \A u \in Threads : job'[u] = IF u = t THEN new ELSE job[u]
<1>1. \A u \in Threads : job'[u] = IF u = t THEN new ELSE job[u]
  BY DEF JobMoves, Base, TypeInv
<1>2. QED
  BY <1>1 DEF JobMoves, Base, TypeInv, Stages

LEMMA SameLocks ==
  ASSUME Base, NEW t \in Threads, NEW new, JobMoves(t, new), lock' = lock,
         \A o : Depth(new, o) = Depth(job[t], o)
  PROVE  /\ job' \in [Threads -> Jobs] /\ Stages'
         /\ LockType' /\ LocksAddUp'
<1>1. \A u \in Threads : job'[u] = IF u = t THEN new ELSE job[u]
  BY JobMoved
<1>2. \A o : \A u \in Threads : Depth(job'[u], o) = Depth(job[u], o)
  BY <1>1
<1>3. ASSUME NEW o \in 1..MaxObjects PROVE Owned(o)'
  BY <1>2 DEF Base, LocksAddUp, Owned
<1>4. QED
  BY <1>3, JobMoved DEF Base, TypeInv, LockType, LocksAddUp

LEMMA LockTaken ==
  ASSUME Base, NEW t \in Threads, NEW new, JobMoves(t, new), NEW p \in 1..MaxObjects, Lock(p, t),
         \A o : Depth(new, o) = Depth(job[t], o) + N(o = p)
  PROVE  /\ job' \in [Threads -> Jobs] /\ Stages'
         /\ LockType' /\ LocksAddUp'
<1>1. \A u \in Threads : job'[u] = IF u = t THEN new ELSE job[u]
  BY JobMoved
<1>2. /\ lock' = [lock EXCEPT ![p] = [by |-> t, depth |-> lock[p].depth + 1]]
      /\ lock[p].by \in {None, t}
      /\ lock[p] \in [by : Threads \cup {None}, depth : Nat]
  BY DEF Lock, MayLock, Base, TypeInv, LockType
<1>3. LockType'
  BY <1>2 DEF Base, TypeInv, LockType
<1>4. ASSUME NEW o \in 1..MaxObjects, o # p PROVE Owned(o)'
  <2>1. lock'[o] = lock[o] /\ N(o = p) = 0
    BY <1>2, <1>4 DEF Base, TypeInv, LockType, N
  <2>2. \A u \in Threads : Depth(job'[u], o) = Depth(job[u], o)
    BY <1>1, <2>1, DepthType
  <2>3. QED
    BY <2>1, <2>2 DEF Base, LocksAddUp, Owned
<1>5. Owned(p)'
  <2>1. lock'[p] = [by |-> t, depth |-> lock[p].depth + 1] /\ N(p = p) = 1
    BY <1>2 DEF Base, TypeInv, LockType, N
  <2>2. Owned(p)
    BY DEF Base, LocksAddUp
  <2>3. \A u \in Threads : u # t => Depth(job'[u], p) = 0
    BY <1>1, <1>2, <2>2, Marks DEF Owned
  <2>4. Depth(job'[t], p) = lock[p].depth + 1
    BY <1>1, <1>2, <2>1, <2>2, Marks DEF Owned
  <2>5. QED
    BY <1>2, <2>1, <2>3, <2>4, Marks DEF Owned
<1>6. QED
  BY <1>3, <1>4, <1>5, JobMoved DEF LocksAddUp

LEMMA LockLeft ==
  ASSUME Base, NEW t \in Threads, NEW new, JobMoves(t, new), NEW p \in 1..MaxObjects, Unlock(p),
         \A o : Depth(job[t], o) = Depth(new, o) + N(o = p)
  PROVE  /\ job' \in [Threads -> Jobs] /\ Stages'
         /\ LockType' /\ LocksAddUp'
<1>1. \A u \in Threads : job'[u] = IF u = t THEN new ELSE job[u]
  BY JobMoved
<1> DEFINE left == IF lock[p].depth = 1 THEN Free ELSE [lock[p] EXCEPT !.depth = lock[p].depth - 1]
<1>2. /\ lock' = [lock EXCEPT ![p] = left]
      /\ lock[p] \in [by : Threads \cup {None}, depth : Nat]
  <2>1. lock[p] \in [by : Threads \cup {None}, depth : Nat]
    BY DEF Base, TypeInv, LockType
  <2>2. left = IF lock[p].depth = 1 THEN Free ELSE [by |-> lock[p].by, depth |-> lock[p].depth - 1]
    BY <2>1
  <2>3. QED
    BY <2>1, <2>2 DEF Unlock
<1>3. Owned(p) /\ N(p = p) = 1 /\ Depth(new, p) \in Nat /\ Depth(job[t], p) = Depth(new, p) + 1
  BY DepthType DEF Base, LocksAddUp, N
<1>4. lock[p].by = t /\ lock[p].depth = Depth(new, p) + 1
  BY <1>3 DEF Owned
<1>5. /\ left \in [by : Threads \cup {None}, depth : Nat]
      /\ left.depth = Depth(new, p)
      /\ left.by = IF left.depth = 0 THEN None ELSE t
  BY <1>2, <1>3, <1>4 DEF Free
<1> HIDE DEF left
<1>6. LockType'
  BY <1>2, <1>5 DEF Base, TypeInv, LockType
<1>7. ASSUME NEW o \in 1..MaxObjects, o # p PROVE Owned(o)'
  <2>1. lock'[o] = lock[o] /\ N(o = p) = 0
    BY <1>2, <1>7 DEF Base, TypeInv, LockType, N
  <2>2. \A u \in Threads : Depth(job'[u], o) = Depth(job[u], o)
    BY <1>1, <2>1, DepthType
  <2>3. QED
    BY <2>1, <2>2 DEF Base, LocksAddUp, Owned
<1>8. Owned(p)'
  <2>1. lock'[p] = left
    BY <1>2 DEF Base, TypeInv, LockType
  <2>2. \A u \in Threads : u # t => Depth(job'[u], p) = 0
    BY <1>1, <1>3, <1>4 DEF Owned
  <2>3. Depth(job'[t], p) = left.depth
    BY <1>1, <1>5
  <2>4. QED
    BY <1>5, <2>1, <2>2, <2>3, Marks DEF Owned
<1>9. QED
  BY <1>6, <1>7, <1>8, JobMoved DEF LocksAddUp

LEMMA CreateBase ==
  ASSUME Base, NEW t \in Threads, NEW c \in Contents, Create(t, c)
  PROVE  Base'
<1> DEFINE o == [bound |-> TRUE, fp |-> c, state |-> "DISCOVERED", id |-> FALSE,
                 stamp |-> None, signed |-> FALSE, level |-> "unsigned"]
           new == [Idle EXCEPT !.at = "build", !.kind = "create", !.rec = mem']
<1>1. o \in Objects
  BY DEF Objects, States
<1>2. /\ objs' \in Seq(Objects) /\ Len(objs') = Len(objs) + 1 /\ mem' = Len(objs')
      /\ mem' <= MaxObjects /\ mem' \in Nat /\ mem \in Nat /\ mem' = mem + 1
  BY <1>1, AdapterAssumption DEF Base, TypeInv, Create
<1>3. \A u \in Threads : job'[u] = IF u = t THEN new ELSE job[u]
  BY DEF Create, Base, TypeInv
<1>4. new \in Jobs
  BY <1>2, IdleType DEF Jobs, Places
<1>5. TypeInv'
  <2>1. job' \in [Threads -> Jobs]
    BY <1>4 DEF Base, TypeInv, Create
  <2>2. raced' \in BOOLEAN /\ calls' \in Nat
    BY DEF Create, Call, Base, TypeInv
  <2>3. LockType'
    BY DEF Create, Base, TypeInv, LockType
  <2>4. QED
    BY <1>2, <2>1, <2>2, <2>3 DEF Create, Call, Base, TypeInv, app, settings
<1>6. Stages'
  <2> SUFFICES ASSUME NEW u \in Threads PROVE Staged(job'[u], mem')
    BY DEF Stages
  <2>1. CASE u = t
    <3>1. job'[u] = new
      BY <1>3, <2>1
    <3>2. QED
      BY <1>2, <3>1 DEF Staged, Idle, None
  <2>2. CASE u # t
    <3>1. job'[u] = job[u] /\ Staged(job[u], mem) /\ job[u] \in Jobs
      BY <1>3, <2>2 DEF Base, TypeInv, Stages
    <3>2. \A n \in Nat : n \in 1..mem => n \in 1..mem'
      BY <1>2
    <3>3. \A n \in Nat, m \in Nat : n \in m..mem => n \in m..mem'
      BY <1>2
    <3>4. job[u].rec \in Nat /\ job[u].obj \in Nat /\ job[u].via \in Nat
      BY <3>1 DEF Jobs
    <3>5. Staged(job[u], mem')
      BY <1>2, <3>1, <3>2, <3>3, <3>4 DEF Staged
    <3>6. QED
      BY <3>1, <3>5
  <2>3. QED
    BY <2>1, <2>2
<1>7. LocksAddUp'
  <2>0. job[t] = Idle
    BY JobIs DEF Create, At, Staged, Jobs, Inside
  <2>1. \A p : Depth(new, p) = 0 /\ Depth(job[t], p) = 0
    <3>1. \A p : Depth(new, p) = 0
      BY DEF Depth, Idle, N, Inside, None
    <3>2. QED
      BY <2>0, <3>1, DepthType
  <2>2. \A p : \A u \in Threads : Depth(job'[u], p) = Depth(job[u], p)
    BY <1>3, <2>1
  <2>3. QED
    BY <2>2 DEF LocksAddUp, Owned, Base, Create
<1>8. QED
  BY <1>5, <1>6, <1>7 DEF Base

LEMMA ObjsReplaced ==
  ASSUME Base, NEW k, NEW v \in Objects
  PROVE  [objs EXCEPT ![k] = v] \in Seq(Objects) /\ Len([objs EXCEPT ![k] = v]) = Len(objs)
<1>1. objs \in Seq(Objects)
  BY DEF Base, TypeInv
<1>2. QED
  BY <1>1, SeqReplaced

(* The steps of a thread that neither make an object nor change one.        *)
LEMMA FailedType ==
  ASSUME Base, NEW t \in Threads, At(t, "reget") \/ At(t, "act")
  PROVE  Failed(t) \in Jobs /\ Staged(Failed(t), mem)
<1>1. job[t] \in Jobs /\ Staged(job[t], mem)
  BY JobIs
<1>2. job[t].use \in {"plain", "probe", "undo"} /\ (job[t].use # "plain" => job[t].kind = "verify")
  BY <1>1 DEF At, Staged, Jobs, Idle, None
<1>3. CASE job[t].use = "plain"
  <2>1. Failed(t) = Idle
    BY <1>3 DEF Failed
  <2>2. QED
    BY <2>1, IdleType DEF Staged, Idle, None
<1>4. CASE job[t].use = "probe"
  <2>1. Failed(t) = [job[t] EXCEPT !.at = "reget", !.use = "undo", !.verdict = "FAILED"]
    BY <1>4 DEF Failed
  <2>2. Failed(t) \in Jobs
    BY <1>1, <2>1 DEF Jobs, Places, States
  <2>3. Staged(Failed(t), mem)
    BY <1>1, <1>2, <1>4, <2>1 DEF At, Staged, Jobs, Inside, None
  <2>4. QED
    BY <2>2, <2>3
<1>5. CASE job[t].use = "undo"
  <2>1. Failed(t) = [job[t] EXCEPT !.at = "leave", !.verdict = "FAILED"]
    BY <1>5 DEF Failed
  <2>2. QED
    BY <1>1, <1>2, <1>5, <2>1 DEF At, Staged, Jobs, Places, States, Inside, None
<1>6. QED
  BY <1>2, <1>3, <1>4, <1>5

LEMMA VerifyBase ==
  ASSUME Base, NEW t \in Threads, NEW times \in 1..MaxTimes, Verify(t, times)
  PROVE  Base'
<1> DEFINE new == [Idle EXCEPT !.at = "enter", !.kind = "verify",
                               !.rec = mem, !.left = times, !.nr = calls]
<1>1. mem \in Nat \ {0} /\ calls \in Nat
  BY DEF Verify, Base, TypeInv
<1>2. new \in Jobs
  <2>1. times \in 0..MaxTimes
    BY AdapterAssumption
  <2>2. QED
    BY <1>1, <2>1, IdleType DEF Jobs, Places
<1>3. Staged(new, mem)
  BY <1>1, AdapterAssumption DEF Staged, Idle, None, Inside
<1>4. JobMoves(t, new) /\ lock' = lock
  BY <1>2, <1>3 DEF Verify, JobMoves
<1>5. job[t] = Idle
  BY JobIs DEF Verify, At, Staged, Jobs, Inside
<1>6. \A o : Depth(new, o) = 0
  BY DEF Depth, Idle, N, Inside, None
<1> HIDE DEF new
<1>7. \A o : Depth(new, o) = Depth(job[t], o)
  BY <1>5, <1>6, DepthType
<1>8. job' \in [Threads -> Jobs] /\ Stages' /\ LockType' /\ LocksAddUp'
  BY <1>4, <1>7, SameLocks
<1>9. TypeInv'
  BY <1>8 DEF Base, TypeInv, Verify, Call, app, settings
<1>10. QED
  BY <1>8, <1>9 DEF Base

LEMMA InvokeBase ==
  ASSUME Base, NEW t \in Threads, Invoke(t)
  PROVE  Base'
<1> DEFINE new == [Idle EXCEPT !.at = "reget", !.kind = "invoke", !.use = "plain"]
<1>1. new \in Jobs
  BY IdleType, AdapterAssumption DEF Jobs, Places
<1>2. Staged(new, mem)
  BY DEF Staged, Idle, None, Invoke, Base, TypeInv
<1>3. JobMoves(t, new) /\ lock' = lock
  BY <1>1, <1>2 DEF Invoke, JobMoves
<1>4. job[t] = Idle
  BY JobIs DEF Invoke, At, Staged, Jobs, Inside
<1>5. \A o : Depth(new, o) = 0
  BY DEF Depth, Idle, N, None
<1> HIDE DEF new
<1>6. \A o : Depth(new, o) = Depth(job[t], o)
  BY <1>4, <1>5, DepthType
<1>7. job' \in [Threads -> Jobs] /\ Stages' /\ LockType' /\ LocksAddUp'
  BY <1>3, <1>6, SameLocks
<1>8. TypeInv'
  BY <1>7 DEF Base, TypeInv, Invoke, Call, app, settings, history
<1>9. QED
  BY <1>7, <1>8 DEF Base

(* The depth of a failed half is what it held but for the lock it acted by. *)
LEMMA FailedDepth ==
  ASSUME Base, NEW t \in Threads, At(t, "reget") \/ At(t, "act"), NEW o
  PROVE  Depth(job[t], o) = Depth(Failed(t), o) + N(At(t, "act") /\ job[t].via = o)
<1>1. job[t] \in Jobs /\ Staged(job[t], mem)
  BY JobIs
<1>2. /\ job[t].kind \in {"invoke", "verify"} /\ job[t].use \in {"plain", "probe", "undo"}
      /\ job[t].use = "plain" <=> job[t].kind = "invoke"
  BY <1>1 DEF At, Staged, Jobs, Idle, None
<1>3. CASE job[t].use = "plain"
  <2>1. Failed(t) = Idle
    BY <1>3 DEF Failed
  <2>2. Depth(job[t], o) = N(At(t, "act") /\ job[t].via = o)
    BY <1>2, <1>3 DEF At, Depth, N
  <2>3. QED
    BY <2>1, <2>2, DepthType DEF N
<1>4. ASSUME NEW f, f.kind = job[t].kind, f.rec = job[t].rec, f.obj = job[t].obj,
             f.at \in {"reget", "leave"}, job[t].kind = "verify"
      PROVE  Depth(job[t], o) = Depth(f, o) + N(At(t, "act") /\ job[t].via = o)
  BY <1>4 DEF Depth, At, N, Inside
<1>5. CASE job[t].use = "probe"
  <2>1. Failed(t) = [job[t] EXCEPT !.at = "reget", !.use = "undo", !.verdict = "FAILED"]
    BY <1>5 DEF Failed
  <2>2. QED
    BY <1>1, <1>2, <1>4, <1>5, <2>1 DEF Jobs
<1>6. CASE job[t].use = "undo"
  <2>1. Failed(t) = [job[t] EXCEPT !.at = "leave", !.verdict = "FAILED"]
    BY <1>6 DEF Failed
  <2>2. QED
    BY <1>1, <1>2, <1>4, <1>6, <2>1 DEF Jobs
<1>7. QED
  BY <1>2, <1>3, <1>5, <1>6

LEMMA RegetBase ==
  ASSUME Base, NEW t \in Threads, Reget(t)
  PROVE  Base'
<1>1. job[t] \in Jobs /\ Staged(job[t], mem) /\ mem \in Nat /\ At(t, "reget")
  BY JobIs DEF Reget
<1>2. mem > 0 /\ (job[t].kind = "verify" => job[t].obj \in 1..mem)
  BY <1>1 DEF At, Staged, Jobs, Idle, None, Inside
<1> DEFINE bound == [job[t] EXCEPT !.at = "lock", !.via = mem]
           new == IF objs[mem].bound THEN bound ELSE Failed(t)
<1>3. bound \in Jobs
  BY <1>1 DEF Jobs, Places
<1>4. Staged(bound, mem)
  BY <1>1, <1>2 DEF At, Staged, Jobs, Idle, None, Inside
<1>5. new \in Jobs /\ Staged(new, mem)
  BY <1>1, <1>3, <1>4, FailedType
<1>6. JobMoves(t, new) /\ lock' = lock
  BY <1>5 DEF Reget, JobMoves
<1>7. \A o : Depth(new, o) = Depth(job[t], o)
  <2> TAKE o
  <2>1. Depth(bound, o) = Depth(job[t], o)
    BY <1>1 DEF Depth, At, N, Inside, Jobs
  <2>2. Depth(Failed(t), o) = Depth(job[t], o)
    BY <1>1, FailedDepth, DepthType DEF At, N
  <2>3. QED
    BY <2>1, <2>2
<1> HIDE DEF new
<1>8. job' \in [Threads -> Jobs] /\ Stages' /\ LockType' /\ LocksAddUp'
  BY <1>6, <1>7, SameLocks
<1>9. TypeInv'
  BY <1>8 DEF Base, TypeInv, Reget, Call, app, settings, history
<1>10. QED
  BY <1>8, <1>9 DEF Base

LEMMA LockViaBase ==
  ASSUME Base, NEW t \in Threads, LockVia(t)
  PROVE  Base'
<1>1. job[t] \in Jobs /\ Staged(job[t], mem) /\ mem \in Nat /\ At(t, "lock")
  BY JobIs DEF LockVia
<1>2. job[t].via \in 1..mem /\ job[t].kind \in {"invoke", "verify"}
  BY <1>1 DEF At, Staged, Jobs, Idle, None, Inside
<1> DEFINE new == [job[t] EXCEPT !.at = "act"]
<1>3. new \in Jobs
  BY <1>1 DEF Jobs, Places
<1>4. Staged(new, mem)
  BY <1>1, <1>2 DEF At, Staged, Jobs, Idle, None, Inside
<1>5. JobMoves(t, new)
  BY <1>1, <1>3, <1>4 DEF LockVia, JobMoves, Goto, Base, TypeInv
<1>6. \A o : Depth(new, o) = Depth(job[t], o) + N(o = job[t].via)
  BY <1>1 DEF Depth, At, N, Inside, Jobs
<1> HIDE DEF new
<1>7. Lock(job[t].via, t) /\ job[t].via \in 1..MaxObjects
  BY <1>2, JobIs DEF LockVia
<1>8. job' \in [Threads -> Jobs] /\ Stages' /\ LockType' /\ LocksAddUp'
  BY <1>5, <1>6, <1>7, LockTaken
<1>9. TypeInv'
  BY <1>8 DEF Base, TypeInv, LockVia, app, settings, history
<1>10. QED
  BY <1>8, <1>9 DEF Base

LEMMA WithdrawnType ==
  ASSUME NEW o \in Objects
  PROVE  Withdrawn(o) \in Objects
BY DEF Withdrawn, Objects, States

LEMMA ActBase ==
  ASSUME Base, NEW t \in Threads, Act(t)
  PROVE  Base'
<1>1. job[t] \in Jobs /\ Staged(job[t], mem) /\ mem \in Nat /\ At(t, "act")
  BY JobIs DEF Act
<1>2. job[t].via \in 1..mem /\ objs[job[t].via] \in Objects
  BY <1>1, JobIs DEF At, Staged, Jobs, Idle, None, Inside
<1>3. mem' = mem /\ Unlock(job[t].via) /\ job[t].via \in 1..MaxObjects
  BY <1>2, JobIs DEF Act
<1>4. Value(t) \in Values
  <2>1. Probe(t) \in Values
    <3>1. job[t].nr \in Nat /\ job[t].left \in Nat
      BY <1>1, AdapterAssumption DEF Jobs
    <3>2. QED
      BY <3>1 DEF Probe, Values
  <2>2. job[t].use \in {"plain", "probe", "undo"} /\ job[t].found \in Values
    BY <1>1 DEF At, Staged, Jobs, Idle, None, Inside
  <2>3. QED
    BY <2>1, <2>2, IdleType DEF Value
<1>5. objs' \in Seq(Objects) /\ Len(objs') = Len(objs)
  <2>1. Withdrawn(objs[job[t].via]) \in Objects
    BY <1>2, WithdrawnType
  <2>2. objs' = objs \/ objs' = [objs EXCEPT ![job[t].via] = Withdrawn(objs[job[t].via])]
    BY DEF Act
  <2>3. objs \in Seq(Objects)
    BY DEF Base, TypeInv
  <2>4. QED
    BY <2>1, <2>2, <2>3
<1>6. shown' \in Values /\ pending' \in Seq(Values)
  BY <1>4 DEF Act, app, Base, TypeInv
<1> DEFINE held == [job[t] EXCEPT !.at = "wait",
                       !.acted = IF job[t].use = "probe" THEN objs[job[t].via].fp ELSE job[t].acted]
<1>7. PICK new : /\ job' = [job EXCEPT ![t] = new]
                 /\ new = Failed(t) \/ (job[t].use # "plain" /\ new = held)
  <2>1. CASE job' = [job EXCEPT ![t] = Failed(t)]
    BY <2>1
  <2>2. CASE job[t].use # "plain" /\ job' = [job EXCEPT ![t] = held]
    BY <2>2
  <2>3. QED
    BY <2>1, <2>2 DEF Act
<1>8. held \in Jobs
  <2> DEFINE a == IF job[t].use = "probe" THEN objs[job[t].via].fp ELSE job[t].acted
  <2>1. objs[job[t].via].fp \in Contents
    BY <1>2 DEF Objects
  <2>2. a \in Contents \cup {None}
    BY <1>1, <2>1 DEF Jobs
  <2>3. held = [job[t] EXCEPT !.at = "wait", !.acted = a]
    OBVIOUS
  <2> HIDE DEF a, held
  <2>4. [job[t] EXCEPT !.at = "wait", !.acted = a] \in Jobs
    BY <1>1, <2>2 DEF Jobs, Places
  <2>5. QED
    BY <2>3, <2>4
<1>9. job[t].use # "plain" => Staged(held, mem) /\ job[t].kind = "verify"
  <2>1. job[t].use = "probe" => objs[job[t].via].fp # None
    BY <1>2, Marks DEF Objects
  <2>2. job[t].use # "plain" => /\ job[t].kind = "verify"
                                /\ job[t].use \in {"probe", "undo"} /\ job[t].obj \in job[t].rec..mem
    BY <1>1 DEF At, Staged, Jobs, Idle, None, Inside
  <2>3. /\ held.at = "wait" /\ held.kind = job[t].kind /\ held.rec = job[t].rec
        /\ held.obj = job[t].obj /\ held.use = job[t].use /\ held.left = job[t].left
        /\ held.verdict = job[t].verdict
        /\ held.acted = IF job[t].use = "probe" THEN objs[job[t].via].fp ELSE job[t].acted
    BY <1>1 DEF Jobs
  <2> HIDE DEF held
  <2>4. QED
    BY <1>1, <2>1, <2>2, <2>3 DEF At, Staged, Inside, None
<1>10. JobMoves(t, new)
  BY <1>1, <1>3, <1>7, <1>8, <1>9, FailedType DEF JobMoves
<1>11. \A o : Depth(job[t], o) = Depth(new, o) + N(o = job[t].via)
  <2> TAKE o
  <2>1. Depth(job[t], o) = Depth(Failed(t), o) + N(o = job[t].via)
    BY <1>1, FailedDepth DEF At, N
  <2>2. job[t].use # "plain" => Depth(job[t], o) = Depth(held, o) + N(o = job[t].via)
    BY <1>1, <1>9 DEF Depth, At, N, Inside, Jobs
  <2>3. QED
    BY <1>7, <2>1, <2>2
<1> HIDE DEF held
<1>12. job' \in [Threads -> Jobs] /\ Stages' /\ LockType' /\ LocksAddUp'
  BY <1>3, <1>10, <1>11, LockLeft
<1>13. TypeInv'
  BY <1>5, <1>6, <1>12 DEF Base, TypeInv, Act, app, settings, history
<1>14. QED
  BY <1>12, <1>13 DEF Base

LEMMA EnterBase ==
  ASSUME Base, NEW t \in Threads, Enter(t)
  PROVE  Base'
<1>1. job[t] \in Jobs /\ Staged(job[t], mem) /\ mem \in Nat /\ At(t, "enter")
  BY JobIs DEF Enter
<1>2. job[t].rec \in 1..mem /\ job[t].kind = "verify"
  BY <1>1 DEF At, Staged, Jobs, Idle, None, Inside
<1> DEFINE new == [job[t] EXCEPT !.at = "get"]
<1>3. new \in Jobs
  BY <1>1 DEF Jobs, Places
<1>4. Staged(new, mem)
  BY <1>1, <1>2 DEF At, Staged, Jobs, Idle, None, Inside
<1>5. JobMoves(t, new)
  BY <1>1, <1>3, <1>4 DEF Enter, JobMoves, Goto, Base, TypeInv
<1>6. \A o : Depth(new, o) = Depth(job[t], o) + N(o = job[t].rec)
  BY <1>1, <1>2 DEF Depth, At, N, Inside, Jobs
<1> HIDE DEF new
<1>7. Lock(job[t].rec, t) /\ job[t].rec \in 1..MaxObjects
  BY <1>2, JobIs DEF Enter
<1>8. job' \in [Threads -> Jobs] /\ Stages' /\ LockType' /\ LocksAddUp'
  BY <1>5, <1>6, <1>7, LockTaken
<1>9. TypeInv'
  BY <1>8 DEF Base, TypeInv, Enter, app, settings, history
<1>10. QED
  BY <1>8, <1>9 DEF Base

LEMMA GetBase ==
  ASSUME Base, NEW t \in Threads, Get(t)
  PROVE  Base'
<1>1. job[t] \in Jobs /\ Staged(job[t], mem) /\ mem \in Nat /\ At(t, "get")
  BY JobIs DEF Get
<1>2. job[t].rec \in 1..mem /\ job[t].kind = "verify"
  BY <1>1 DEF At, Staged, Jobs, Idle, None, Inside
<1> DEFINE new == [job[t] EXCEPT !.at = "hold", !.obj = mem]
<1>3. new \in Jobs
  BY <1>1 DEF Jobs, Places
<1>4. Staged(new, mem)
  BY <1>1, <1>2 DEF At, Staged, Jobs, Idle, None, Inside
<1>5. JobMoves(t, new) /\ lock' = lock
  BY <1>1, <1>3, <1>4 DEF Get, JobMoves, Base, TypeInv
<1>6. \A o : Depth(new, o) = Depth(job[t], o)
  BY <1>1, <1>2 DEF Depth, At, N, Inside, Jobs
<1> HIDE DEF new
<1>8. job' \in [Threads -> Jobs] /\ Stages' /\ LockType' /\ LocksAddUp'
  BY <1>5, <1>6, SameLocks
<1>9. TypeInv'
  BY <1>8 DEF Base, TypeInv, Get, app, settings, history
<1>10. QED
  BY <1>8, <1>9 DEF Base

LEMMA HoldBase ==
  ASSUME Base, NEW t \in Threads, Hold(t)
  PROVE  Base'
<1>1. job[t] \in Jobs /\ Staged(job[t], mem) /\ mem \in Nat /\ At(t, "hold")
  BY JobIs DEF Hold
<1>2. job[t].obj \in 1..mem /\ job[t].kind = "verify"
  BY <1>1 DEF At, Staged, Jobs, Idle, None, Inside
<1> DEFINE new == [job[t] EXCEPT !.at = "look"]
<1>3. new \in Jobs
  BY <1>1 DEF Jobs, Places
<1>4. Staged(new, mem)
  BY <1>1, <1>2 DEF At, Staged, Jobs, Idle, None, Inside
<1>5. JobMoves(t, new)
  BY <1>1, <1>3, <1>4 DEF Hold, JobMoves, Goto, Base, TypeInv
<1>6. \A o : Depth(new, o) = Depth(job[t], o) + N(o = job[t].obj)
  BY <1>1, <1>2 DEF Depth, At, N, Inside, Jobs
<1> HIDE DEF new
<1>7. Lock(job[t].obj, t) /\ job[t].obj \in 1..MaxObjects
  BY <1>2, JobIs DEF Hold
<1>8. job' \in [Threads -> Jobs] /\ Stages' /\ LockType' /\ LocksAddUp'
  BY <1>5, <1>6, <1>7, LockTaken
<1>9. TypeInv'
  BY <1>8 DEF Base, TypeInv, Hold, app, settings, history
<1>10. QED
  BY <1>8, <1>9 DEF Base

LEMMA LookBase ==
  ASSUME Base, NEW t \in Threads, Look(t)
  PROVE  Base'
<1>1. job[t] \in Jobs /\ Staged(job[t], mem) /\ mem \in Nat /\ At(t, "look") /\ shown \in Values
  BY JobIs DEF Look, Base, TypeInv
<1>2. job[t].kind = "verify"
  BY <1>1 DEF At, Staged, Jobs, Idle, None, Inside
<1> DEFINE over(v) == [job[t] EXCEPT !.at = "leave", !.verdict = v]
           try == [job[t] EXCEPT !.at = "reget", !.use = "probe", !.found = shown]
<1>3. PICK new : /\ job' = [job EXCEPT ![t] = new]
                 /\ new = try \/ \E v \in {"BLOCKED", "FAILED", "UNSUPPORTED"} : new = over(v)
  <2>1. job \in [Threads -> Jobs]
    BY DEF Base, TypeInv
  <2>2. \/ job' = [job EXCEPT ![t] = try]
        \/ \E v \in {"BLOCKED", "FAILED", "UNSUPPORTED"} : job' = [job EXCEPT ![t] = over(v)]
    BY <1>1, <2>1 DEF Look, Jobs
  <2>3. QED
    BY <2>2
<1>4. ASSUME NEW v \in {"BLOCKED", "FAILED", "UNSUPPORTED"}, new = over(v)
      PROVE  new \in Jobs /\ Staged(new, mem) /\ \A o : Depth(new, o) = Depth(job[t], o)
  <2>1. new \in Jobs
    BY <1>1, <1>4 DEF Jobs, Places, States
  <2>2. Staged(new, mem)
    BY <1>1, <1>2, <1>4 DEF At, Staged, Jobs, Idle, None, Inside
  <2>3. \A o : Depth(new, o) = Depth(job[t], o)
    BY <1>1, <1>2, <1>4 DEF Depth, At, N, Inside, Jobs
  <2>4. QED
    BY <2>1, <2>2, <2>3
<1>5. ASSUME new = try
      PROVE  new \in Jobs /\ Staged(new, mem) /\ \A o : Depth(new, o) = Depth(job[t], o)
  <2>1. new \in Jobs
    BY <1>1, <1>5 DEF Jobs, Places, States
  <2>2. Staged(new, mem)
    BY <1>1, <1>2, <1>5 DEF At, Staged, Jobs, Idle, None, Inside
  <2>3. \A o : Depth(new, o) = Depth(job[t], o)
    BY <1>1, <1>2, <1>5 DEF Depth, At, N, Inside, Jobs
  <2>4. QED
    BY <2>1, <2>2, <2>3
<1>6. new \in Jobs /\ Staged(new, mem) /\ \A o : Depth(new, o) = Depth(job[t], o)
  BY <1>3, <1>4, <1>5
<1>7. JobMoves(t, new) /\ lock' = lock
  BY <1>3, <1>6 DEF Look, JobMoves
<1>8. job' \in [Threads -> Jobs] /\ Stages' /\ LockType' /\ LocksAddUp'
  BY <1>6, <1>7, SameLocks
<1>9. TypeInv'
  BY <1>8 DEF Base, TypeInv, Look, app, settings, history
<1>10. QED
  BY <1>8, <1>9 DEF Base

LEMMA WaitBase ==
  ASSUME Base, NEW t \in Threads, Wait(t)
  PROVE  Base'
<1>1. job[t] \in Jobs /\ Staged(job[t], mem) /\ mem \in Nat /\ At(t, "wait")
  BY JobIs DEF Wait
<1>2. /\ job[t].kind = "verify" /\ job[t].use \in {"probe", "undo"}
      /\ job[t].use = "undo" => job[t].verdict \in {"VERIFIED", "FAILED"}
  BY <1>1 DEF At, Staged, Jobs, Idle, None, Inside
<1> DEFINE undo(v) == [job[t] EXCEPT !.at = "reget", !.use = "undo", !.verdict = v]
           over(v) == [job[t] EXCEPT !.at = "leave", !.verdict = v]
<1>3. PICK new : /\ job' = [job EXCEPT ![t] = new]
                 /\ \E v \in {"VERIFIED", "FAILED"} :
                       (new = undo(v) \/ new = over(v)) /\ (v = "VERIFIED" => job[t].acted # None)
  <2>1. CASE job[t].use = "probe"
    <3>1. job' = [job EXCEPT ![t] = undo(IF shown = Probe(t) THEN "VERIFIED" ELSE "FAILED")]
      BY <2>1 DEF Wait
    <3>2. job[t].acted # None
      BY <1>1, <1>2, <2>1 DEF At, Staged
    <3>3. QED
      BY <3>1, <3>2
  <2>2. CASE job[t].use = "undo"
    <3>1. job' = [job EXCEPT ![t] = over(IF Undone(t) THEN job[t].verdict ELSE "FAILED")]
      BY <2>2 DEF Wait
    <3>2. job[t].verdict = "VERIFIED" => job[t].acted # None
      BY <1>1, <1>2 DEF Staged
    <3> HIDE DEF over
    <3>3. QED
      BY <1>2, <2>2, <3>1, <3>2
  <2>3. QED
    BY <1>2, <2>1, <2>2
<1>4. ASSUME NEW v \in {"VERIFIED", "FAILED"}, new = undo(v) \/ new = over(v),
             v = "VERIFIED" => job[t].acted # None
      PROVE  new \in Jobs /\ Staged(new, mem) /\ \A o : Depth(new, o) = Depth(job[t], o)
  <2>1. new \in Jobs
    <3>1. undo(v) \in Jobs
      BY <1>1 DEF Jobs, Places, States
    <3>2. over(v) \in Jobs
      BY <1>1 DEF Jobs, Places, States
    <3>3. QED
      BY <1>4, <3>1, <3>2
  <2>2. Staged(new, mem)
    <3>1. /\ new.kind = "verify" /\ new.rec = job[t].rec /\ new.obj = job[t].obj
          /\ new.left = job[t].left /\ new.acted = job[t].acted /\ new.verdict = v
          /\ new.at = "leave" \/ (new.at = "reget" /\ new.use = "undo")
      BY <1>1, <1>2, <1>4 DEF Jobs
    <3> HIDE DEF undo, over
    <3>2. QED
      BY <1>1, <1>2, <1>4, <3>1 DEF At, Staged, Inside, None
  <2>3. \A o : Depth(new, o) = Depth(job[t], o)
    BY <1>1, <1>2, <1>4 DEF Depth, At, N, Inside, Jobs
  <2>4. QED
    BY <2>1, <2>2, <2>3
<1>6. new \in Jobs /\ Staged(new, mem) /\ \A o : Depth(new, o) = Depth(job[t], o)
  BY <1>3, <1>4
<1>7. JobMoves(t, new) /\ lock' = lock
  BY <1>3, <1>6 DEF Wait, JobMoves
<1>8. job' \in [Threads -> Jobs] /\ Stages' /\ LockType' /\ LocksAddUp'
  BY <1>6, <1>7, SameLocks
<1>9. TypeInv'
  BY <1>8 DEF Base, TypeInv, Wait, app, settings, history
<1>10. QED
  BY <1>8, <1>9 DEF Base

LEMMA LeaveBase ==
  ASSUME Base, NEW t \in Threads, Leave(t)
  PROVE  Base'
<1>1. job[t] \in Jobs /\ Staged(job[t], mem) /\ mem \in Nat /\ At(t, "leave")
  BY JobIs DEF Leave
<1>2. /\ job[t].obj \in 1..mem /\ job[t].kind = "verify" /\ job[t].verdict \in States
      /\ job[t].left \in Nat /\ job[t].left > 0 /\ job[t].left <= MaxTimes /\ MaxTimes \in Nat
  <2>1. MaxTimes \in Nat
    BY AdapterAssumption
  <2>2. QED
    BY <1>1, <2>1 DEF At, Staged, Jobs, Idle, None, Inside
<1> DEFINE next == IF job[t].left > 1 THEN "get" ELSE "record"
           new == [job[t] EXCEPT !.at = next, !.left = job[t].left - 1,
                                 !.seen = job[t].seen \cup {job[t].verdict}]
<1>3. new \in Jobs
  <2>1. job[t].left - 1 \in 0..MaxTimes /\ next \in Places
    BY <1>2 DEF Places
  <2>2. job[t].seen \cup {job[t].verdict} \in SUBSET States
    BY <1>1, <1>2 DEF Jobs
  <2> HIDE DEF next
  <2>3. QED
    BY <1>1, <2>1, <2>2 DEF Jobs
<1>4. Staged(new, mem)
  <2>1. next \in {"get", "record"} /\ (next = "get" => job[t].left - 1 > 0)
    BY <1>2
  <2> HIDE DEF next
  <2>2. /\ new.kind = "verify" /\ new.at = next /\ new.rec = job[t].rec
        /\ new.left = job[t].left - 1 /\ new.verdict = job[t].verdict /\ new.acted = job[t].acted
    BY <1>1, <1>2 DEF Jobs
  <2>3. new.rec \in 1..mem /\ (new.verdict = "VERIFIED" => new.acted # None)
    BY <1>1, <1>2, <2>2 DEF Staged
  <2> HIDE DEF new
  <2>4. QED
    BY <2>1, <2>2, <2>3 DEF Staged, None, Inside
<1>5. JobMoves(t, new)
  <2>1. job' = [job EXCEPT ![t] = new]
    BY <1>1 DEF Leave, Base, TypeInv
  <2>2. QED
    BY <1>3, <1>4, <2>1 DEF Leave, JobMoves
<1>6. \A o : Depth(job[t], o) = Depth(new, o) + N(o = job[t].obj)
  <2> TAKE o
  <2>1. next \in {"get", "record"}
    OBVIOUS
  <2> HIDE DEF next
  <2>2. new.kind = "verify" /\ new.at = next /\ new.rec = job[t].rec
    BY <1>1, <1>2 DEF Jobs
  <2> HIDE DEF new
  <2>3. QED
    BY <1>1, <1>2, <2>1, <2>2 DEF Depth, At, N, Inside
<1> HIDE DEF new
<1>7. Unlock(job[t].obj) /\ job[t].obj \in 1..MaxObjects
  BY <1>2, JobIs DEF Leave
<1>8. job' \in [Threads -> Jobs] /\ Stages' /\ LockType' /\ LocksAddUp'
  BY <1>5, <1>6, <1>7, LockLeft
<1>9. TypeInv'
  <2>1. proven' \subseteq Contents
    <3>1. job[t].verdict = "VERIFIED" => job[t].acted \in Contents
      BY <1>1, <1>2 DEF Staged, Jobs, None
    <3>2. QED
      BY <3>1 DEF Leave, Base, TypeInv
  <2>2. QED
    BY <1>8, <2>1 DEF Base, TypeInv, Leave, app, settings
<1>10. QED
  BY <1>8, <1>9 DEF Base

Judged(o, s) == [o EXCEPT !.state = s, !.id = (s = "VERIFIED"),
                          !.stamp = IF s = "VERIFIED" THEN o.fp ELSE None]
LEMMA JudgedType ==
  ASSUME NEW o \in Objects, NEW s \in States
  PROVE  /\ Judged(o, s) \in Objects
         /\ Judged(o, s).fp = o.fp /\ Judged(o, s).state = s /\ Judged(o, s).id = (s = "VERIFIED")
         /\ Judged(o, s).stamp = (IF s = "VERIFIED" THEN o.fp ELSE None)
         /\ Judged(o, s).bound = o.bound /\ Judged(o, s).signed = o.signed
         /\ Judged(o, s).level = o.level
BY DEF Judged, Objects

LEMMA RecordBase ==
  ASSUME Base, NEW t \in Threads, Record(t)
  PROVE  Base'
<1>1. job[t] \in Jobs /\ Staged(job[t], mem) /\ mem \in Nat /\ At(t, "record")
  BY JobIs DEF Record
<1>2. job[t].rec \in 1..mem /\ job[t].kind = "verify" /\ objs[job[t].rec] \in Objects
  BY <1>1, JobIs DEF At, Staged, Jobs, Idle, None, Inside
<1> DEFINE o == objs[job[t].rec]
           made == Judged(o, Final(job[t].seen))
           m == Manifest(made, o)
           new == [job[t] EXCEPT !.at = "write", !.file = m]
<1>3. made \in Objects /\ m \in Written
  <2>1. Final(job[t].seen) \in States
    BY <1>1, FinalType DEF Jobs
  <2>2. QED
    BY <1>2, <2>1, JudgedType, ManifestType
<1>4. objs' = [objs EXCEPT ![job[t].rec] = made] /\ job' = [job EXCEPT ![t] = new]
  BY <1>1 DEF Record, Judged, Base, TypeInv
<1> HIDE DEF made, m
<1>5. new \in Jobs
  BY <1>1, <1>3 DEF Jobs, Places, Manifests
<1>6. Staged(new, mem)
  BY <1>1, <1>2 DEF At, Staged, Jobs, Idle, None, Inside
<1>7. \A p : Depth(new, p) = Depth(job[t], p)
  BY <1>1, <1>2 DEF Depth, At, N, Inside, Jobs
<1>8. JobMoves(t, new) /\ lock' = lock
  BY <1>4, <1>5, <1>6 DEF Record, JobMoves
<1> HIDE DEF new
<1>9. job' \in [Threads -> Jobs] /\ Stages' /\ LockType' /\ LocksAddUp'
  BY <1>7, <1>8, SameLocks
<1>10. objs' \in Seq(Objects) /\ Len(objs') = Len(objs)
  <2>1. objs \in Seq(Objects)
    BY DEF Base, TypeInv
  <2>2. made \in Objects
    BY <1>3
  <2>3. /\ [objs EXCEPT ![job[t].rec] = made] \in Seq(Objects)
        /\ Len([objs EXCEPT ![job[t].rec] = made]) = Len(objs)
    BY <2>2, ObjsReplaced
  <2>4. QED
    BY <1>4, <2>3
<1>11. TypeInv'
  BY <1>9, <1>10 DEF Base, TypeInv, Record, app, settings, history
<1>12. QED
  BY <1>9, <1>11 DEF Base

LEMMA BuildBase ==
  ASSUME Base, NEW t \in Threads, Build(t)
  PROVE  Base'
<1>1. job[t] \in Jobs /\ Staged(job[t], mem) /\ mem \in Nat /\ At(t, "build")
  BY JobIs DEF Build
<1>2. job[t].rec \in 1..mem /\ job[t].kind = "create" /\ objs[job[t].rec] \in Objects
  BY <1>1, JobIs DEF At, Staged, Jobs, Idle, None, Inside
<1> DEFINE m == Manifest(objs[job[t].rec], objs[job[t].rec])
           new == [job[t] EXCEPT !.at = "write", !.file = m]
<1>3. m \in Written
  BY <1>2, ManifestType
<1>4. job' = [job EXCEPT ![t] = new]
  BY <1>1 DEF Build, Base, TypeInv
<1> HIDE DEF m
<1>5. new \in Jobs
  BY <1>1, <1>3 DEF Jobs, Places, Manifests
<1>6. Staged(new, mem)
  BY <1>1, <1>2 DEF At, Staged, Jobs, Idle, None, Inside
<1>7. \A p : Depth(new, p) = Depth(job[t], p)
  BY <1>1, <1>2 DEF Depth, At, N, Inside, Jobs
<1>8. JobMoves(t, new) /\ lock' = lock
  BY <1>4, <1>5, <1>6 DEF Build, JobMoves
<1> HIDE DEF new
<1>9. job' \in [Threads -> Jobs] /\ Stages' /\ LockType' /\ LocksAddUp'
  BY <1>7, <1>8, SameLocks
<1>10. TypeInv'
  BY <1>9 DEF Base, TypeInv, Build, app, settings, history
<1>11. QED
  BY <1>9, <1>10 DEF Base

LEMMA WriteBase ==
  ASSUME Base, NEW t \in Threads, Write(t)
  PROVE  Base'
<1>1. job[t] \in Jobs /\ Staged(job[t], mem) /\ mem \in Nat /\ At(t, "write")
  BY JobIs DEF Write
<1>2. job[t].rec \in 1..mem /\ job[t].kind \in {"create", "verify"}
  BY <1>1 DEF At, Staged, Jobs, Idle, None, Inside
<1>3. Staged(Idle, mem)
  BY DEF Staged, Idle, None
<1>4. JobMoves(t, Idle)
  BY <1>3, IdleType DEF Write, JobMoves
<1>5. job' \in [Threads -> Jobs] /\ Stages' /\ LockType' /\ LocksAddUp'
  <2>1. CASE job[t].kind = "verify"
    <3>1. \A o : Depth(job[t], o) = Depth(Idle, o) + N(o = job[t].rec)
      <4>1. \A o : Depth(job[t], o) = N(o = job[t].rec)
        BY <1>1, <2>1 DEF Depth, At, N, Inside
      <4>2. QED
        BY <4>1, DepthType DEF N
    <3>2. Unlock(job[t].rec) /\ job[t].rec \in 1..MaxObjects
      BY <1>2, <2>1, JobIs DEF Write
    <3>3. QED
      BY <1>4, <3>1, <3>2, LockLeft
  <2>2. CASE job[t].kind # "verify"
    <3>1. \A o : Depth(job[t], o) = 0
      BY <1>1, <2>2 DEF Depth, At, N
    <3>2. lock' = lock
      BY <2>2 DEF Write
    <3>3. QED
      BY <1>4, <3>1, <3>2, SameLocks, DepthType
  <2>3. QED
    BY <2>1, <2>2
<1>6. disk' \in Manifests /\ unsaved' \in BOOLEAN
  BY <1>1 DEF Write, Jobs, Base, TypeInv
<1>7. TypeInv'
  BY <1>5, <1>6 DEF Base, TypeInv, Write, app, settings
<1>8. QED
  BY <1>5, <1>7 DEF Base

(* The steps around.                                                        *)
LEMMA SurroundingBase ==
  ASSUME Base, Show \/ SetPolicy \/ SetTrust \/ Rebind
  PROVE  Base'
<1>1. job' = job /\ lock' = lock /\ mem' = mem /\ Stages' /\ LocksAddUp'
  BY DEF Show, SetPolicy, SetTrust, Rebind, Base, Stages, LocksAddUp, Owned
<1>2. objs' \in Seq(Objects) /\ Len(objs') = Len(objs)
  <2>1. objs \in Seq(Objects) /\ mem = Len(objs)
    BY DEF Base, TypeInv
  <2>2. CASE Rebind
    <3>1. objs[mem] \in Objects
      BY <2>1, <2>2 DEF Rebind
    <3>2. [objs[mem] EXCEPT !.bound = TRUE] \in Objects
      BY <3>1 DEF Objects
    <3>3. objs' = [objs EXCEPT ![mem] = [objs[mem] EXCEPT !.bound = TRUE]]
      BY <2>1, <2>2 DEF Rebind
    <3>4. QED
      BY <2>1, <3>2, <3>3, SeqReplaced
  <2>3. CASE ~Rebind
    BY <2>1, <2>3 DEF Show, SetPolicy, SetTrust
  <2>4. QED
    BY <2>2, <2>3
<1>3. shown' \in Values /\ pending' \in Seq(Values)
  <2>1. shown \in Values /\ pending \in Seq(Values)
    BY DEF Base, TypeInv
  <2>2. CASE Show
    BY <2>1, <2>2 DEF Show
  <2>3. CASE ~Show
    BY <2>1, <2>3 DEF SetPolicy, SetTrust, Rebind, app
  <2>4. QED
    BY <2>2, <2>3
<1>4. denied' \in BOOLEAN /\ trusted' \in BOOLEAN /\ events' \in Nat
  <2>1. denied \in BOOLEAN /\ trusted \in BOOLEAN /\ events \in Nat
    BY DEF Base, TypeInv
  <2>2. denied' \in BOOLEAN
    BY <2>1 DEF Show, SetPolicy, SetTrust, Rebind, settings
  <2>3. trusted' \in BOOLEAN
    BY <2>1 DEF Show, SetPolicy, SetTrust, Rebind, settings
  <2>4. events' \in Nat
    BY <2>1 DEF Show, SetPolicy, SetTrust, Rebind, Event
  <2>5. QED
    BY <2>2, <2>3, <2>4
<1>5. LockType'
  BY <1>1 DEF Base, TypeInv, LockType
<1>6. TypeInv'
  BY <1>1, <1>2, <1>3, <1>4, <1>5
     DEF Base, TypeInv, Show, SetPolicy, SetTrust, Rebind, Event, settings, history, app
<1>7. QED
  BY <1>1, <1>6 DEF Base

LEMMA RestartBase ==
  ASSUME Base, Restart
  PROVE  Base'
<1>1. disk' \in Manifests
  BY EditedType DEF Restart, Base, TypeInv, Manifests
<1>2. objs' \in Seq(Objects) /\ mem' = Len(objs') /\ mem' <= MaxObjects
  BY <1>1, RestoredType DEF Restart
<1>3. job' \in [Threads -> Jobs] /\ \A u \in Threads : job'[u] = Idle
  BY IdleType DEF Restart
<1>4. LockType' /\ \A o \in 1..MaxObjects : lock'[o] = Free
  BY DEF Restart, LockType, Free
<1>5. TypeInv'
  BY <1>1, <1>2, <1>3, <1>4 DEF Base, TypeInv, Restart, Event, settings, app
<1>6. Stages'
  BY <1>3 DEF Stages, Staged, Idle, None
<1>7. LocksAddUp'
  BY <1>3, <1>4, DepthType, Marks DEF LocksAddUp, Owned, Free
<1>8. QED
  BY <1>5, <1>6, <1>7 DEF Base

LEMMA BaseStep ==
  ASSUME Base, [Next]_vars
  PROVE  Base'
<1>1. ASSUME NEW t \in Threads, NEW c \in Contents, Create(t, c) PROVE Base'
  BY <1>1, CreateBase
<1>2. ASSUME NEW t \in Threads, NEW times \in 1..MaxTimes, Verify(t, times) PROVE Base'
  BY <1>2, VerifyBase
<1>3. ASSUME NEW t \in Threads, Invoke(t) PROVE Base'
  BY <1>3, InvokeBase
<1>4. ASSUME NEW t \in Threads, Thread(t) PROVE Base'
  <2>1. CASE Reget(t) \/ LockVia(t) \/ Act(t)
    BY <2>1, RegetBase, LockViaBase, ActBase
  <2>2. CASE Enter(t) \/ Get(t) \/ Hold(t) \/ Look(t) \/ Wait(t)
    BY <2>2, EnterBase, GetBase, HoldBase, LookBase, WaitBase
  <2>3. CASE Leave(t)
    BY <2>3, LeaveBase
  <2>4. CASE Record(t) \/ Build(t) \/ Write(t)
    BY <2>4, RecordBase, BuildBase, WriteBase
  <2>5. QED
    BY <1>4, <2>1, <2>2, <2>3, <2>4 DEF Thread
<1>5. CASE Rebind \/ Show \/ SetPolicy \/ SetTrust
  BY <1>5, SurroundingBase
<1>6. CASE Restart
  BY <1>6, RestartBase
<1>7. CASE UNCHANGED vars
  <2>1. UNCHANGED <<objs, mem, disk, shown, pending, lock, job, denied, trusted, proven, raced,
                    unsaved, calls, events>>
    BY <1>7 DEF vars, app, settings, history
  <2>2. TypeInv'
    BY <2>1 DEF Base, TypeInv, LockType
  <2>3. Stages' /\ LocksAddUp'
    BY <2>1 DEF Base, Stages, LocksAddUp, Owned
  <2>4. QED
    BY <2>2, <2>3 DEF Base
<1>8. QED
  BY <1>1, <1>2, <1>3, <1>4, <1>5, <1>6, <1>7 DEF Next

LEMMA BaseInvariant == Spec => []Base
BY BaseInit, BaseStep, PTL DEF Spec

-----------------------------------------------------------------------------
(* No circle of waiting threads.                                            *)

(* A thread holds only locks up to the one it waits for, and one it waits   *)
(* for without having it belongs to somebody who waits for a newer one.     *)
LEMMA WaitsUpward ==
  ASSUME Base, NEW t \in Threads, Blocked(t)
  PROVE  /\ WaitsFor(t) \in 1..mem
         /\ lock[WaitsFor(t)].by # t
         /\ \A o \in 1..MaxObjects : lock[o].by = t => o < WaitsFor(t)
<1>1. job[t] \in Jobs /\ Staged(job[t], mem) /\ mem \in Nat /\ mem <= MaxObjects
  BY JobIs
<1>2. WaitsFor(t) # 0 /\ lock[WaitsFor(t)].by # t
  BY DEF Blocked, MayLock
<1>3. job[t].at \in {"enter", "hold", "lock"}
  BY <1>2 DEF WaitsFor, At
<1>4. /\ WaitsFor(t) \in 1..mem
      /\ \A o \in 1..MaxObjects : Depth(job[t], o) > 0 => o <= WaitsFor(t)
  <2>1. CASE job[t].at = "enter"
    <3>1. WaitsFor(t) = job[t].rec
      BY <2>1 DEF WaitsFor, At
    <3>2. job[t].rec \in 1..mem
      BY <1>1, <2>1 DEF Jobs, Staged, Idle, None, Inside
    <3>3. \A o : Depth(job[t], o) = 0
      BY <2>1 DEF Depth, N, Inside
    <3>4. QED
      BY <3>1, <3>2, <3>3
  <2>2. CASE job[t].at = "hold"
    <3>1. WaitsFor(t) = job[t].obj
      BY <2>2 DEF WaitsFor, At
    <3>2. job[t].rec \in 1..mem /\ job[t].obj \in job[t].rec..mem
      BY <1>1, <2>2 DEF Jobs, Staged, Idle, None
    <3>3. \A o : Depth(job[t], o) > 0 => o = job[t].rec
      BY <2>2 DEF Depth, N, Inside
    <3>4. QED
      BY <1>1, <3>1, <3>2, <3>3
  <2>3. CASE job[t].at = "lock"
    <3>1. WaitsFor(t) = job[t].via
      BY <2>3 DEF WaitsFor, At
    <3>2. \/ job[t].kind = "invoke" /\ job[t].via \in 1..mem
          \/ /\ job[t].kind = "verify" /\ job[t].rec \in 1..mem /\ job[t].obj \in job[t].rec..mem
             /\ job[t].via \in job[t].obj..mem
      BY <1>1, <2>3 DEF Jobs, Staged, Idle, None, Inside
    <3>3. \A o : Depth(job[t], o) > 0 =>
                   job[t].kind = "verify" /\ o \in {job[t].rec, job[t].obj}
      BY <2>3 DEF Depth, N, Inside
    <3>4. job[t].via \in 1..mem /\ \A o : Depth(job[t], o) > 0 => o <= job[t].via
      BY <1>1, <3>2, <3>3
    <3>5. QED
      BY <3>1, <3>4
  <2>4. QED
    BY <1>3, <2>1, <2>2, <2>3
<1>5. ASSUME NEW o \in 1..MaxObjects, lock[o].by = t PROVE o < WaitsFor(t)
  <2>1. lock[o].depth # 0 /\ Depth(job[t], o) = lock[o].depth
    BY <1>5, Marks DEF Base, LocksAddUp, Owned
  <2>2. Depth(job[t], o) > 0
    BY <2>1, DepthType
  <2>3. o # WaitsFor(t)
    BY <1>2, <1>5
  <2>4. QED
    BY <1>1, <1>4, <2>2, <2>3
<1>6. QED
  BY <1>2, <1>4, <1>5

LEMMA LeastNatural ==
  ASSUME NEW T \in SUBSET Nat, T # {}
  PROVE  \E n \in T : \A m \in T : n <= m
<1> DEFINE Below == OpToRel(<, Nat)
<1>1. IsWellFoundedOn(Below, Nat)
  BY NatLessThanWellFounded
<1>2. \A m, n \in Nat : m < n => <<m, n>> \in Below
  BY DEF OpToRel
<1> HIDE DEF Below
<1>3. PICK n \in T : \A m \in T : ~(<<m, n>> \in Below)
  BY <1>1, WFMin
<1>4. \A m \in T : ~(m < n)
  BY <1>2, <1>3
<1>5. QED
  BY <1>4

LEMMA GreatestOf ==
  ASSUME NEW b \in Nat, NEW T \in SUBSET (1..b), T # {}
  PROVE  \E n \in T : \A m \in T : ~(n < m)
<1> DEFINE Left == {b - n : n \in T}
<1>1. Left \in SUBSET Nat /\ Left # {}
  <2>1. \A n \in T : b - n \in Nat
    OBVIOUS
  <2>2. QED
    BY <2>1
<1>2. PICK l \in Left : \A k \in Left : l <= k
  BY <1>1, LeastNatural
<1>3. PICK n \in T : l = b - n
  OBVIOUS
<1>4. \A m \in T : b - n <= b - m
  BY <1>2, <1>3
<1>5. QED
  BY <1>4

LEMMA NoCircle == Base => NoCircularWait
<1> SUFFICES ASSUME Base, NEW S \in SUBSET Threads, S # {},
                    \A t \in S : Blocked(t) /\ lock[WaitsFor(t)].by \in S
             PROVE  FALSE
  BY DEF NoCircularWait
<1>1. mem \in Nat /\ mem <= MaxObjects /\ MaxObjects \in Nat
  BY AdapterAssumption DEF Base, TypeInv
<1> DEFINE Awaited == {WaitsFor(t) : t \in S}
<1>2. Awaited \subseteq 1..mem /\ Awaited # {}
  BY WaitsUpward
<1>3. \A w \in Awaited : \E v \in Awaited : w < v
  <2> SUFFICES ASSUME NEW t \in S PROVE \E v \in Awaited : WaitsFor(t) < v
    OBVIOUS
  <2>1. WaitsFor(t) \in 1..MaxObjects /\ lock[WaitsFor(t)].by \in S
    BY <1>1, WaitsUpward
  <2>2. WaitsFor(t) < WaitsFor(lock[WaitsFor(t)].by)
    BY <2>1, WaitsUpward
  <2>3. QED
    BY <2>1, <2>2
<1> HIDE DEF Awaited
<1>4. QED
  BY <1>1, <1>2, <1>3, GreatestOf

(***************************************************************************)
(* However many threads, generations of the adapter and attempts: threads  *)
(* never wait for each other's verification locks in a circle.             *)
(***************************************************************************)
THEOREM CircularWaitNever == Spec => []NoCircularWait
BY BaseInvariant, NoCircle, PTL

-----------------------------------------------------------------------------
(* What each step of a thread does to its job                               *)

Others(t) == \A u \in Threads : u # t => job'[u] = job[u]
SameCall(n, j) == n.kind = j.kind /\ n.rec = j.rec /\ n.nr = j.nr
SameTry(n, j) == n.left = j.left /\ n.seen = j.seen /\ n.acted = j.acted
FailedTo(n, j) ==
    \/ n = Idle /\ j.kind = "invoke" /\ j.use = "plain"
    \/ /\ j.kind = "verify" /\ SameCall(n, j) /\ SameTry(n, j) /\ n.obj = j.obj /\ n.found = j.found
       /\ n.verdict = "FAILED" /\ n.use = "undo"
       /\ (j.use = "probe" /\ n.at = "reget") \/ (j.use = "undo" /\ n.at = "leave")

LEMMA FailedIs ==
  ASSUME Base, NEW t \in Threads, At(t, "reget") \/ At(t, "act")
  PROVE  FailedTo(Failed(t), job[t])
<1>1. job[t] \in Jobs /\ Staged(job[t], mem)
  BY JobIs
<1>2. /\ job[t].kind \in {"invoke", "verify"} /\ job[t].use \in {"plain", "probe", "undo"}
      /\ job[t].use = "plain" <=> job[t].kind = "invoke"
  BY <1>1 DEF At, Staged, Jobs, Idle, None
<1>3. CASE job[t].use = "plain"
  <2>1. Failed(t) = Idle
    BY <1>3 DEF Failed
  <2>2. QED
    BY <1>2, <1>3, <2>1 DEF FailedTo
<1>4. CASE job[t].use = "probe"
  <2>1. Failed(t) = [job[t] EXCEPT !.at = "reget", !.use = "undo", !.verdict = "FAILED"]
    BY <1>4 DEF Failed
  <2>2. QED
    BY <1>1, <1>2, <1>4, <2>1 DEF FailedTo, SameCall, SameTry, Jobs
<1>5. CASE job[t].use = "undo"
  <2>1. Failed(t) = [job[t] EXCEPT !.at = "leave", !.verdict = "FAILED"]
    BY <1>5 DEF Failed
  <2>2. QED
    BY <1>1, <1>2, <1>5, <2>1 DEF FailedTo, SameCall, SameTry, Jobs
<1>6. QED
  BY <1>2, <1>3, <1>4, <1>5

LEMMA RegetIs ==
  ASSUME Base, NEW t \in Threads, Reget(t)
  PROVE  /\ Others(t) /\ At(t, "reget")
         /\ \/ FailedTo(job'[t], job[t])
            \/ /\ SameCall(job'[t], job[t]) /\ SameTry(job'[t], job[t])
               /\ job'[t].at = "lock" /\ job'[t].via = mem /\ job'[t].obj = job[t].obj
               /\ job'[t].found = job[t].found /\ job'[t].use = job[t].use
               /\ job'[t].verdict = job[t].verdict
<1>1. job[t] \in Jobs /\ job \in [Threads -> Jobs] /\ At(t, "reget")
  BY DEF Base, TypeInv, Reget
<1>2. Others(t)
  BY <1>1 DEF Reget, Others
<1>3. CASE objs[mem].bound
  <2>1. job'[t] = [job[t] EXCEPT !.at = "lock", !.via = mem]
    BY <1>1, <1>3 DEF Reget
  <2>2. QED
    BY <1>1, <1>2, <2>1 DEF SameCall, SameTry, Jobs
<1>4. CASE ~objs[mem].bound
  <2>1. job'[t] = Failed(t)
    BY <1>1, <1>4 DEF Reget
  <2>2. QED
    BY <1>1, <1>2, <2>1, FailedIs
<1>5. QED
  BY <1>3, <1>4

LEMMA LockViaIs ==
  ASSUME Base, NEW t \in Threads, LockVia(t)
  PROVE  /\ Others(t) /\ At(t, "lock")
         /\ SameCall(job'[t], job[t]) /\ SameTry(job'[t], job[t])
         /\ job'[t].at = "act" /\ job'[t].via = job[t].via /\ job'[t].obj = job[t].obj
         /\ job'[t].found = job[t].found /\ job'[t].use = job[t].use
         /\ job'[t].verdict = job[t].verdict
<1>1. job[t] \in Jobs /\ job \in [Threads -> Jobs] /\ At(t, "lock")
  BY DEF Base, TypeInv, LockVia
<1>2. job'[t] = [job[t] EXCEPT !.at = "act"] /\ Others(t)
  BY <1>1 DEF LockVia, Goto, Others
<1>3. QED
  BY <1>1, <1>2 DEF SameCall, SameTry, Jobs

LEMMA ActIs ==
  ASSUME Base, NEW t \in Threads, Act(t)
  PROVE  /\ Others(t) /\ At(t, "act")
         /\ \/ FailedTo(job'[t], job[t])
            \/ /\ SameCall(job'[t], job[t]) /\ job[t].kind = "verify"
               /\ job'[t].left = job[t].left /\ job'[t].seen = job[t].seen
               /\ job'[t].at = "wait" /\ job'[t].obj = job[t].obj
               /\ job'[t].found = job[t].found /\ job'[t].use = job[t].use
               /\ job'[t].verdict = job[t].verdict
               /\ job'[t].acted = IF job[t].use = "probe" THEN objs[job[t].via].fp
                                  ELSE job[t].acted
         /\ \/ UNCHANGED app
            \/ shown' = shown /\ pending' = Append(pending, Value(t))
         /\ objs' = objs \/ (Claims(objs[job[t].via])
                             /\ objs' = [objs EXCEPT ![job[t].via] = Withdrawn(objs[job[t].via])])
<1>1. /\ job[t] \in Jobs /\ job \in [Threads -> Jobs] /\ At(t, "act") /\ Staged(job[t], mem)
  BY JobIs DEF Base, TypeInv, Act
<1> DEFINE held == [job[t] EXCEPT !.at = "wait",
                       !.acted = IF job[t].use = "probe" THEN objs[job[t].via].fp ELSE job[t].acted]
<1>2. \/ job' = [job EXCEPT ![t] = Failed(t)]
      \/ job[t].use # "plain" /\ job' = [job EXCEPT ![t] = held]
  <2> HIDE DEF held
  <2>1. \A ok : job' = [job EXCEPT ![t] = IF ~ok \/ job[t].use = "plain" THEN Failed(t) ELSE held]
                => \/ job' = [job EXCEPT ![t] = Failed(t)]
                   \/ job[t].use # "plain" /\ job' = [job EXCEPT ![t] = held]
    OBVIOUS
  <2> USE DEF held
  <2>2. QED
    BY <2>1 DEF Act
<1>3. Others(t) /\ (job'[t] = Failed(t) \/ (job[t].use # "plain" /\ job'[t] = held))
  <2> HIDE DEF held
  <2>1. QED
    BY <1>1, <1>2 DEF Others
<1>4. job[t].use # "plain" => job[t].kind = "verify"
  BY <1>1 DEF At, Staged, Jobs, Idle, None
<1>5. /\ SameCall(held, job[t]) /\ held.left = job[t].left /\ held.seen = job[t].seen
      /\ held.at = "wait" /\ held.obj = job[t].obj
      /\ held.found = job[t].found /\ held.use = job[t].use /\ held.verdict = job[t].verdict
      /\ held.acted = IF job[t].use = "probe" THEN objs[job[t].via].fp ELSE job[t].acted
  BY <1>1 DEF SameCall, Jobs
<1>6. FailedTo(Failed(t), job[t])
  BY <1>1, FailedIs
<1>7. UNCHANGED app \/ (shown' = shown /\ pending' = Append(pending, Value(t)))
  BY DEF Act, app
<1>8. objs' = objs \/ (Claims(objs[job[t].via])
                        /\ objs' = [objs EXCEPT ![job[t].via] = Withdrawn(objs[job[t].via])])
  BY DEF Act
<1> HIDE DEF held
<1>9. QED
  BY <1>1, <1>3, <1>4, <1>5, <1>6, <1>7, <1>8

LEMMA EntersIs ==
  ASSUME Base, NEW t \in Threads, Enter(t) \/ Get(t) \/ Hold(t)
  PROVE  /\ Others(t) /\ job[t].kind = "verify"
         /\ SameCall(job'[t], job[t]) /\ SameTry(job'[t], job[t])
         /\ \/ Enter(t) /\ job[t].at = "enter" /\ job'[t].at = "get"
            \/ Get(t) /\ job[t].at = "get" /\ job'[t].at = "hold"
            \/ Hold(t) /\ job[t].at = "hold" /\ job'[t].at = "look"
         /\ job'[t].found = job[t].found /\ job'[t].use = job[t].use
         /\ job'[t].verdict = job[t].verdict
<1>1. job[t] \in Jobs /\ job \in [Threads -> Jobs] /\ Staged(job[t], mem)
  BY JobIs DEF Base, TypeInv
<1>2. job[t].at \in {"enter", "get", "hold"}
  BY DEF Enter, Get, Hold, At
<1>3. job[t].kind = "verify"
  BY <1>1, <1>2 DEF Staged, Jobs, Idle, None
<1>4. CASE Enter(t) \/ Hold(t)
  <2>1. Others(t) /\ \/ Enter(t) /\ job[t].at = "enter" /\ job'[t] = [job[t] EXCEPT !.at = "get"]
                     \/ Hold(t) /\ job[t].at = "hold" /\ job'[t] = [job[t] EXCEPT !.at = "look"]
    BY <1>1, <1>4 DEF Enter, Hold, Goto, Others, At
  <2>2. QED
    BY <1>1, <1>3, <2>1 DEF SameCall, SameTry, Jobs
<1>5. CASE Get(t)
  <2>1. Others(t) /\ job'[t] = [job[t] EXCEPT !.at = "hold", !.obj = mem]
    BY <1>1, <1>5 DEF Get, Others
  <2>2. QED
    BY <1>1, <1>2, <1>3, <1>5, <2>1 DEF SameCall, SameTry, Jobs, Get, At
<1>6. QED
  BY <1>4, <1>5

LEMMA LookIs ==
  ASSUME Base, NEW t \in Threads, Look(t)
  PROVE  /\ Others(t) /\ job[t].kind = "verify" /\ At(t, "look")
         /\ SameCall(job'[t], job[t]) /\ SameTry(job'[t], job[t])
         /\ \/ /\ job'[t].at = "leave" /\ job'[t].verdict \in {"BLOCKED", "FAILED", "UNSUPPORTED"}
               /\ job'[t].found = job[t].found
            \/ job'[t].at = "reget" /\ job'[t].use = "probe" /\ job'[t].found = shown
<1>1. job[t] \in Jobs /\ job \in [Threads -> Jobs] /\ Staged(job[t], mem) /\ At(t, "look")
  BY JobIs DEF Base, TypeInv, Look
<1>2. job[t].kind = "verify"
  BY <1>1 DEF At, Staged, Jobs, Idle, None
<1> DEFINE over(v) == [job[t] EXCEPT !.at = "leave", !.verdict = v]
           try == [job[t] EXCEPT !.at = "reget", !.use = "probe", !.found = shown]
<1>3. \/ job' = [job EXCEPT ![t] = try]
      \/ \E v \in {"BLOCKED", "FAILED", "UNSUPPORTED"} : job' = [job EXCEPT ![t] = over(v)]
  BY <1>1 DEF Look, Jobs
<1>4. CASE job' = [job EXCEPT ![t] = try]
  <2>1. job'[t] = try /\ Others(t)
    BY <1>1, <1>4 DEF Others
  <2>2. QED
    BY <1>1, <1>2, <2>1 DEF SameCall, SameTry, Jobs
<1>5. CASE \E v \in {"BLOCKED", "FAILED", "UNSUPPORTED"} : job' = [job EXCEPT ![t] = over(v)]
  <2>1. PICK v \in {"BLOCKED", "FAILED", "UNSUPPORTED"} : job' = [job EXCEPT ![t] = over(v)]
    BY <1>5
  <2>2. job'[t] = over(v) /\ Others(t)
    BY <1>1, <2>1 DEF Others
  <2>3. QED
    BY <1>1, <1>2, <2>2 DEF SameCall, SameTry, Jobs
<1>6. QED
  BY <1>3, <1>4, <1>5

LEMMA WaitIs ==
  ASSUME Base, NEW t \in Threads, Wait(t)
  PROVE  /\ Others(t) /\ job[t].kind = "verify" /\ At(t, "wait")
         /\ SameCall(job'[t], job[t]) /\ SameTry(job'[t], job[t])
         /\ job'[t].found = job[t].found /\ job'[t].use = "undo"
         /\ \/ /\ job[t].use = "probe" /\ job'[t].at = "reget"
               /\ job'[t].verdict = IF shown = Probe(t) THEN "VERIFIED" ELSE "FAILED"
            \/ /\ job[t].use = "undo" /\ job'[t].at = "leave"
               /\ job'[t].verdict = IF shown = job[t].found THEN job[t].verdict ELSE "FAILED"
<1>1. job[t] \in Jobs /\ job \in [Threads -> Jobs] /\ Staged(job[t], mem) /\ At(t, "wait")
  BY JobIs DEF Base, TypeInv, Wait
<1>2. job[t].kind = "verify" /\ job[t].use \in {"probe", "undo"}
  BY <1>1 DEF At, Staged, Jobs, Idle, None
<1> DEFINE v == IF shown = Probe(t) THEN "VERIFIED" ELSE "FAILED"
           w == IF shown = job[t].found THEN job[t].verdict ELSE "FAILED"
<1>3. CASE job[t].use = "probe"
  <2>1. job' = [job EXCEPT ![t] = [job[t] EXCEPT !.at = "reget", !.use = "undo", !.verdict = v]]
    BY <1>3 DEF Wait
  <2> HIDE DEF v
  <2>2. /\ job'[t] = [job[t] EXCEPT !.at = "reget", !.use = "undo", !.verdict = v]
        /\ Others(t)
    BY <1>1, <2>1 DEF Others
  <2>3. SameCall(job'[t], job[t]) /\ SameTry(job'[t], job[t])
    BY <1>1, <2>2 DEF SameCall, SameTry, Jobs
  <2>4. /\ job'[t].found = job[t].found /\ job'[t].use = "undo"
        /\ job'[t].at = "reget" /\ job'[t].verdict = v
    BY <1>1, <2>2 DEF Jobs
  <2>5. QED
    BY <1>1, <1>2, <1>3, <2>2, <2>3, <2>4 DEF v
<1>4. CASE job[t].use = "undo"
  <2>1. job' = [job EXCEPT ![t] = [job[t] EXCEPT !.at = "leave", !.verdict = w]]
    BY <1>4 DEF Wait, Undone
  <2> HIDE DEF w
  <2>2. /\ job'[t] = [job[t] EXCEPT !.at = "leave", !.verdict = w]
        /\ Others(t)
    BY <1>1, <2>1 DEF Others
  <2>3. SameCall(job'[t], job[t]) /\ SameTry(job'[t], job[t])
    BY <1>1, <2>2 DEF SameCall, SameTry, Jobs
  <2>4. /\ job'[t].found = job[t].found /\ job'[t].use = "undo"
        /\ job'[t].at = "leave" /\ job'[t].verdict = w
    BY <1>1, <1>4, <2>2 DEF Jobs
  <2>5. QED
    BY <1>1, <1>2, <1>4, <2>2, <2>3, <2>4 DEF w
<1>5. QED
  BY <1>2, <1>3, <1>4

LEMMA LeaveIs ==
  ASSUME Base, NEW t \in Threads, Leave(t)
  PROVE  /\ Others(t) /\ job[t].kind = "verify" /\ At(t, "leave")
         /\ SameCall(job'[t], job[t]) /\ job'[t].acted = job[t].acted
         /\ job'[t].found = job[t].found /\ job'[t].use = job[t].use
         /\ job'[t].verdict = job[t].verdict /\ job'[t].left = job[t].left - 1
         /\ job'[t].seen = job[t].seen \cup {job[t].verdict}
         /\ job'[t].at \in {"get", "record"}
<1>1. job[t] \in Jobs /\ job \in [Threads -> Jobs] /\ Staged(job[t], mem) /\ At(t, "leave")
  BY JobIs DEF Base, TypeInv, Leave
<1>2. job[t].kind = "verify"
  BY <1>1 DEF At, Staged, Jobs, Idle, None
<1> DEFINE next == IF job[t].left > 1 THEN "get" ELSE "record"
           new == [job[t] EXCEPT !.at = next, !.left = job[t].left - 1,
                                 !.seen = job[t].seen \cup {job[t].verdict}]
<1>3. job' = [job EXCEPT ![t] = new]
  BY <1>1 DEF Leave
<1>4. next \in {"get", "record"}
  OBVIOUS
<1> HIDE DEF next
<1>5. job'[t] = new /\ Others(t)
  BY <1>1, <1>3 DEF Others
<1>6. QED
  BY <1>1, <1>2, <1>4, <1>5 DEF SameCall, Jobs

LEMMA RecordIs ==
  ASSUME Base, NEW t \in Threads, Record(t)
  PROVE  /\ Others(t) /\ job[t].kind = "verify" /\ At(t, "record")
         /\ SameCall(job'[t], job[t]) /\ SameTry(job'[t], job[t])
         /\ job'[t].at = "write" /\ job'[t].found = job[t].found
         /\ LET new == Judged(objs[job[t].rec], Final(job[t].seen))
            IN  /\ objs' = [objs EXCEPT ![job[t].rec] = new]
                /\ job'[t].file = Manifest(new, objs[job[t].rec])
<1>1. job[t] \in Jobs /\ job \in [Threads -> Jobs] /\ Staged(job[t], mem) /\ At(t, "record")
  BY JobIs DEF Base, TypeInv, Record
<1>2. job[t].kind = "verify"
  BY <1>1 DEF At, Staged, Jobs, Idle, None
<1> DEFINE made == Judged(objs[job[t].rec], Final(job[t].seen))
           m == Manifest(made, objs[job[t].rec])
<1>3. objs' = [objs EXCEPT ![job[t].rec] = made]
  BY DEF Record, Judged
<1>4. job'[t] = [job[t] EXCEPT !.at = "write", !.file = m] /\ Others(t)
  BY <1>1 DEF Record, Judged, Others
<1> HIDE DEF m
<1>5. /\ SameCall(job'[t], job[t]) /\ SameTry(job'[t], job[t])
      /\ job'[t].at = "write" /\ job'[t].found = job[t].found /\ job'[t].file = m
  BY <1>1, <1>4 DEF SameCall, SameTry, Jobs
<1>6. QED
  BY <1>1, <1>2, <1>3, <1>4, <1>5 DEF m

LEMMA BuildIs ==
  ASSUME Base, NEW t \in Threads, Build(t)
  PROVE  /\ Others(t) /\ job[t].kind = "create" /\ At(t, "build")
         /\ SameCall(job'[t], job[t])
         /\ job'[t].at = "write" /\ job'[t].found = job[t].found
         /\ job'[t].file = Manifest(objs[job[t].rec], objs[job[t].rec])
<1>1. job[t] \in Jobs /\ job \in [Threads -> Jobs] /\ Staged(job[t], mem) /\ At(t, "build")
  BY JobIs DEF Base, TypeInv, Build
<1>2. job[t].kind = "create"
  BY <1>1 DEF At, Staged, Jobs, Idle, None, Inside
<1> DEFINE m == Manifest(objs[job[t].rec], objs[job[t].rec])
<1>3. job'[t] = [job[t] EXCEPT !.at = "write", !.file = m] /\ Others(t)
  BY <1>1 DEF Build, Others
<1> HIDE DEF m
<1>4. /\ SameCall(job'[t], job[t])
      /\ job'[t].at = "write" /\ job'[t].found = job[t].found /\ job'[t].file = m
  BY <1>1, <1>3 DEF SameCall, Jobs
<1>5. QED
  BY <1>1, <1>2, <1>3, <1>4 DEF m

LEMMA WriteIs ==
  ASSUME Base, NEW t \in Threads, Write(t)
  PROVE  Others(t) /\ job'[t] = Idle /\ At(t, "write") /\ job[t].kind \in {"create", "verify"}
<1>1. job[t] \in Jobs /\ job \in [Threads -> Jobs] /\ Staged(job[t], mem) /\ At(t, "write")
  BY JobIs DEF Base, TypeInv, Write
<1>2. job[t].kind \in {"create", "verify"}
  BY <1>1 DEF At, Staged, Jobs, Idle, None, Inside
<1>3. QED
  BY <1>1, <1>2 DEF Write, Others

LEMMA IdleFields == /\ Idle.at = "idle" /\ Idle.kind = None /\ Idle.found = Original
                    /\ Idle.kind \notin {"create", "verify", "invoke"}
BY DEF Idle, None

LEMMA IdleIs ==
  ASSUME Base, NEW t \in Threads
  PROVE  job[t].at = "idle" <=> job[t].kind = None
BY JobIs, IdleFields DEF Staged, Jobs, Inside

LEMMA ThreadKeeps ==
  ASSUME Base, NEW t \in Threads, Thread(t)
  PROVE  /\ Others(t) /\ mem' = mem /\ raced' = raced /\ calls' = calls
         /\ job[t].at # "idle" /\ job[t].kind # None
         /\ job'[t] = Idle \/ SameCall(job'[t], job[t])
         /\ job'[t].at \in {"lock", "act"} =>
               job'[t].via = mem \/ (job[t].at = "lock" /\ job'[t].via = job[t].via)
<1>1. mem' = mem /\ raced' = raced /\ calls' = calls /\ job[t].at # "idle"
  <2>1. CASE Reget(t) \/ LockVia(t) \/ Act(t)
    BY <2>1 DEF Reget, LockVia, Act, history, At
  <2>2. CASE Enter(t) \/ Get(t) \/ Hold(t) \/ Look(t) \/ Wait(t)
    BY <2>2 DEF Enter, Get, Hold, Look, Wait, history, At
  <2>3. CASE Leave(t) \/ Record(t) \/ Build(t) \/ Write(t)
    BY <2>3 DEF Leave, Record, Build, Write, history, At
  <2>4. QED
    BY <2>1, <2>2, <2>3 DEF Thread
<1>2. job[t].kind # None
  BY <1>1, IdleIs
<1>3. /\ Others(t)
      /\ job'[t] = Idle \/ SameCall(job'[t], job[t])
      /\ job'[t].at \in {"lock", "act"} =>
            job'[t].via = mem \/ (job[t].at = "lock" /\ job'[t].via = job[t].via)
  <2>1. CASE Reget(t)
    BY <2>1, RegetIs, IdleFields DEF FailedTo
  <2>2. CASE LockVia(t)
    BY <2>2, LockViaIs DEF At
  <2>3. CASE Act(t)
    BY <2>3, ActIs, IdleFields DEF FailedTo
  <2>4. CASE Enter(t) \/ Get(t) \/ Hold(t)
    BY <2>4, EntersIs
  <2>5. CASE Look(t)
    BY <2>5, LookIs
  <2>6. CASE Wait(t)
    BY <2>6, WaitIs
  <2>7. CASE Leave(t)
    BY <2>7, LeaveIs
  <2>8. CASE Record(t)
    BY <2>8, RecordIs
  <2>9. CASE Build(t)
    BY <2>9, BuildIs
  <2>10. CASE Write(t)
    BY <2>10, WriteIs, IdleFields
  <2>11. QED
    BY <2>1, <2>2, <2>3, <2>4, <2>5, <2>6, <2>7, <2>8, <2>9, <2>10 DEF Thread
<1>4. QED
  BY <1>1, <1>2, <1>3

(* While no creation overlaps another call there is one object at work.     *)
OneGeneration ==
    /\ \A t \in Threads : job[t].kind \in {"create", "verify"} => job[t].rec = mem
    /\ \A t \in Threads : job[t].at \in {"lock", "act"} => job[t].via = mem
    /\ \A t, u \in Threads :
          job[t].kind = "create" /\ job[u].kind \in {"create", "verify"} => u = t
Generation == ~raced => OneGeneration

LEMMA CreateIs ==
  ASSUME Base, NEW t \in Threads, NEW c, Create(t, c)
  PROVE  /\ Others(t) /\ job[t].kind = None /\ mem' = mem + 1 /\ mem \in Nat
         /\ job'[t].at = "build" /\ job'[t].kind = "create" /\ job'[t].rec = mem'
         /\ job'[t].found = Original
         /\ ~raced' => ~raced /\ \A u \in Threads : job[u].kind = None
         /\ objs' = Append(objs, [bound |-> TRUE, fp |-> c, state |-> "DISCOVERED", id |-> FALSE,
                                  stamp |-> None, signed |-> FALSE, level |-> "unsigned"])
<1>1. job \in [Threads -> Jobs] /\ mem = Len(objs) /\ mem \in Nat
  BY DEF Base, TypeInv
<1>2. /\ Others(t)
      /\ job'[t] = [Idle EXCEPT !.at = "build", !.kind = "create", !.rec = mem']
  BY <1>1 DEF Create, Others
<1>3. /\ job'[t].at = "build" /\ job'[t].kind = "create" /\ job'[t].rec = mem'
      /\ job'[t].found = Original
  BY <1>2 DEF Idle
<1>4. job[t].kind = None /\ (~raced' => ~raced /\ \A u \in Threads : job[u].kind = None)
  BY IdleIs DEF Create, At
<1>5. QED
  BY <1>1, <1>2, <1>3, <1>4 DEF Create

LEMMA VerifyIs ==
  ASSUME Base, NEW t \in Threads, NEW times, Verify(t, times)
  PROVE  /\ Others(t) /\ job[t].kind = None /\ mem' = mem
         /\ job'[t].at = "enter" /\ job'[t].kind = "verify" /\ job'[t].rec = mem
         /\ job'[t].found = Original /\ job'[t].nr = calls /\ job'[t].left = times
         /\ job'[t].seen = {} /\ job'[t].use = None /\ job'[t].verdict = None
         /\ ~raced' => ~raced /\ \A u \in Threads : job[u].kind # "create"
<1>1. job \in [Threads -> Jobs]
  BY DEF Base, TypeInv
<1>2. /\ Others(t)
      /\ job'[t] = [Idle EXCEPT !.at = "enter", !.kind = "verify",
                                !.rec = mem, !.left = times, !.nr = calls]
  BY <1>1 DEF Verify, Others
<1>3. /\ job'[t].at = "enter" /\ job'[t].kind = "verify" /\ job'[t].rec = mem
      /\ job'[t].found = Original /\ job'[t].nr = calls /\ job'[t].left = times
      /\ job'[t].seen = {} /\ job'[t].use = None /\ job'[t].verdict = None
  BY <1>2 DEF Idle
<1>4. job[t].kind = None
  BY IdleIs DEF Verify, At
<1>5. ~raced' => ~raced /\ \A u \in Threads : job[u].kind # "create"
  BY DEF Verify, Running
<1>6. QED
  BY <1>2, <1>3, <1>4, <1>5 DEF Verify

LEMMA InvokeIs ==
  ASSUME Base, NEW t \in Threads, Invoke(t)
  PROVE  /\ Others(t) /\ job[t].kind = None /\ mem' = mem /\ raced' = raced
         /\ job'[t].at = "reget" /\ job'[t].kind = "invoke" /\ job'[t].found = Original
<1>1. job \in [Threads -> Jobs]
  BY DEF Base, TypeInv
<1>2. /\ Others(t)
      /\ job'[t] = [Idle EXCEPT !.at = "reget", !.kind = "invoke", !.use = "plain"]
  BY <1>1 DEF Invoke, Others
<1>3. job'[t].at = "reget" /\ job'[t].kind = "invoke" /\ job'[t].found = Original
  BY <1>2 DEF Idle
<1>4. job[t].kind = None
  BY IdleIs DEF Invoke, At
<1>5. QED
  BY <1>2, <1>3, <1>4 DEF Invoke, history

LEMMA RestartIs ==
  ASSUME Restart
  PROVE  \A t \in Threads : job'[t] = Idle
BY DEF Restart

LEMMA GenerationStep ==
  ASSUME Base, Generation, [Next]_vars
  PROVE  Generation'
<1> SUFFICES ASSUME ~raced' PROVE OneGeneration'
  BY DEF Generation
<1>1. ASSUME NEW t \in Threads, NEW c \in Contents, Create(t, c) PROVE OneGeneration'
  BY <1>1, CreateIs, IdleFields, JobIs, IdleIs DEF OneGeneration, Others, None
<1>2. ASSUME NEW t \in Threads, NEW times \in 1..MaxTimes, Verify(t, times) PROVE OneGeneration'
  BY <1>2, VerifyIs DEF Generation, OneGeneration, Others, None
<1>3. ASSUME NEW t \in Threads, Invoke(t) PROVE OneGeneration'
  BY <1>3, InvokeIs DEF Generation, OneGeneration, Others, None
<1>4. ASSUME NEW t \in Threads, Thread(t) PROVE OneGeneration'
  BY <1>4, ThreadKeeps, IdleFields DEF Generation, OneGeneration, Others, SameCall, None
<1>5. CASE Rebind \/ Show \/ SetPolicy \/ SetTrust \/ UNCHANGED vars
  BY <1>5 DEF Rebind, Show, SetPolicy, SetTrust, vars, history, Generation, OneGeneration
<1>6. CASE Restart
  BY <1>6, RestartIs, IdleFields DEF OneGeneration
<1>7. QED
  BY <1>1, <1>2, <1>3, <1>4, <1>5, <1>6 DEF Next

LEMMA GenerationInvariant == Spec => []Generation
<1>1. Init => Generation
  BY IdleFields DEF Init, Generation, OneGeneration
<1>2. QED
  BY <1>1, BaseInvariant, GenerationStep, PTL DEF Spec

(* A verification past its first lock is the only thread at the adapter.    *)
LEMMA Exclusion ==
  ASSUME Base, OneGeneration, NEW t \in Threads, job[t].kind = "verify", job[t].at # "enter",
         NEW u \in Threads, u # t
  PROVE  job[u].at # "act" /\ (job[u].kind = "verify" => job[u].at = "enter")
<1>1. job[t].rec = mem /\ mem \in 1..MaxObjects
  BY JobIs DEF OneGeneration, Staged
<1>2. Depth(job[t], mem) > 0
  <2>1. \A b : N(b) \in Nat
    BY DEF N
  <2>2. N(job[t].kind = "verify" /\ job[t].at # "enter" /\ job[t].rec = mem) = 1
    BY <1>1 DEF N
  <2>3. QED
    BY <2>1, <2>2 DEF Depth
<1>3. lock[mem].by = t
  BY <1>1, <1>2 DEF Base, LocksAddUp, Owned
<1>4. Depth(job[u], mem) = 0
  BY <1>1, <1>3 DEF Base, LocksAddUp, Owned
<1>5. /\ ~(job[u].kind = "verify" /\ job[u].at # "enter" /\ job[u].rec = mem)
      /\ ~(job[u].at = "act" /\ job[u].via = mem)
  BY <1>4 DEF Depth, N
<1>6. QED
  BY <1>5 DEF OneGeneration

-----------------------------------------------------------------------------
(* The value of a probe is new in the world                                 *)

SeenIn(sh, pe, jo, v) ==
    v = sh \/ (\E i \in 1..Len(pe) : pe[i] = v) \/ \E t \in Threads : jo[t].found = v
Seen(v) == SeenIn(shown, pending, job, v)
SeenNext(v) == SeenIn(shown', pending', job', v)
Unused(j) == j.at \in {"enter", "get", "hold", "look"}
                \/ (j.at \in {"reget", "lock", "act"} /\ j.use = "probe")
Limit(j) == IF Unused(j) THEN j.left + 1 ELSE j.left
ProbeOf(n, l) == <<"probe", n, l>>
Fresh ==
    /\ \A n, l \in Nat : Seen(ProbeOf(n, l)) => n < calls
    /\ \A t \in Threads : job[t].kind = "verify" => job[t].nr < calls
    /\ \A t, u \in Threads :
          job[t].kind = "verify" /\ job[u].kind = "verify" /\ job[t].nr = job[u].nr => u = t
    /\ \A t \in Threads : \A l \in Nat : job[t].kind = "verify" /\ l < Limit(job[t])
                                            => ~Seen(ProbeOf(job[t].nr, l))

LEMMA ProbesDiffer ==
  /\ \A n, l : ProbeOf(n, l) \notin {Original, Typed}
  /\ \A n, l, m, k : ProbeOf(n, l) = ProbeOf(m, k) => n = m /\ l = k
<1>1. \A n, l : /\ ProbeOf(n, l)[1] = "probe" /\ ProbeOf(n, l)[2] = n /\ ProbeOf(n, l)[3] = l
  BY DEF ProbeOf
<1>2. Original[1] = "original" /\ Typed[1] = "typed"
  BY DEF Original, Typed
<1>3. QED
  BY <1>1, <1>2

LEMMA WorldStep ==
  ASSUME Base, NEW t \in Threads, Thread(t), NEW v, SeenNext(v)
  PROVE  \/ Seen(v) \/ v \in {Original, Typed}
         \/ /\ job[t].at = "act" /\ job[t].use = "probe" /\ job[t].kind = "verify"
            /\ v = Probe(t)
<1>1. job'[t].found \in {job[t].found, shown, Original}
  <2>1. CASE Reget(t) \/ LockVia(t) \/ Act(t)
    BY <2>1, RegetIs, LockViaIs, ActIs, IdleFields DEF FailedTo
  <2>2. CASE Enter(t) \/ Get(t) \/ Hold(t) \/ Look(t) \/ Wait(t)
    BY <2>2, EntersIs, LookIs, WaitIs
  <2>3. CASE Leave(t) \/ Record(t) \/ Build(t) \/ Write(t)
    BY <2>3, LeaveIs, RecordIs, BuildIs, WriteIs, IdleFields
  <2>4. QED
    BY <2>1, <2>2, <2>3 DEF Thread
<1>2. \/ UNCHANGED app
      \/ Act(t) /\ shown' = shown /\ pending' = Append(pending, Value(t))
  <2>1. CASE Act(t)
    BY <2>1, ActIs
  <2>2. CASE ~Act(t)
    BY <2>2 DEF Thread, Reget, LockVia, Enter, Get, Hold, Look, Wait, Leave, Record, Build, Write
  <2>3. QED
    BY <2>1, <2>2
<1>3. \A u \in Threads : Seen(job[u].found) /\ job'[u].found \in {job[u].found, shown, Original}
  BY <1>1, ThreadKeeps DEF Others, Seen, SeenIn
<1>4. CASE \E u \in Threads : job'[u].found = v
  BY <1>3, <1>4 DEF Seen, SeenNext, SeenIn
<1>5. CASE UNCHANGED app
  BY <1>3, <1>5 DEF Seen, SeenNext, SeenIn, app
<1>6. CASE Act(t) /\ shown' = shown /\ pending' = Append(pending, Value(t))
  <2>1. pending \in Seq(Values) /\ Len(pending) \in Nat
    BY DEF Base, TypeInv
  <2>2. \A i \in 1..Len(pending') : \/ i \in 1..Len(pending) /\ pending'[i] = pending[i]
                                    \/ pending'[i] = Value(t)
    BY <1>6, <2>1
  <2>3. Seen(v) \/ v = Value(t) \/ v = Original
    <3>1. \/ v = shown' \/ (\E i \in 1..Len(pending') : pending'[i] = v)
          \/ \E u \in Threads : job'[u].found = v
      BY DEF SeenNext, SeenIn
    <3>2. CASE v = shown'
      BY <1>6, <3>2 DEF Seen, SeenNext, SeenIn
    <3>3. CASE \E i \in 1..Len(pending') : pending'[i] = v
      <4>1. PICK i \in 1..Len(pending') : pending'[i] = v
        BY <3>3
      <4>2. QED
        BY <2>2, <4>1 DEF Seen, SeenNext, SeenIn
    <3>4. CASE \E u \in Threads : job'[u].found = v
      BY <1>3, <3>4 DEF Seen, SeenNext, SeenIn
    <3>5. QED
      BY <3>1, <3>2, <3>3, <3>4
  <2>4. job[t].at = "act" /\ job[t] \in Jobs /\ Staged(job[t], mem)
    BY <1>6, JobIs DEF Act, At
  <2>5. /\ job[t].use \in {"plain", "probe", "undo"}
        /\ job[t].use = "probe" => job[t].kind = "verify"
    BY <2>4 DEF Staged, Jobs, Idle, None
  <2>6. CASE job[t].use = "probe"
    BY <2>3, <2>4, <2>5, <2>6 DEF Value
  <2>7. CASE job[t].use = "undo"
    BY <1>3, <2>3, <2>7 DEF Value
  <2>8. CASE job[t].use = "plain"
    BY <2>3, <2>8 DEF Value
  <2>9. QED
    BY <2>5, <2>6, <2>7, <2>8
<1>7. QED
  BY <1>2, <1>5, <1>6

LEMMA LimitStep ==
  ASSUME Base, NEW t \in Threads, Thread(t), job'[t].kind = "verify"
  PROVE  /\ Limit(job'[t]) <= Limit(job[t])
         /\ job[t].at = "act" /\ job[t].use = "probe" => Limit(job'[t]) <= job[t].left
<1>1. job[t].left \in Nat
  BY JobIs, AdapterAssumption DEF Jobs
<1>2. job'[t] # Idle
  BY IdleFields
<1>3. CASE Reget(t)
  BY <1>1, <1>2, <1>3, RegetIs DEF FailedTo, At, SameTry, Limit, Unused
<1>4. CASE LockVia(t)
  BY <1>1, <1>4, LockViaIs DEF At, SameTry, Limit, Unused
<1>5. CASE Act(t)
  BY <1>1, <1>2, <1>5, ActIs DEF FailedTo, At, SameTry, Limit, Unused
<1>6. CASE Enter(t) \/ Get(t) \/ Hold(t)
  BY <1>1, <1>6, EntersIs DEF At, SameTry, Limit, Unused
<1>7. CASE Look(t)
  BY <1>1, <1>7, LookIs DEF At, SameTry, Limit, Unused
<1>8. CASE Wait(t)
  BY <1>1, <1>8, WaitIs DEF At, SameTry, Limit, Unused
<1>9. CASE Leave(t)
  BY <1>1, <1>9, LeaveIs DEF At, SameTry, Limit, Unused
<1>10. CASE Record(t)
  BY <1>1, <1>10, RecordIs DEF At, SameTry, Limit, Unused
<1>11. CASE Build(t)
  BY <1>11, BuildIs DEF SameCall
<1>12. CASE Write(t)
  BY <1>2, <1>12, WriteIs
<1>13. QED
  BY <1>3, <1>4, <1>5, <1>6, <1>7, <1>8, <1>9, <1>10, <1>11, <1>12 DEF Thread

LEMMA FreshStep ==
  ASSUME Base, Fresh, [Next]_vars
  PROVE  Fresh'
<1>0. calls \in Nat /\ job \in [Threads -> Jobs]
  BY DEF Base, TypeInv
(* Nothing new is seen, and only calls that were there go on.               *)
<1>1. ASSUME calls' \in Nat, calls <= calls',
             \A n, l \in Nat : SeenNext(ProbeOf(n, l)) => Seen(ProbeOf(n, l)),
             \A t \in Threads : job'[t].kind = "verify" => job'[t] = job[t]
      PROVE  Fresh'
  <2>1. \A t \in Threads : job[t].nr \in Nat
    BY <1>0 DEF Jobs
  <2>2. \A n, l \in Nat : SeenNext(ProbeOf(n, l)) => n < calls'
    <3>1. \A n, l \in Nat : SeenNext(ProbeOf(n, l)) => n < calls
      BY <1>1 DEF Fresh
    <3>2. \A n \in Nat : n < calls => n < calls'
      BY <1>0, <1>1
    <3>3. QED
      BY <3>1, <3>2
  <2>3. \A t \in Threads : job'[t].kind = "verify" => job'[t].nr < calls'
    BY <1>0, <1>1, <2>1 DEF Fresh
  <2>4. \A t, u \in Threads :
          job'[t].kind = "verify" /\ job'[u].kind = "verify" /\ job'[t].nr = job'[u].nr => u = t
    BY <1>1 DEF Fresh
  <2>5. \A t \in Threads : \A l \in Nat : job'[t].kind = "verify" /\ l < Limit(job'[t])
                                           => ~SeenNext(ProbeOf(job'[t].nr, l))
    BY <1>1, <2>1 DEF Fresh
  <2>6. QED
    BY <2>2, <2>3, <2>4, <2>5 DEF Fresh, Seen, SeenNext, SeenIn
<1>2. ASSUME NEW t \in Threads, Others(t), job'[t].found = Original, UNCHANGED app, NEW n, NEW l,
             SeenNext(ProbeOf(n, l))
      PROVE  Seen(ProbeOf(n, l))
  BY <1>2, ProbesDiffer DEF Seen, SeenNext, SeenIn, Others, app
<1>3. ASSUME NEW t \in Threads, NEW c \in Contents, Create(t, c) PROVE Fresh'
  <2>1. calls' \in Nat /\ calls <= calls' /\ UNCHANGED app
    BY <1>0, <1>3 DEF Create, Call
  <2>2. Others(t) /\ job'[t].found = Original /\ job'[t].kind = "create"
    BY <1>3, CreateIs
  <2>3. QED
    BY <1>1, <1>2, <2>1, <2>2 DEF Others
<1>4. ASSUME NEW t \in Threads, Invoke(t) PROVE Fresh'
  <2>1. calls' \in Nat /\ calls <= calls' /\ UNCHANGED app
    BY <1>0, <1>4 DEF Invoke, Call
  <2>2. Others(t) /\ job'[t].found = Original /\ job'[t].kind = "invoke"
    BY <1>4, InvokeIs
  <2>3. QED
    BY <1>1, <1>2, <2>1, <2>2 DEF Others
<1>5. ASSUME NEW t \in Threads, NEW times \in 1..MaxTimes, Verify(t, times) PROVE Fresh'
  <2>1. calls' = calls + 1 /\ UNCHANGED app
    BY <1>5 DEF Verify, Call
  <2>2. /\ Others(t) /\ job'[t].found = Original /\ job'[t].kind = "verify" /\ job'[t].nr = calls
        /\ job[t].kind = None
    BY <1>5, VerifyIs
  <2>3. \A n, l \in Nat : SeenNext(ProbeOf(n, l)) => Seen(ProbeOf(n, l)) /\ n < calls
    BY <1>2, <2>1, <2>2 DEF Fresh
  <2>4. \A u \in Threads : job'[u].nr \in Nat
    BY <1>0, <2>2 DEF Others, Jobs
  <2>5. \A n, l \in Nat : SeenNext(ProbeOf(n, l)) => n < calls'
    BY <1>0, <2>1, <2>3
  <2>6. \A u \in Threads : job'[u].kind = "verify" => job'[u].nr < calls'
    BY <1>0, <2>1, <2>2, <2>4 DEF Fresh, Others
  <2>7. \A v, u \in Threads :
          job'[v].kind = "verify" /\ job'[u].kind = "verify" /\ job'[v].nr = job'[u].nr => u = v
    BY <1>0, <2>2 DEF Fresh, Others
  <2>8. \A u \in Threads : \A l \in Nat : job'[u].kind = "verify" /\ l < Limit(job'[u])
                                           => ~SeenNext(ProbeOf(job'[u].nr, l))
    <3>1. ASSUME NEW u \in Threads, NEW l \in Nat, job'[u].kind = "verify", l < Limit(job'[u]),
                 SeenNext(ProbeOf(job'[u].nr, l))
          PROVE  FALSE
      <4>1. Seen(ProbeOf(job'[u].nr, l)) /\ job'[u].nr < calls
        BY <2>3, <2>4, <3>1
      <4>2. u # t
        BY <1>0, <2>2, <4>1
      <4>3. job'[u] = job[u]
        BY <2>2, <4>2 DEF Others
      <4>4. QED
        BY <3>1, <4>1, <4>3 DEF Fresh
    <3>2. QED
      BY <3>1
  <2>9. QED
    BY <2>5, <2>6, <2>7, <2>8 DEF Fresh, Seen, SeenNext, SeenIn
<1>6. ASSUME NEW t \in Threads, Thread(t) PROVE Fresh'
  <2>1. /\ Others(t) /\ calls' = calls
        /\ job'[t].kind = "verify" => job[t].kind = "verify" /\ job'[t].nr = job[t].nr
    BY <1>6, ThreadKeeps, IdleFields DEF SameCall
  <2>2. \A u \in Threads : job[u].nr \in Nat /\ job[u].left \in Nat
    BY <1>0, AdapterAssumption DEF Jobs
  <2>3. \A n, l \in Nat : SeenNext(ProbeOf(n, l)) =>
              \/ Seen(ProbeOf(n, l))
              \/ /\ job[t].at = "act" /\ job[t].use = "probe" /\ job[t].kind = "verify"
                 /\ n = job[t].nr /\ l = job[t].left
    BY <1>6, WorldStep, ProbesDiffer DEF Probe, ProbeOf
  <2>4. \A n, l \in Nat : SeenNext(ProbeOf(n, l)) => n < calls'
    BY <2>1, <2>3 DEF Fresh
  <2>5. \A u \in Threads : job'[u].kind = "verify" => job'[u].nr < calls'
    BY <2>1 DEF Fresh, Others
  <2>6. \A v, u \in Threads :
          job'[v].kind = "verify" /\ job'[u].kind = "verify" /\ job'[v].nr = job'[u].nr => u = v
    BY <2>1 DEF Fresh, Others
  <2>7. \A u \in Threads : \A l \in Nat : job'[u].kind = "verify" /\ l < Limit(job'[u])
                                           => ~SeenNext(ProbeOf(job'[u].nr, l))
    <3>1. ASSUME NEW u \in Threads, NEW l \in Nat, job'[u].kind = "verify", l < Limit(job'[u]),
                 SeenNext(ProbeOf(job'[u].nr, l))
          PROVE  FALSE
      <4>1. job[u].kind = "verify" /\ job'[u].nr = job[u].nr
        BY <2>1, <3>1 DEF Others
      <4>2. \/ Seen(ProbeOf(job[u].nr, l))
            \/ /\ job[t].at = "act" /\ job[t].use = "probe" /\ job[t].kind = "verify"
               /\ job[u].nr = job[t].nr /\ l = job[t].left
        BY <2>2, <2>3, <3>1, <4>1
      <4>3. CASE u = t
        <5>1. /\ Limit(job'[t]) <= Limit(job[t])
              /\ job[t].at = "act" /\ job[t].use = "probe" => Limit(job'[t]) <= job[t].left
          BY <1>6, <3>1, <4>3, LimitStep
        <5>2. Limit(job'[t]) \in Nat /\ Limit(job[t]) \in Nat
          <6>1. job'[t].left \in Nat
            BY <1>6, BaseStep, AdapterAssumption DEF Next, Base, TypeInv, Jobs
          <6>2. QED
            BY <2>2, <6>1 DEF Limit
        <5>3. ~Seen(ProbeOf(job[t].nr, l))
          BY <3>1, <4>1, <4>3, <5>1, <5>2 DEF Fresh
        <5>4. QED
          BY <2>2, <3>1, <4>2, <4>3, <5>1, <5>2, <5>3
      <4>4. CASE u # t
        <5>1. job'[u] = job[u]
          BY <2>1, <4>4 DEF Others
        <5>2. ~Seen(ProbeOf(job[u].nr, l))
          BY <3>1, <4>1, <5>1 DEF Fresh
        <5>3. QED
          BY <4>1, <4>2, <4>4, <5>2 DEF Fresh
      <4>5. QED
        BY <4>3, <4>4
    <3>2. QED
      BY <3>1
  <2>8. QED
    BY <2>4, <2>5, <2>6, <2>7 DEF Fresh, Seen, SeenNext, SeenIn
<1>7. CASE Rebind \/ SetPolicy \/ SetTrust \/ UNCHANGED vars
  <2>1. UNCHANGED <<calls, app, job>>
    BY <1>7 DEF Rebind, SetPolicy, SetTrust, vars
  <2>2. QED
    BY <1>0, <1>1, <2>1 DEF Seen, SeenNext, SeenIn, app
<1>8. CASE Show
  <2>1. calls' = calls /\ job' = job /\ pending \in Seq(Values) /\ pending # <<>>
    BY <1>8 DEF Show, Base, TypeInv
  <2>2. /\ shown' = pending[1] /\ 1 \in 1..Len(pending)
        /\ \A i \in 1..Len(pending') : i + 1 \in 1..Len(pending) /\ pending'[i] = pending[i + 1]
    BY <1>8, <2>1 DEF Show
  <2>3. \A n, l \in Nat : SeenNext(ProbeOf(n, l)) => Seen(ProbeOf(n, l))
    BY <2>1, <2>2 DEF Seen, SeenNext, SeenIn
  <2>4. QED
    BY <1>0, <1>1, <2>1, <2>3
<1>9. CASE Restart
  <2>1. UNCHANGED <<calls, app>>
    BY <1>9 DEF Restart
  <2>2. \A t \in Threads : job'[t].kind # "verify" /\ job'[t].found = Original
    BY <1>9, RestartIs, IdleFields
  <2>3. \A n, l \in Nat : SeenNext(ProbeOf(n, l)) => Seen(ProbeOf(n, l))
    BY <2>1, <2>2, ProbesDiffer DEF Seen, SeenNext, SeenIn, app
  <2>4. QED
    BY <1>0, <1>1, <2>1, <2>2, <2>3
<1>10. QED
  BY <1>3, <1>4, <1>5, <1>6, <1>7, <1>8, <1>9 DEF Next

LEMMA FreshInvariant == Spec => []Fresh
<1>1. Init => Fresh
  <2> SUFFICES ASSUME Init PROVE Fresh
    OBVIOUS
  <2>1. \A t \in Threads : job[t] = Idle
    BY DEF Init
  <2>2. shown = Original /\ pending = <<>>
    BY DEF Init
  <2>3. \A n, l : ~Seen(ProbeOf(n, l))
    BY <2>1, <2>2, IdleFields, ProbesDiffer DEF Seen, SeenNext, SeenIn
  <2>4. \A t \in Threads : job[t].kind # "verify"
    BY <2>1, IdleFields
  <2>5. QED
    BY <2>3, <2>4 DEF Fresh
<1>2. QED
  BY <1>1, BaseInvariant, FreshStep, PTL DEF Spec

-----------------------------------------------------------------------------
(* A probe that counts is undone before the thread leaves                   *)

(* What the application holds while thread t verifies: its probe is read    *)
(* only when nothing is pending behind it, and the undoing ends when the    *)
(* value found is shown again.                                              *)
Probed(t) == shown = Probe(t) /\ pending = <<>>
Restoring(t) == shown = Probe(t) /\ pending = <<job[t].found>>
Back(t) == shown = job[t].found /\ pending = <<>>
Undoing(t) ==
    /\ job[t].at \in {"reget", "lock", "act", "wait"} => job[t].found # Probe(t)
    /\ job[t].at = "wait" /\ job[t].use = "probe" =>
          /\ shown = Probe(t) => pending = <<>>
          /\ \A i \in 1..Len(pending) : pending[i] = Probe(t) => i = Len(pending)
    /\ job[t].use = "undo" /\ job[t].verdict = "VERIFIED" =>
          /\ job[t].at \in {"reget", "lock", "act"} => Probed(t)
          /\ job[t].at = "wait" => Probed(t) \/ Restoring(t) \/ Back(t)
    /\ job[t].at = "leave" /\ job[t].verdict = "VERIFIED" => Back(t)
Undo == ~raced => \A t \in Threads : job[t].kind = "verify" => Undoing(t)

LEMMA OutsideUndoing ==
  ASSUME NEW t \in Threads,
         job'[t].at \in {"enter", "get", "hold", "look", "record", "write"}
  PROVE  Undoing(t)'
BY DEF Undoing

LEMMA SameUndoing ==
  ASSUME NEW t \in Threads, job'[t] = job[t], UNCHANGED app, Undoing(t)
  PROVE  Undoing(t)'
BY DEF Undoing, Probe, Probed, Restoring, Back, app

LEMMA FailedUndoing ==
  ASSUME NEW t \in Threads, FailedTo(job'[t], job[t]), job[t].kind = "verify", Undoing(t),
         job[t].at \in {"reget", "act"}
  PROVE  Undoing(t)'
<1>1. /\ job'[t].nr = job[t].nr /\ job'[t].left = job[t].left /\ job'[t].found = job[t].found
      /\ job'[t].verdict = "FAILED" /\ job'[t].use = "undo" /\ job'[t].at \in {"reget", "leave"}
  BY DEF FailedTo, SameCall, SameTry
<1>2. Probe(t)' = Probe(t)
  BY <1>1 DEF Probe
<1>3. QED
  BY <1>1, <1>2 DEF Undoing

LEMMA RegetUndoing ==
  ASSUME Base, NEW t \in Threads, Reget(t) \/ LockVia(t), job[t].kind = "verify", Undoing(t)
  PROVE  Undoing(t)'
<1>1. CASE FailedTo(job'[t], job[t]) /\ Reget(t)
  BY <1>1, FailedUndoing, RegetIs DEF At
<1>2. CASE LockVia(t) \/ ~FailedTo(job'[t], job[t])
  <2>1. /\ job'[t].nr = job[t].nr /\ job'[t].left = job[t].left /\ job'[t].found = job[t].found
        /\ job'[t].verdict = job[t].verdict /\ job'[t].use = job[t].use
        /\ job'[t].at \in {"lock", "act"} /\ job[t].at \in {"reget", "lock"}
    BY <1>2, RegetIs, LockViaIs DEF SameCall, SameTry, At
  <2>2. Probe(t)' = Probe(t) /\ UNCHANGED app
    BY <2>1 DEF Probe, Reget, LockVia
  <2>3. QED
    BY <2>1, <2>2 DEF Undoing, Probed, app
<1>3. QED
  BY <1>1, <1>2

LEMMA ActUndoing ==
  ASSUME Base, Fresh, NEW t \in Threads, Act(t), job[t].kind = "verify", Undoing(t)
  PROVE  Undoing(t)'
<1>1. CASE FailedTo(job'[t], job[t])
  BY <1>1, FailedUndoing, ActIs DEF At
<1>2. CASE ~FailedTo(job'[t], job[t])
  <2>1. /\ job'[t].nr = job[t].nr /\ job'[t].left = job[t].left /\ job'[t].found = job[t].found
        /\ job'[t].verdict = job[t].verdict /\ job'[t].use = job[t].use
        /\ job'[t].at = "wait" /\ job[t].at = "act"
        /\ shown' = shown /\ pending' \in {pending, Append(pending, Value(t))}
    BY <1>2, ActIs DEF SameCall, At, app
  <2>2. Probe(t)' = Probe(t) /\ job[t].found # Probe(t)
    BY <2>1 DEF Probe, Undoing
  <2>3. job[t].use \in {"probe", "undo"} /\ pending \in Seq(Values) /\ Len(pending) \in Nat
    BY <2>1, JobIs DEF Staged, Base, TypeInv, Inside
  <2>4. CASE job[t].use = "probe"
    <3>1. ~Seen(Probe(t)) /\ Value(t) = Probe(t)
      <4>1. job[t].left \in Nat /\ Limit(job[t]) = job[t].left + 1
        BY <2>1, <2>4, JobIs, AdapterAssumption DEF Limit, Unused, Jobs
      <4>2. QED
        BY <2>4, <4>1 DEF Fresh, Probe, ProbeOf, Value
    <3>2. shown # Probe(t) /\ \A i \in 1..Len(pending) : pending[i] # Probe(t)
      BY <3>1 DEF Seen, SeenIn
    <3>3. \A i \in 1..Len(pending') : pending'[i] = Probe(t) => i = Len(pending')
      BY <2>1, <2>3, <3>2
    <3>4. QED
      BY <2>1, <2>2, <2>4, <3>2, <3>3 DEF Undoing
  <2>5. CASE job[t].use = "undo"
    <3>1. Value(t) = job[t].found
      BY <2>5 DEF Value
    <3>2. job[t].verdict = "VERIFIED" => shown = Probe(t) /\ pending = <<>>
      BY <2>1, <2>5 DEF Undoing, Probed
    <3>3. job[t].verdict = "VERIFIED" => shown' = Probe(t) /\ pending' \in {<<>>, <<job[t].found>>}
      BY <2>1, <3>1, <3>2
    <3>4. QED
      BY <2>1, <2>2, <2>5, <3>3 DEF Undoing, Probed, Restoring
  <2>6. QED
    BY <2>3, <2>4, <2>5
<1>3. QED
  BY <1>1, <1>2

LEMMA LookUndoing ==
  ASSUME Base, Fresh, NEW t \in Threads, Look(t), Undoing(t)
  PROVE  Undoing(t)'
<1>1. CASE job'[t].at = "leave"
  BY <1>1, LookIs DEF Undoing
<1>2. CASE job'[t].at # "leave"
  <2>1. /\ job'[t].at = "reget" /\ job'[t].use = "probe" /\ job'[t].found = shown
        /\ job'[t].nr = job[t].nr /\ job'[t].left = job[t].left /\ job[t].at = "look"
        /\ job[t].kind = "verify"
    BY <1>2, LookIs DEF SameCall, SameTry, At
  <2>2. Probe(t)' = Probe(t)
    BY <2>1 DEF Probe
  <2>3. ~Seen(Probe(t))
    <3>1. job[t].left \in Nat /\ Limit(job[t]) = job[t].left + 1
      BY <2>1, JobIs, AdapterAssumption DEF Limit, Unused, Jobs
    <3>2. QED
      BY <2>1, <3>1 DEF Fresh, Probe, ProbeOf
  <2>4. QED
    BY <2>1, <2>2, <2>3 DEF Undoing, Seen, SeenIn
<1>3. QED
  BY <1>1, <1>2

LEMMA WaitUndoing ==
  ASSUME Base, NEW t \in Threads, Wait(t), Undoing(t)
  PROVE  Undoing(t)'
<1>1. /\ job'[t].nr = job[t].nr /\ job'[t].left = job[t].left /\ job'[t].found = job[t].found
      /\ job[t].at = "wait" /\ job'[t].use = "undo"
  BY WaitIs DEF SameCall, SameTry, At
<1>2. Probe(t)' = Probe(t) /\ shown' = shown /\ pending' = pending /\ job[t].found # Probe(t)
  BY <1>1 DEF Probe, Wait, app, Undoing
<1>3. CASE job[t].use = "probe"
  <2>1. /\ job'[t].at = "reget"
        /\ job'[t].verdict = "VERIFIED" => shown = Probe(t)
    BY <1>3, WaitIs
  <2>2. shown = Probe(t) => pending = <<>>
    BY <1>1, <1>3 DEF Undoing
  <2>3. QED
    BY <1>1, <1>2, <2>1, <2>2 DEF Undoing, Probed
<1>4. CASE job[t].use = "undo"
  <2>1. /\ job'[t].at = "leave"
        /\ job'[t].verdict = "VERIFIED" => shown = job[t].found /\ job[t].verdict = "VERIFIED"
    BY <1>4, WaitIs
  <2>2. job[t].verdict = "VERIFIED" => Probed(t) \/ Restoring(t) \/ Back(t)
    BY <1>1, <1>4 DEF Undoing
  <2>3. job'[t].verdict = "VERIFIED" => shown = job[t].found /\ pending = <<>>
    BY <1>2, <2>1, <2>2 DEF Probed, Restoring, Back
  <2>4. QED
    BY <1>1, <1>2, <2>1, <2>3 DEF Undoing, Back
<1>5. QED
  BY <1>3, <1>4, WaitIs

LEMMA ShowUndoing ==
  ASSUME Base, NEW t \in Threads, Show, Undoing(t)
  PROVE  Undoing(t)'
<1>1. job'[t] = job[t] /\ pending \in Seq(Values) /\ pending # <<>> /\ Len(pending) \in Nat
  BY DEF Show, Base, TypeInv
<1>2. /\ shown' = pending[1] /\ pending' = Tail(pending)
      /\ 1 \in 1..Len(pending) /\ Len(pending') = Len(pending) - 1
      /\ \A i \in 1..Len(pending') : i + 1 \in 1..Len(pending) /\ pending'[i] = pending[i + 1]
  BY <1>1 DEF Show
<1>3. Probe(t)' = Probe(t)
  BY <1>1 DEF Probe
<1>4. ASSUME \A i \in 1..Len(pending) : pending[i] = Probe(t) => i = Len(pending)
      PROVE  /\ shown' = Probe(t) => pending' = <<>>
             /\ \A i \in 1..Len(pending') : pending'[i] = Probe(t) => i = Len(pending')
  <2>0. pending' \in Seq(Values)
    BY <1>1, <1>2
  <2> DEFINE p == Probe(t)
  <2> HIDE DEF p
  <2>1. shown' = p => pending' = <<>>
    <3>1. shown' = p => Len(pending) = 1
      BY <1>2, <1>4 DEF p
    <3>2. shown' = p => Len(pending') = 0
      BY <1>2, <3>1
    <3>3. QED
      BY <2>0, <3>2
  <2>2. \A i \in 1..Len(pending') : pending'[i] = p => i = Len(pending')
    <3>1. ASSUME NEW i \in 1..Len(pending'), pending'[i] = p PROVE i = Len(pending')
      <4>1. i + 1 \in 1..Len(pending) /\ pending[i + 1] = p
        BY <1>2, <3>1
      <4>2. i + 1 = Len(pending)
        BY <1>4, <4>1 DEF p
      <4>3. Len(pending') = Len(pending) - 1 /\ Len(pending) \in Int /\ i \in Int
        BY <1>1, <1>2, <2>0
      <4>4. QED
        BY <4>2, <4>3
    <3>2. QED
      BY <3>1
  <2>3. QED
    BY <2>1, <2>2 DEF p
<1>5. Restoring(t) => shown' = job[t].found /\ pending' = <<>>
  BY <1>1, <1>2 DEF Restoring
<1>6. ~Probed(t) /\ ~Back(t)
  BY <1>1 DEF Probed, Back
<1>7. QED
  BY <1>1, <1>3, <1>4, <1>5, <1>6 DEF Undoing, Back

LEMMA UndoStep ==
  ASSUME Base, Fresh, Generation, Undo, [Next]_vars
  PROVE  Undo'
<1> SUFFICES ASSUME ~raced', NEW v \in Threads, job'[v].kind = "verify" PROVE Undoing(v)'
  BY DEF Undo
<1>1. ASSUME NEW t \in Threads, NEW c \in Contents, Create(t, c) PROVE Undoing(v)'
  BY <1>1, CreateIs DEF Others, None
<1>2. ASSUME NEW t \in Threads, NEW times \in 1..MaxTimes, Verify(t, times) PROVE Undoing(v)'
  <2>1. Others(t) /\ job'[t].at = "enter" /\ ~raced /\ UNCHANGED app
    BY <1>2, VerifyIs DEF Verify
  <2>2. QED
    BY <2>1, OutsideUndoing, SameUndoing DEF Others, Undo
<1>3. ASSUME NEW t \in Threads, Invoke(t) PROVE Undoing(v)'
  <2>1. Others(t) /\ job'[t].kind = "invoke" /\ ~raced /\ UNCHANGED app
    BY <1>3, InvokeIs DEF Invoke
  <2>2. QED
    BY <2>1, SameUndoing DEF Others, Undo
<1>4. ASSUME NEW t \in Threads, Thread(t) PROVE Undoing(v)'
  <2>1. Others(t) /\ ~raced /\ OneGeneration
    BY <1>4, ThreadKeeps DEF Generation
  <2>2. CASE v # t
    <3>1. job'[v] = job[v] /\ Undoing(v)
      BY <2>1, <2>2 DEF Others, Undo
    <3>2. CASE job[v].at = "enter"
      BY <3>1, <3>2, OutsideUndoing
    <3>3. CASE job[v].at # "enter"
      <4>1. job[t].at # "act"
        BY <2>1, <2>2, <3>1, <3>3, Exclusion
      <4>2. UNCHANGED app
        BY <1>4, <4>1 DEF Thread, Reget, LockVia, Act, Enter, Get, Hold, Look, Wait, Leave, Record,
                          Build, Write, At
      <4>3. QED
        BY <3>1, <4>2, SameUndoing
    <3>4. QED
      BY <3>2, <3>3
  <2>3. CASE v = t
    <3>1. job[t].kind = "verify" /\ Undoing(t)
      BY <1>4, <2>1, <2>3, ThreadKeeps, IdleFields DEF SameCall, Undo
    <3>2. CASE Reget(t) \/ LockVia(t) \/ Act(t)
      BY <2>3, <3>1, <3>2, RegetUndoing, ActUndoing
    <3>3. CASE Enter(t) \/ Get(t) \/ Hold(t)
      BY <2>3, <3>3, EntersIs, OutsideUndoing
    <3>4. CASE Look(t) \/ Wait(t)
      BY <2>3, <3>1, <3>4, LookUndoing, WaitUndoing
    <3>5. CASE Leave(t) \/ Record(t) \/ Build(t)
      BY <2>3, <3>1, <3>5, LeaveIs, RecordIs, BuildIs, OutsideUndoing
    <3>6. CASE Write(t)
      BY <2>3, <3>6, WriteIs, IdleFields
    <3>7. QED
      BY <1>4, <3>2, <3>3, <3>4, <3>5, <3>6 DEF Thread
  <2>4. QED
    BY <2>2, <2>3
<1>5. CASE Rebind \/ SetPolicy \/ SetTrust \/ UNCHANGED vars
  <2>1. UNCHANGED <<job, app, raced>>
    BY <1>5 DEF Rebind, SetPolicy, SetTrust, vars, history
  <2>2. QED
    BY <2>1, SameUndoing DEF Undo
<1>6. CASE Show
  <2>1. UNCHANGED <<job, raced>>
    BY <1>6 DEF Show, history
  <2>2. QED
    BY <1>6, <2>1, ShowUndoing DEF Undo
<1>7. CASE Restart
  BY <1>7, RestartIs, IdleFields
<1>8. QED
  BY <1>1, <1>2, <1>3, <1>4, <1>5, <1>6, <1>7 DEF Next

LEMMA UndoInvariant == Spec => []Undo
<1>1. Init => Undo
  BY IdleFields DEF Init, Undo
<1>2. QED
  BY <1>1, BaseInvariant, FreshInvariant, GenerationInvariant, UndoStep, PTL DEF Spec

LEMMA UndoneIsSettled == Undo /\ Base => VerifiedRestores
<1> SUFFICES ASSUME Undo, Base, NEW t \in Threads, At(t, "leave"), job[t].verdict = "VERIFIED", ~raced
             PROVE  Settled = job[t].found
  BY DEF VerifiedRestores
<1>1. job[t].kind = "verify"
  BY JobIs DEF At, Staged, Jobs, Idle, None
<1>2. QED
  BY <1>1 DEF Undo, Undoing, Back, At, Settled

-----------------------------------------------------------------------------
(* A verdict is of the content that was probed                              *)

Stamped(m) == m.stamp \in proven \cup {None}
Stands(o) == o.state = "VERIFIED" => o.id /\ o.stamp = o.fp
\* The content last tried is the one the verdict will stand on.
Tried(j) == \/ j.at = "wait" /\ j.use = "probe"
            \/ j.verdict = "VERIFIED" /\ j.use = "undo" /\ j.at \in {"reget", "lock", "act", "wait"}
            \/ j.verdict = "VERIFIED" /\ j.at = "leave"
Proving(t) ==
    /\ job[t].at = "write" => Stamped(job[t].file)
    /\ job[t].kind = "verify" =>
          /\ "VERIFIED" \in job[t].seen => objs[job[t].rec].fp \in proven
          /\ Tried(job[t]) => job[t].acted = objs[job[t].rec].fp
Proofs ==
    /\ \A o \in 1..mem : Stamped(objs[o]) /\ Stands(objs[o])
    /\ Stamped(disk)
    /\ \A t \in Threads : Proving(t)
Probes == ~raced => Proofs

LEMMA WithdrawnFields ==
  ASSUME NEW o \in Objects
  PROVE  /\ Withdrawn(o).fp = o.fp /\ Withdrawn(o).stamp = o.stamp /\ Withdrawn(o).signed = o.signed
         /\ Withdrawn(o).state # "VERIFIED"
         /\ Withdrawn(o).level = "verified" => o.signed
BY DEF Withdrawn, Objects

LEMMA JudgedStands ==
  ASSUME NEW o \in Objects, NEW s \in States
  PROVE  Stands(Judged(o, s))
<1>1. Judged(o, s).state = s
  BY JudgedType
<1>2. CASE s = "VERIFIED"
  <2>1. Judged(o, s).id = TRUE /\ Judged(o, s).stamp = o.fp /\ Judged(o, s).fp = o.fp
    BY <1>2 DEF Judged, Objects
  <2>2. QED
    BY <2>1 DEF Stands
<1>3. QED
  BY <1>1, <1>2 DEF Stands

LEMMA ObjectsStep ==
  ASSUME Base, NEW t \in Threads, Thread(t), NEW o \in 1..mem
  PROVE  /\ objs'[o].fp = objs[o].fp
         /\ \/ objs'[o] = objs[o]
            \/ Act(t) /\ Claims(objs[o]) /\ objs'[o] = Withdrawn(objs[o])
            \/ /\ Record(t) /\ o = job[t].rec
               /\ objs'[o] = Judged(objs[o], Final(job[t].seen))
<1>1. objs \in Seq(Objects) /\ o \in 1..Len(objs) /\ objs[o] \in Objects
  BY JobIs DEF Base, TypeInv
<1>2. CASE Act(t)
  BY <1>1, <1>2, ActIs, WithdrawnFields
<1>3. CASE Record(t)
  <2>1. objs' = [objs EXCEPT ![job[t].rec] = Judged(objs[job[t].rec], Final(job[t].seen))]
    BY <1>3, RecordIs
  <2>2. Final(job[t].seen) \in States
    BY JobIs, FinalType DEF Jobs
  <2>3. Judged(objs[o], Final(job[t].seen)).fp = objs[o].fp
    BY <1>1, <2>2, JudgedType
  <2>4. QED
    BY <1>1, <1>3, <2>1, <2>3
<1>4. CASE ~Act(t) /\ ~Record(t)
  BY <1>4 DEF Thread, Reget, LockVia, Enter, Get, Hold, Look, Wait, Leave, Build, Write
<1>5. QED
  BY <1>2, <1>3, <1>4

LEMMA ProvenStep ==
  ASSUME NEW t \in Threads, Thread(t)
  PROVE  /\ proven \subseteq proven'
         /\ Leave(t) /\ job[t].verdict = "VERIFIED" => job[t].acted \in proven'
<1>1. CASE Leave(t)
  BY <1>1 DEF Leave
<1>2. CASE ~Leave(t)
  BY <1>2 DEF Thread, Reget, LockVia, Act, Enter, Get, Hold, Look, Wait, Record, Build, Write, history
<1>3. QED
  BY <1>1, <1>2

LEMMA ProvingStep ==
  ASSUME Base, OneGeneration, Proofs, NEW t \in Threads, Thread(t)
  PROVE  Proving(t)'
<1>1. job[t] \in Jobs /\ Staged(job[t], mem) /\ job[t].kind # None /\ proven \subseteq proven'
  BY JobIs, ThreadKeeps, ProvenStep
<1>2. job[t].kind \in {"create", "verify"} => job[t].rec \in 1..mem
  BY <1>1 DEF Staged
<1>3. job[t].kind \in {"create", "verify"} => objs'[job[t].rec].fp = objs[job[t].rec].fp
  BY <1>2, ObjectsStep
<1>4. Proving(t)
  BY DEF Proofs
<1>5. ASSUME job'[t].at # "write", SameCall(job'[t], job[t]), job'[t].seen = job[t].seen,
             job[t].kind = "verify" /\ Tried(job'[t]) => job'[t].acted = objs[job[t].rec].fp
      PROVE  Proving(t)'
  BY <1>1, <1>3, <1>4, <1>5 DEF Proving, SameCall
<1>6. ASSUME job'[t] = Idle PROVE Proving(t)'
  BY <1>6, IdleFields DEF Proving
<1>7. ASSUME FailedTo(job'[t], job[t]) PROVE Proving(t)'
  <2>1. CASE job'[t] = Idle
    BY <1>6, <2>1
  <2>2. CASE job'[t] # Idle
    BY <1>5, <1>7, <2>2 DEF FailedTo, SameTry, Tried
  <2>3. QED
    BY <2>1, <2>2
<1>8. CASE Reget(t)
  BY <1>4, <1>5, <1>7, <1>8, RegetIs DEF Proving, SameTry, Tried, At
<1>9. CASE LockVia(t)
  BY <1>4, <1>5, <1>9, LockViaIs DEF Proving, SameTry, Tried, At
<1>10. CASE Act(t)
  <2>1. CASE FailedTo(job'[t], job[t])
    BY <1>7, <2>1
  <2>2. CASE ~FailedTo(job'[t], job[t])
    <3>1. job[t].kind = "verify" /\ job[t].at = "act"
      BY <1>10, <2>2, ActIs DEF At
    <3>2. job[t].via = job[t].rec /\ job[t].use \in {"probe", "undo"}
      BY <1>1, <3>1 DEF OneGeneration, Staged
    <3>3. QED
      BY <1>4, <1>5, <1>10, <2>2, <3>1, <3>2, ActIs DEF Proving, Tried
  <2>3. QED
    BY <2>1, <2>2
<1>11. CASE Enter(t) \/ Get(t) \/ Hold(t)
  BY <1>5, <1>11, EntersIs DEF SameTry, Tried
<1>12. CASE Look(t)
  BY <1>5, <1>12, LookIs DEF SameTry, Tried
<1>13. CASE Wait(t)
  BY <1>4, <1>5, <1>13, WaitIs DEF Proving, SameTry, Tried, At
<1>14. CASE Leave(t)
  <2>1. /\ job[t].kind = "verify" /\ SameCall(job'[t], job[t]) /\ job'[t].at \in {"get", "record"}
        /\ job'[t].seen = job[t].seen \cup {job[t].verdict} /\ job[t].at = "leave"
    BY <1>14, LeaveIs DEF At
  <2>2. job[t].verdict = "VERIFIED" => objs[job[t].rec].fp \in proven'
    BY <1>4, <1>14, <2>1, ProvenStep DEF Proving, Tried
  <2>3. "VERIFIED" \in job'[t].seen => objs'[job'[t].rec].fp \in proven'
    BY <1>1, <1>3, <1>4, <2>1, <2>2 DEF Proving, SameCall
  <2>4. QED
    BY <2>1, <2>3 DEF Proving, Tried
<1>15. CASE Record(t)
  <2>1. /\ job[t].kind = "verify" /\ SameCall(job'[t], job[t]) /\ job'[t].at = "write"
        /\ job'[t].seen = job[t].seen
        /\ job'[t].file = Manifest(Judged(objs[job[t].rec], Final(job[t].seen)), objs[job[t].rec])
    BY <1>15, RecordIs DEF SameTry
  <2>2. objs[job[t].rec] \in Objects /\ Final(job[t].seen) \in States
    BY <1>1, <1>2, <2>1, JobIs, FinalType DEF Jobs
  <2>3. job'[t].file.stamp = Judged(objs[job[t].rec], Final(job[t].seen)).stamp
    BY <2>1, ManifestOf
  <2>4. Final(job[t].seen) = "VERIFIED" => objs[job[t].rec].fp \in proven
    BY <1>1, <1>4, <2>1, FinalType DEF Jobs, Proving
  <2>5. job'[t].file.stamp \in proven \cup {None}
    BY <2>2, <2>3, <2>4, JudgedType
  <2>6. QED
    BY <1>1, <1>3, <1>4, <2>1, <2>5 DEF Proving, SameCall, Stamped, Tried
<1>16. CASE Build(t)
  <2>1. /\ job[t].kind = "create" /\ job'[t].kind = "create"
        /\ job'[t].file = Manifest(objs[job[t].rec], objs[job[t].rec])
    BY <1>16, BuildIs DEF SameCall
  <2>2. job'[t].file.stamp = objs[job[t].rec].stamp
    BY <2>1, ManifestOf
  <2>3. objs[job[t].rec].stamp \in proven \cup {None}
    BY <1>2, <2>1 DEF Proofs, Stamped
  <2>4. QED
    BY <1>1, <2>1, <2>2, <2>3 DEF Proving, Stamped
<1>17. CASE Write(t)
  BY <1>6, <1>17, WriteIs
<1>18. QED
  BY <1>8, <1>9, <1>10, <1>11, <1>12, <1>13, <1>14, <1>15, <1>16, <1>17 DEF Thread

LEMMA LoadedFields ==
  ASSUME NEW m \in Written
  PROVE  /\ Loaded(m).fp = m.fp /\ Loaded(m).stamp \in {m.stamp, None} /\ Loaded(m).signed = m.signed
         /\ Loaded(m).level = Resolved(m)
         /\ Stands(Loaded(m))
BY DEF Loaded, Sanitized, Written, Stands, States

LEMMA EditedStamp ==
  ASSUME NEW m \in Manifests, NEW n \in Edited(m)
  PROVE  /\ m \in Written /\ n.stamp \in {m.stamp, None} /\ n.signed = m.signed /\ n.level = m.level
<1>1. m \in Written
  BY DEF Edited, Manifests
<1>2. \/ n = [m EXCEPT !.state = "VERIFIED"]
      \/ \E c \in Contents : n = [m EXCEPT !.fp = c] \/ n = [m EXCEPT !.fp = c, !.stamp = None]
  BY <1>1, WrittenIsSome DEF Edited
<1>3. QED
  BY <1>1, <1>2 DEF Written

LEMMA RestoredIs ==
  ASSUME NEW m \in Manifests
  PROVE  \/ Restored(m) = <<>> /\ Len(Restored(m)) = 0
         \/ /\ m \in Written /\ Restored(m) = <<Loaded(m)>> /\ Len(Restored(m)) = 1
            /\ Restored(m)[1] = Loaded(m)
BY DEF Restored, Loadable, Manifests

SameClaim(n, o) == /\ n.fp = o.fp /\ n.state = o.state /\ n.id = o.id /\ n.stamp = o.stamp
                   /\ n.signed = o.signed /\ n.level = o.level
Begun(j) == j.at \in {"enter", "reget"} /\ (j.kind = "verify" => j.at = "enter" /\ j.seen = {})

LEMMA ReboundClaims ==
  ASSUME Base, Rebind
  PROVE  \A o \in 1..mem : SameClaim(objs'[o], objs[o])
<1> SUFFICES ASSUME NEW o \in 1..mem PROVE SameClaim(objs'[o], objs[o])
  OBVIOUS
<1>1. objs[o] \in Objects /\ objs \in Seq(Objects) /\ mem = Len(objs) /\ mem \in Nat
  BY JobIs DEF Base, TypeInv
<1>2. CASE o = mem
  <2>1. objs'[o] = [objs[o] EXCEPT !.bound = TRUE]
    <3>1. objs' = [objs EXCEPT ![mem] = [objs[mem] EXCEPT !.bound = TRUE]]
      BY DEF Rebind
    <3>2. o \in DOMAIN objs /\ DOMAIN objs = 1..Len(objs)
      BY <1>1
    <3>3. QED
      BY <1>2, <3>1, <3>2
  <2>2. QED
    BY <1>1, <2>1 DEF SameClaim, Objects
<1>3. CASE o # mem
  <2>1. objs'[o] = objs[o]
    BY <1>1, <1>3 DEF Rebind
  <2>2. QED
    BY <2>1 DEF SameClaim
<1>4. QED
  BY <1>2, <1>3

LEMMA ProofsStep ==
  ASSUME Base, Generation, Probes, [Next]_vars
  PROVE  Probes'
<1> SUFFICES ASSUME ~raced' PROVE Proofs'
  BY DEF Probes
<1>0. objs \in Seq(Objects) /\ mem = Len(objs) /\ mem \in Nat
  BY DEF Base, TypeInv
<1>1. ASSUME NEW t \in Threads, NEW c \in Contents, Create(t, c) PROVE Proofs'
  <2> DEFINE new == [bound |-> TRUE, fp |-> c, state |-> "DISCOVERED", id |-> FALSE,
                     stamp |-> None, signed |-> FALSE, level |-> "unsigned"]
  <2>1. /\ Others(t) /\ mem' = mem + 1 /\ objs' = Append(objs, new) /\ Proofs
        /\ \A u \in Threads : job[u].kind = None
        /\ job'[t].at = "build" /\ job'[t].kind = "create"
    BY <1>1, CreateIs DEF Probes
  <2>2. UNCHANGED <<disk, proven>>
    BY <1>1 DEF Create
  <2>3. \A o \in 1..mem' : objs'[o] = IF o = mem + 1 THEN new ELSE objs[o]
    BY <1>0, <2>1
  <2>4. new.stamp = None /\ new.state # "VERIFIED"
    OBVIOUS
  <2>5. ASSUME NEW o \in 1..mem' PROVE Stamped(objs[o])' /\ Stands(objs[o])'
    BY <1>0, <2>1, <2>2, <2>3, <2>4 DEF Proofs, Stamped, Stands
  <2>6. ASSUME NEW u \in Threads PROVE Proving(u)'
    <3>1. job'[u].at # "write" /\ job'[u].kind # "verify"
      <4>1. CASE u = t
        BY <2>1, <4>1
      <4>2. CASE u # t
        <5>1. job'[u] = job[u] /\ job[u].kind = None /\ job[u].at = "idle"
          BY <2>1, <4>2, IdleIs DEF Others
        <5>2. QED
          BY <5>1 DEF None
      <4>3. QED
        BY <4>1, <4>2
    <3>2. QED
      BY <3>1 DEF Proving
  <2>7. QED
    BY <2>1, <2>2, <2>5, <2>6 DEF Proofs, Stamped
(* A step that leaves the objects and the file alone.                       *)
<1>2. ASSUME ~raced, mem' = mem, \A o \in 1..mem : SameClaim(objs'[o], objs[o]),
             UNCHANGED <<disk, proven>>,
             \A u \in Threads : job'[u] = job[u] \/ Begun(job'[u])
      PROVE  Proofs'
  <2>1. \A o \in 1..mem : SameClaim(objs'[o], objs[o])
    BY <1>2
  <2>2. Proofs
    BY <1>2 DEF Probes
  <2>3. ASSUME NEW u \in Threads PROVE Proving(u)'
    <3>1. CASE job'[u] = job[u]
      <4>1. job[u].kind = "verify" => job[u].rec \in 1..mem
        BY JobIs DEF Staged
      <4>2. Proving(u)
        BY <2>2 DEF Proofs
      <4>3. QED
        BY <1>2, <2>1, <3>1, <4>1, <4>2 DEF Proving, Stamped, SameClaim
    <3>2. CASE job'[u] # job[u]
      <4>1. Begun(job'[u])
        BY <1>2, <3>2
      <4>2. QED
        BY <4>1 DEF Proving, Tried, Begun
    <3>3. QED
      BY <3>1, <3>2
  <2>4. \A o \in 1..mem' : Stamped(objs[o])' /\ Stands(objs[o])'
    BY <1>2, <2>1, <2>2 DEF Proofs, Stamped, Stands, SameClaim
  <2>5. QED
    BY <1>2, <2>2, <2>3, <2>4 DEF Proofs, Stamped
<1>3. ASSUME objs' = objs PROVE \A o \in 1..mem : SameClaim(objs'[o], objs[o])
  BY <1>3 DEF SameClaim
<1>4. ASSUME NEW t \in Threads, NEW times \in 1..MaxTimes, Verify(t, times) PROVE Proofs'
  <2>1. Others(t) /\ Begun(job'[t]) /\ ~raced
    BY <1>4, VerifyIs DEF Begun
  <2>2. UNCHANGED <<objs, mem, disk, proven>>
    BY <1>4 DEF Verify
  <2>3. QED
    BY <1>2, <1>3, <2>1, <2>2 DEF Others
<1>5. ASSUME NEW t \in Threads, Invoke(t) PROVE Proofs'
  <2>1. Others(t) /\ Begun(job'[t]) /\ ~raced
    BY <1>5, InvokeIs DEF Begun
  <2>2. UNCHANGED <<objs, mem, disk, proven>>
    BY <1>5 DEF Invoke, history
  <2>3. QED
    BY <1>2, <1>3, <2>1, <2>2 DEF Others
<1>6. CASE Show \/ SetPolicy \/ SetTrust \/ UNCHANGED vars
  <2>1. UNCHANGED <<objs, mem, disk, proven, raced, job>>
    BY <1>6 DEF Show, SetPolicy, SetTrust, vars, history
  <2>2. QED
    BY <1>2, <1>3, <2>1
<1>7. CASE Rebind
  BY <1>2, <1>7, ReboundClaims DEF Rebind, history
<1>8. ASSUME NEW t \in Threads, Thread(t) PROVE Proofs'
  <2>1. Others(t) /\ mem' = mem /\ ~raced /\ OneGeneration /\ Proofs /\ proven \subseteq proven'
    BY <1>8, ThreadKeeps, ProvenStep DEF Generation, Probes
  <2>2. ASSUME NEW o \in 1..mem' PROVE Stamped(objs[o])' /\ Stands(objs[o])'
    <3>1. Stamped(objs[o]) /\ Stands(objs[o]) /\ objs[o] \in Objects
      BY <2>1, JobIs DEF Proofs
    <3>2. CASE objs'[o] = objs[o]
      BY <2>1, <3>1, <3>2 DEF Stamped, Stands
    <3>3. CASE objs'[o] = Withdrawn(objs[o])
      BY <2>1, <3>1, <3>3, WithdrawnFields DEF Stamped, Stands
    <3>4. CASE Record(t) /\ o = job[t].rec /\ objs'[o] = Judged(objs[o], Final(job[t].seen))
      <4>1. job[t].kind = "verify" /\ Proving(t) /\ job[t] \in Jobs
        BY <2>1, <3>4, RecordIs, JobIs DEF Proofs
      <4>2. Final(job[t].seen) \in States /\ (Final(job[t].seen) = "VERIFIED" => objs[o].fp \in proven)
        BY <3>4, <4>1, FinalType DEF Jobs, Proving
      <4>3. QED
        <5>1. Judged(objs[o], Final(job[t].seen)).stamp \in proven \cup {None}
          BY <3>1, <4>2, JudgedType
        <5>2. Stands(Judged(objs[o], Final(job[t].seen)))
          BY <3>1, <4>2, JudgedStands
        <5>3. QED
          BY <2>1, <3>4, <5>1, <5>2 DEF Stamped, Stands
    <3>5. QED
      BY <1>8, <2>1, <3>2, <3>3, <3>4, ObjectsStep
  <2>3. Stamped(disk)'
    <3>1. disk' = disk \/ (Write(t) /\ disk' = job[t].file)
      BY <1>8 DEF Thread, Reget, LockVia, Act, Enter, Get, Hold, Look, Wait, Leave, Record, Build, Write
    <3>2. Stamped(disk) /\ (Write(t) => Stamped(job[t].file))
      BY <2>1, WriteIs DEF Proofs, Proving, At
    <3>3. QED
      BY <2>1, <3>1, <3>2 DEF Stamped
  <2>4. ASSUME NEW u \in Threads PROVE Proving(u)'
    <3>1. CASE u = t
      BY <1>8, <2>1, <3>1, ProvingStep
    <3>2. CASE u # t
      <4>1. job'[u] = job[u] /\ Proving(u)
        BY <2>1, <3>2 DEF Others, Proofs
      <4>2. job[u].kind = "verify" => job[u].rec \in 1..mem
        BY JobIs DEF Staged
      <4>3. job[u].kind = "verify" => objs'[job[u].rec].fp = objs[job[u].rec].fp
        BY <1>8, <4>2, ObjectsStep
      <4>4. QED
        BY <2>1, <4>1, <4>3 DEF Proving, Stamped
    <3>3. QED
      BY <3>1, <3>2
  <2>5. QED
    BY <2>2, <2>3, <2>4 DEF Proofs
<1>9. CASE Restart
  <2>1. /\ Proofs /\ proven' = proven /\ disk \in Manifests /\ disk' \in {disk} \cup Edited(disk)
        /\ objs' = Restored(disk') /\ mem' = Len(objs')
    BY <1>9 DEF Restart, Probes, Base, TypeInv
  <2>2. disk' \in Manifests /\ disk'.stamp \in proven \cup {None}
    BY <2>1, EditedType, EditedStamp DEF Proofs, Stamped, Manifests
  <2>3. \A o \in 1..mem' : o = 1 /\ disk' \in Written /\ objs'[o] = Loaded(disk')
    <3>1. CASE mem' = 0
      BY <3>1
    <3>2. CASE mem' # 0
      <4>1. disk' \in Written /\ mem' = 1 /\ objs'[1] = Loaded(disk')
        BY <2>1, <2>2, <3>2, RestoredIs
      <4>2. QED
        BY <4>1
    <3>3. QED
      BY <3>1, <3>2
  <2>4. ASSUME NEW o \in 1..mem' PROVE Stamped(objs[o])' /\ Stands(objs[o])'
    <3>1. objs'[o].stamp \in proven \cup {None} /\ Stands(objs'[o])
      BY <2>2, <2>3, LoadedFields
    <3>2. QED
      BY <2>1, <3>1 DEF Stamped, Stands
  <2>5. ASSUME NEW u \in Threads PROVE Proving(u)'
    BY <1>9, RestartIs, IdleFields DEF Proving
  <2>6. QED
    BY <2>1, <2>2, <2>4, <2>5 DEF Proofs, Stamped
<1>10. QED
  BY <1>1, <1>4, <1>5, <1>6, <1>7, <1>8, <1>9 DEF Next

LEMMA ProofsInvariant == Spec => []Probes
<1>1. Init => Probes
  <2> SUFFICES ASSUME Init PROVE Proofs
    BY DEF Probes
  <2>1. disk \in Manifests /\ disk.stamp = None
    <3>1. disk \in Manifests
      BY BaseInit DEF Base, TypeInv
    <3>2. Nothing.stamp = None /\ Signed.stamp = None
      BY DEF Nothing, Signed
    <3>3. QED
      BY <3>1, <3>2 DEF Init
  <2>2. \A o \in 1..mem : o = 1 /\ disk \in Written /\ objs[o] = Loaded(disk)
    <3>1. objs = Restored(disk) /\ mem = Len(objs)
      BY DEF Init
    <3>2. CASE mem = 0
      BY <3>2
    <3>3. CASE mem # 0
      <4>1. disk \in Written /\ mem = 1 /\ objs[1] = Loaded(disk)
        BY <2>1, <3>1, <3>3, RestoredIs
      <4>2. QED
        BY <4>1
    <3>4. QED
      BY <3>2, <3>3
  <2>3. \A o \in 1..mem : Stamped(objs[o]) /\ Stands(objs[o])
    BY <2>1, <2>2, LoadedFields DEF Stamped
  <2>4. \A u \in Threads : Proving(u)
    BY IdleFields DEF Init, Proving
  <2>5. QED
    BY <2>1, <2>3, <2>4 DEF Proofs, Stamped
<1>2. QED
  BY <1>1, BaseInvariant, GenerationInvariant, ProofsStep, PTL DEF Spec

LEMMA ProofsAreProven == Base /\ Probes => VerifiedIsProven
<1> SUFFICES ASSUME Base, Proofs, NEW o \in DOMAIN objs, objs[o].state = "VERIFIED"
             PROVE  objs[o].id /\ objs[o].stamp = objs[o].fp /\ objs[o].fp \in proven
  BY DEF VerifiedIsProven, ProvenByProbe, Probes
<1>1. o \in 1..mem /\ objs[o] \in Objects
  BY DEF Base, TypeInv
<1>2. Stamped(objs[o]) /\ Stands(objs[o])
  BY <1>1 DEF Proofs
<1>3. QED
  BY <1>1, <1>2, Marks DEF Stamped, Stands, Objects

(***************************************************************************)
(* However many threads, contents and attempts, and whatever a manifest was *)
(* edited to: an action is VERIFIED only if a probe of exactly its content  *)
(* was observed, and a verification that ends VERIFIED leaves the control   *)
(* with the value it found (verify_action, sanitize_action_verification).   *)
(***************************************************************************)
THEOREM VerifiedGenuineAlways == Spec => []VerifiedIsGenuine
<1>1. Base /\ Undo /\ Probes => VerifiedIsGenuine
  BY UndoneIsSettled, ProofsAreProven DEF VerifiedIsGenuine
<1>2. QED
  BY <1>1, BaseInvariant, UndoInvariant, ProofsInvariant, PTL

-----------------------------------------------------------------------------
(* The manifest follows the adapter                                         *)

Copy(o) == Manifest(o, o)
Signs(m) == m.level = "verified" => m.signed
Clean(m) == IF m.state = "VERIFIED" THEN m.id /\ m.stamp = m.fp ELSE ~m.id /\ m.stamp = None
Unverified(o) == o.state = "DISCOVERED" /\ ~o.id /\ o.stamp = None /\ ~o.signed
Quiet == \A t \in Threads : job[t].kind # "create" /\ job[t].at # "write"
Saving(t) ==
    /\ job[t].at = "build" => Unverified(objs[mem])
    /\ job[t].at = "write" =>
          /\ Clean(job[t].file) /\ Signs(job[t].file)
          /\ ~objs[mem].signed => job[t].file = Copy(objs[mem])
Follows ==
    /\ Signs(disk) /\ \A o \in 1..mem : Signs(objs[o])
    /\ ~unsaved => Clean(disk)
    /\ \A t \in Threads : Saving(t)
    /\ ~unsaved /\ mem # 0 /\ ~objs[mem].signed /\ Quiet => Copy(objs[mem]) = disk
Following == ~raced => Follows

LEMMA CopyClaims ==
  ASSUME NEW n, NEW o, SameClaim(n, o)
  PROVE  Copy(n) = Copy(o) /\ (Signs(n) <=> Signs(o)) /\ (Unverified(n) <=> Unverified(o))
BY ManifestOf DEF Copy, SameClaim, Signs, Unverified

LEMMA CopyFields ==
  ASSUME NEW o
  PROVE  SameClaim(Copy(o), o) /\ SameClaim(o, o)
BY ManifestOf DEF Copy, SameClaim

LEMMA UnverifiedClean ==
  ASSUME NEW o, Unverified(o)
  PROVE  Clean(Copy(o))
BY CopyFields DEF Unverified, Clean, SameClaim

LEMMA JudgedClean ==
  ASSUME NEW o \in Objects, NEW s \in States, Signs(o)
  PROVE  /\ Clean(Copy(Judged(o, s))) /\ Signs(Copy(Judged(o, s))) /\ Signs(Judged(o, s))
         /\ Judged(o, s).signed = o.signed
<1>1. Signs(Judged(o, s)) /\ Judged(o, s).signed = o.signed
  BY JudgedType DEF Signs
<1>2. Judged(o, s).state = s
  BY JudgedType
<1>3. Clean(Judged(o, s))
  <2>1. CASE s = "VERIFIED"
    <3>1. Judged(o, s).id = TRUE /\ Judged(o, s).stamp = o.fp /\ Judged(o, s).fp = o.fp
      BY <2>1 DEF Judged, Objects
    <3>2. QED
      BY <1>2, <2>1, <3>1 DEF Clean
  <2>2. CASE s # "VERIFIED"
    <3>1. Judged(o, s).id = FALSE /\ Judged(o, s).stamp = None
      BY <2>2 DEF Judged, Objects
    <3>2. QED
      BY <1>2, <2>2, <3>1 DEF Clean
  <2>3. QED
    BY <2>1, <2>2
<1>4. QED
  BY <1>1, <1>3, CopyFields DEF SameClaim, Clean, Signs

\* An object without signature claims nothing that could be withdrawn.
LEMMA UnsignedClaimsNothing ==
  ASSUME NEW o \in Objects, Signs(o), ~o.signed
  PROVE  ~Claims(o) /\ o.level = "unsigned"
BY DEF Claims, Signs, Objects

LEMMA ThreadFollows ==
  ASSUME Base, OneGeneration, Follows, NEW t \in Threads, Thread(t)
  PROVE  Follows'
<1>1. Others(t) /\ mem' = mem /\ mem \in Nat /\ job[t].kind # None
  BY ThreadKeeps, JobIs
<1>2. ASSUME NEW o \in 1..mem
      PROVE  /\ objs'[o].signed = objs[o].signed /\ Signs(objs'[o])
             /\ ~objs[o].signed /\ ~Record(t) => objs'[o] = objs[o]
  <2>1. objs[o] \in Objects /\ Signs(objs[o])
    BY JobIs DEF Follows
  <2>2. CASE objs'[o] = objs[o]
    BY <2>1, <2>2
  <2>3. CASE Act(t) /\ Claims(objs[o]) /\ objs'[o] = Withdrawn(objs[o])
    BY <2>1, <2>3, WithdrawnFields, UnsignedClaimsNothing DEF Signs
  <2>4. CASE Record(t) /\ objs'[o] = Judged(objs[o], Final(job[t].seen))
    <3>1. Final(job[t].seen) \in States
      BY JobIs, FinalType DEF Jobs
    <3>2. QED
      BY <2>1, <2>4, <3>1, JudgedClean
  <2>5. QED
    BY <2>2, <2>3, <2>4, ObjectsStep
<1>3. mem # 0 => mem \in 1..mem
  BY <1>1
<1>4. job[t].kind \in {"create", "verify"} => job[t].rec = mem /\ mem # 0
  BY JobIs DEF OneGeneration, Staged
<1>5. ASSUME NEW u \in Threads, u # t PROVE Saving(u)'
  <2>1. job'[u] = job[u] /\ Saving(u)
    BY <1>1, <1>5 DEF Others, Follows
  <2>2. job[u].at \in {"build", "write"} => mem # 0 /\ job[u].kind \in {"create", "verify"}
    BY JobIs DEF Staged, Idle, Inside, Jobs, None
  <2>3. job[u].at \in {"build", "write"} => ~Record(t)
    <3>1. Record(t) => job[t].kind = "verify" /\ job[t].at = "record"
      BY RecordIs DEF At
    <3>2. job[u].at = "build" => job[u].kind = "create"
      BY JobIs DEF Staged, Idle, Inside, Jobs, None
    <3>3. QED
      BY <1>5, <2>2, <3>1, <3>2, Exclusion DEF OneGeneration
  <2>4. job[u].at \in {"build", "write"} /\ ~objs[mem].signed => objs'[mem] = objs[mem]
    BY <1>2, <1>3, <2>2, <2>3
  <2>5. job[u].at = "build" => ~objs[mem].signed
    BY <2>1 DEF Saving, Unverified
  <2>6. objs'[mem].signed = objs[mem].signed \/ job[u].at \notin {"build", "write"}
    BY <1>2, <1>3, <2>2
  <2>7. QED
    BY <1>1, <2>1, <2>4, <2>5, <2>6 DEF Saving
<1>6. CASE Record(t)
  <2> DEFINE new == Judged(objs[mem], Final(job[t].seen))
  <2>1. /\ job[t].kind = "verify" /\ job'[t].at = "write" /\ job[t].rec = mem /\ mem # 0
        /\ job'[t].file = Manifest(new, objs[mem]) /\ objs' = [objs EXCEPT ![mem] = new]
    BY <1>4, <1>6, RecordIs
  <2>2. /\ objs[mem] \in Objects /\ Signs(objs[mem]) /\ Final(job[t].seen) \in States
    BY <1>3, <2>1, JobIs, FinalType DEF Follows, Jobs
  <2>3. Manifest(new, objs[mem]) = Copy(new)
    BY ManifestOf DEF Copy
  <2>4. objs'[mem] = new
    BY <1>3, <2>1 DEF Base, TypeInv
  <2>5. Clean(Copy(new)) /\ Signs(Copy(new))
    BY <2>2, JudgedClean
  <2> HIDE DEF new
  <2>6. Saving(t)'
    BY <1>1, <2>1, <2>3, <2>4, <2>5 DEF Saving
  <2>7. ~Quiet'
    BY <2>1 DEF Quiet
  <2>8. UNCHANGED <<disk, unsaved>>
    BY <1>6 DEF Record, history
  <2>9. QED
    BY <1>1, <1>2, <1>5, <2>6, <2>7, <2>8 DEF Follows, Signs, Clean
<1>7. CASE Build(t)
  <2>1. /\ job[t].at = "build" /\ job'[t].at = "write" /\ job[t].rec = mem /\ mem # 0
        /\ job'[t].file = Copy(objs[mem]) /\ objs' = objs
    BY <1>4, <1>7, BuildIs DEF Copy, At, Build
  <2>2. Unverified(objs[mem]) /\ Signs(objs[mem])
    BY <1>3, <2>1 DEF Follows, Saving
  <2>3. Clean(Copy(objs[mem])) /\ Signs(Copy(objs[mem]))
    BY <2>2, UnverifiedClean, CopyFields DEF SameClaim, Signs
  <2>4. Saving(t)'
    BY <1>1, <2>1, <2>3 DEF Saving
  <2>5. ~Quiet'
    BY <2>1 DEF Quiet
  <2>6. UNCHANGED <<disk, unsaved>>
    BY <1>7 DEF Build, history
  <2>7. QED
    BY <1>1, <1>2, <1>5, <2>4, <2>5, <2>6 DEF Follows, Signs, Clean
<1>8. CASE Write(t)
  <2>1. /\ job[t].at = "write" /\ job'[t] = Idle /\ objs' = objs
        /\ (disk' = job[t].file /\ unsaved' = unsaved) \/ (unsaved' = TRUE /\ disk' = disk)
    BY <1>8, WriteIs DEF At, Write
  <2>2. Saving(t)'
    BY <2>1, IdleFields DEF Saving
  <2>3. Saving(t)
    BY DEF Follows
  <2>4. Signs(disk)' /\ (~unsaved' => Clean(disk)')
    BY <2>1, <2>3 DEF Follows, Saving, Signs, Clean
  <2>5. ~unsaved' /\ ~objs[mem].signed => Copy(objs[mem]) = disk'
    BY <2>1, <2>3 DEF Saving
  <2>6. QED
    BY <1>1, <1>2, <1>5, <2>1, <2>2, <2>4, <2>5 DEF Follows, Copy, Manifest
<1>9. CASE ~Record(t) /\ ~Build(t) /\ ~Write(t)
  <2>1. job'[t].at \notin {"build", "write"} /\ job[t].at \notin {"build", "write"}
    <3>1. CASE Reget(t) \/ LockVia(t) \/ Act(t)
      BY <3>1, RegetIs, LockViaIs, ActIs, IdleFields DEF FailedTo, At
    <3>2. CASE Enter(t) \/ Get(t) \/ Hold(t) \/ Look(t) \/ Wait(t) \/ Leave(t)
      BY <3>2, EntersIs, LookIs, WaitIs, LeaveIs DEF At
    <3>3. QED
      BY <1>9, <3>1, <3>2 DEF Thread
  <2>2. job[t].kind # "create"
    BY <2>1, JobIs DEF Staged
  <2>3. Saving(t)'
    BY <2>1 DEF Saving
  <2>4. Quiet' => Quiet
    BY <1>1, <2>1, <2>2 DEF Quiet, Others
  <2>5. UNCHANGED <<disk, unsaved>>
    BY <1>9 DEF Thread, Reget, LockVia, Act, Enter, Get, Hold, Look, Wait, Leave, history
  <2>6. mem # 0 /\ ~objs'[mem].signed => objs'[mem] = objs[mem]
    BY <1>2, <1>3, <1>9
  <2>7. QED
    BY <1>1, <1>2, <1>5, <2>3, <2>4, <2>5, <2>6 DEF Follows, Signs, Clean, Copy, Manifest
<1>10. QED
  BY <1>6, <1>7, <1>8, <1>9

LEMMA LoadedClean ==
  ASSUME NEW m \in Written, Signs(m)
  PROVE  /\ Signs(Loaded(m))
         /\ Clean(m) /\ ~m.signed => Copy(Loaded(m)) = m
<1>1. Signs(Loaded(m))
  BY LoadedFields DEF Signs, Resolved
<1>2. ASSUME Clean(m), ~m.signed PROVE Copy(Loaded(m)) = m
  <2>1. Sanitized(m) = m
    BY <1>2 DEF Clean, Sanitized, Written
  <2>2. Resolved(m) = m.level
    BY <1>2 DEF Resolved, Signs, Written
  <2>3. /\ Loaded(m).fp = m.fp /\ Loaded(m).state = m.state /\ Loaded(m).id = m.id
        /\ Loaded(m).stamp = m.stamp /\ Loaded(m).signed = m.signed /\ Loaded(m).level = m.level
    BY <2>1, <2>2 DEF Loaded
  <2>4. QED
    BY <2>3, ManifestOf DEF Copy, Written
<1>3. QED
  BY <1>1, <1>2

LEMMA FollowsStep ==
  ASSUME Base, Generation, Following, [Next]_vars
  PROVE  Following'
<1> SUFFICES ASSUME ~raced' PROVE Follows'
  BY DEF Following
<1>0. objs \in Seq(Objects) /\ mem = Len(objs) /\ mem \in Nat /\ (mem # 0 => mem \in 1..mem)
  BY DEF Base, TypeInv
<1>1. ASSUME NEW t \in Threads, NEW c \in Contents, Create(t, c) PROVE Follows'
  <2> DEFINE new == [bound |-> TRUE, fp |-> c, state |-> "DISCOVERED", id |-> FALSE,
                     stamp |-> None, signed |-> FALSE, level |-> "unsigned"]
  <2>1. /\ Others(t) /\ mem' = mem + 1 /\ objs' = Append(objs, new) /\ Follows
        /\ \A u \in Threads : job[u].kind = None
        /\ job'[t].at = "build" /\ job'[t].kind = "create"
    BY <1>1, CreateIs DEF Following
  <2>2. UNCHANGED <<disk, unsaved>>
    BY <1>1 DEF Create
  <2>3. \A o \in 1..mem' : objs'[o] = IF o = mem + 1 THEN new ELSE objs[o]
    BY <1>0, <2>1
  <2>4. Unverified(new) /\ Signs(new)
    BY DEF Unverified, Signs
  <2> HIDE DEF new
  <2>5. ASSUME NEW o \in 1..mem' PROVE Signs(objs'[o])
    BY <1>0, <2>1, <2>3, <2>4 DEF Follows
  <2>6. ASSUME NEW u \in Threads PROVE Saving(u)'
    <3>1. CASE u = t
      <4>1. objs'[mem'] = new
        BY <1>0, <2>1, <2>3
      <4>2. QED
        BY <2>1, <2>4, <3>1, <4>1 DEF Saving
    <3>2. CASE u # t
      <4>1. job'[u].at = "idle"
        BY <2>1, <3>2, IdleIs DEF Others
      <4>2. QED
        BY <4>1 DEF Saving
    <3>3. QED
      BY <3>1, <3>2
  <2>7. ~Quiet'
    BY <2>1 DEF Quiet
  <2>8. QED
    BY <2>1, <2>2, <2>5, <2>6, <2>7 DEF Follows, Signs, Clean
(* A step that leaves the claims and the file alone.                        *)
<1>2. ASSUME ~raced, mem' = mem, \A o \in 1..mem : SameClaim(objs'[o], objs[o]),
             UNCHANGED <<disk, unsaved>>,
             \A u \in Threads : job'[u] = job[u] \/ (Begun(job'[u]) /\ job[u].kind = None)
      PROVE  Follows'
  <2>1. Follows
    BY <1>2 DEF Following
  <2>2. \A o \in 1..mem : /\ Signs(objs'[o]) /\ objs'[o].signed = objs[o].signed
                          /\ Copy(objs'[o]) = Copy(objs[o])
                          /\ Unverified(objs[o]) => Unverified(objs'[o])
    BY <1>2, <2>1, CopyClaims DEF Follows, SameClaim
  <2>3. ASSUME NEW u \in Threads PROVE Saving(u)'
    <3>1. CASE job'[u] = job[u]
      <4>1. job[u].at \in {"build", "write"} => mem # 0
        BY JobIs DEF Staged, Idle, Inside, Jobs, None
      <4>2. Saving(u)
        BY <2>1 DEF Follows
      <4>3. QED
        BY <1>0, <1>2, <2>2, <3>1, <4>1, <4>2 DEF Saving
    <3>2. CASE Begun(job'[u])
      BY <3>2 DEF Saving, Begun
    <3>3. QED
      BY <1>2, <3>1, <3>2
  <2>4. Quiet' => Quiet
    <3>1. \A u \in Threads : job[u].kind = None => job[u].at # "write" /\ job[u].kind # "create"
      BY IdleIs DEF None
    <3>2. QED
      BY <1>2, <3>1 DEF Quiet
  <2>5. mem # 0 => Copy(objs'[mem]) = Copy(objs[mem]) /\ objs'[mem].signed = objs[mem].signed
    BY <1>0, <2>2
  <2>6. \A o \in 1..mem' : Signs(objs'[o])
    BY <1>2, <2>2
  <2>7. QED
    BY <1>2, <2>1, <2>3, <2>4, <2>5, <2>6 DEF Follows, Signs, Clean, Copy, Manifest
<1>3. ASSUME objs' = objs PROVE \A o \in 1..mem : SameClaim(objs'[o], objs[o])
  BY <1>3 DEF SameClaim
<1>4. ASSUME NEW t \in Threads, NEW times \in 1..MaxTimes, Verify(t, times) PROVE Follows'
  <2>1. Others(t) /\ Begun(job'[t]) /\ ~raced /\ job[t].kind = None
    BY <1>4, VerifyIs DEF Begun
  <2>2. UNCHANGED <<objs, mem, disk, unsaved>>
    BY <1>4 DEF Verify
  <2>3. QED
    BY <1>2, <1>3, <2>1, <2>2 DEF Others
<1>5. ASSUME NEW t \in Threads, Invoke(t) PROVE Follows'
  <2>1. Others(t) /\ Begun(job'[t]) /\ ~raced /\ job[t].kind = None
    BY <1>5, InvokeIs DEF Begun
  <2>2. UNCHANGED <<objs, mem, disk, unsaved>>
    BY <1>5 DEF Invoke, history
  <2>3. QED
    BY <1>2, <1>3, <2>1, <2>2 DEF Others
<1>6. CASE Show \/ SetPolicy \/ SetTrust \/ UNCHANGED vars
  <2>1. UNCHANGED <<objs, mem, disk, unsaved, raced, job>>
    BY <1>6 DEF Show, SetPolicy, SetTrust, vars, history
  <2>2. QED
    BY <1>2, <1>3, <2>1
<1>7. CASE Rebind
  BY <1>2, <1>7, ReboundClaims DEF Rebind, history
<1>8. ASSUME NEW t \in Threads, Thread(t) PROVE Follows'
  BY <1>8, ThreadKeeps, ThreadFollows DEF Generation, Following
<1>9. CASE Restart
  <2>1. /\ Follows /\ disk \in Manifests /\ disk' \in {disk} \cup Edited(disk)
        /\ objs' = Restored(disk') /\ mem' = Len(objs')
        /\ ~unsaved' => ~unsaved /\ disk' = disk
    BY <1>9 DEF Restart, Following, Base, TypeInv
  <2>2. disk' \in Manifests /\ Signs(disk')
    BY <2>1, EditedType, EditedStamp DEF Follows, Signs, Manifests
  <2>3. mem' # 0 => disk' \in Written /\ mem' = 1 /\ objs'[1] = Loaded(disk')
    <3>1. CASE Restored(disk') = << >>
      BY <2>1, <3>1
    <3>2. CASE Restored(disk') # << >>
      <4>1. /\ disk' \in Written
            /\ Len(Restored(disk')) = 1
            /\ Restored(disk')[1] = Loaded(disk')
        BY <2>2, <3>2, RestoredIs
      <4>2. QED
        BY <2>1, <4>1
    <3>3. QED
      BY <3>1, <3>2
  <2>4. \A o \in 1..mem' : Signs(objs'[o])
    <3>1. CASE mem' = 0
      BY <3>1
    <3>2. CASE mem' # 0
      BY <2>2, <2>3, <3>2, LoadedClean
    <3>3. QED
      BY <3>1, <3>2
  <2>5. ASSUME NEW u \in Threads PROVE Saving(u)'
    BY <1>9, RestartIs, IdleFields DEF Saving
  <2>6. ~unsaved' => Clean(disk')
    BY <2>1 DEF Follows
  <2>7. ~unsaved' /\ mem' # 0 /\ ~objs'[mem'].signed => Copy(objs'[mem']) = disk'
    <3>1. mem' # 0 => objs'[mem'].signed = disk'.signed
      BY <2>3, LoadedFields
    <3>2. QED
      BY <2>2, <2>3, <2>6, <3>1, LoadedClean
  <2>8. QED
    BY <2>2, <2>4, <2>5, <2>6, <2>7 DEF Follows, Signs, Clean, Copy, Manifest
<1>10. QED
  BY <1>1, <1>4, <1>5, <1>6, <1>7, <1>8, <1>9 DEF Next

LEMMA FollowingInvariant == Spec => []Following
<1>1. Init => Following
  <2> SUFFICES ASSUME Init PROVE Follows
    BY DEF Following
  <2>1. disk \in Manifests /\ Signs(disk) /\ Clean(disk) /\ (disk = Nothing \/ disk.signed)
    <3>1. disk \in Manifests
      BY BaseInit DEF Base, TypeInv
    <3>2. Signs(Nothing) /\ Clean(Nothing)
      BY DEF Nothing, Signs, Clean
    <3>3. Signed.signed /\ Signed.state = "DISCOVERED" /\ ~Signed.id /\ Signed.stamp = None
      BY DEF Nothing, Signed
    <3>4. QED
      BY <3>1, <3>2, <3>3 DEF Init, Signs, Clean
  <2>2. mem # 0 => disk \in Written /\ mem = 1 /\ objs[1] = Loaded(disk)
    BY <2>1, RestoredIs DEF Init
  <2>3. mem \in Nat
    BY BaseInit DEF Base, TypeInv
  <2>4. \A o \in 1..mem : Signs(objs[o])
    <3>1. CASE mem = 0
      BY <3>1
    <3>2. CASE mem # 0
      BY <2>1, <2>2, <3>2, LoadedClean
    <3>3. QED
      BY <3>1, <3>2
  <2>5. \A t \in Threads : Saving(t)
    BY IdleFields DEF Init, Saving
  <2>6. mem # 0 => objs[mem].signed
    BY <2>1, <2>2, WrittenIsSome, LoadedFields
  <2>7. QED
    BY <2>1, <2>4, <2>5, <2>6 DEF Follows
<1>2. QED
  BY <1>1, BaseInvariant, GenerationInvariant, FollowsStep, PTL DEF Spec

(***************************************************************************)
(* However many threads and restarts: when nothing is under way, the       *)
(* manifest is that of the adapter in memory, unless a write failed,       *)
(* somebody edited it or a creation overlapped another call (store.save).  *)
(***************************************************************************)
THEOREM ManifestFollowsAlways == Spec => []ManifestFollows
<1>1. Base /\ Following => ManifestFollows
  <2> SUFFICES ASSUME Base, Follows, \A t \in Threads : At(t, "idle"), mem # 0, ~objs[mem].signed,
                      ~unsaved
               PROVE  Manifest(objs[mem], objs[mem]) = disk
    BY DEF ManifestFollows, Following
  <2>1. Quiet
    BY IdleIs DEF Quiet, At, None
  <2>2. QED
    BY <2>1 DEF Follows, Copy
<1>2. QED
  BY <1>1, BaseInvariant, FollowingInvariant, PTL

=============================================================================
