---------------------------- MODULE InstanceLock ----------------------------
(***************************************************************************)
(* The single-instance lock on the adapter store                           *)
(* (core/runtime/instance_lock.py, taken and released by the lifespan of   *)
(* core/runtime/app.py).                                                   *)
(*                                                                         *)
(* Every system call on the lock file is a step, because any other process *)
(* may run between two of them.  A process has one life: it starts,        *)
(* acquires or is refused, and then releases or dies.  The file keeps the  *)
(* inode it was created with: a process whose file was moved away writes   *)
(* to the moved inode.                                                     *)
(***************************************************************************)
EXTENDS Naturals, FiniteSets

CONSTANTS
    Procs,            \* processes, named by their pid
    ReclaimAttempts,  \* _RECLAIM_ATTEMPTS
    MaxContenders,    \* bound: processes inside acquire() at a time
    Disruptions       \* what the environment does to the processes

ASSUME LockAssumption ==
    /\ ReclaimAttempts \in Nat \ {0, 1}
    /\ MaxContenders \in Nat
    /\ Disruptions \subseteq {
          "crash",     \* a process dies at any step
          "release",   \* a process stops in good order while others start
          "slow",      \* a creator takes longer than the mid-write window
          "leftover",  \* the store holds an unreadable lock to begin with
          "io"}        \* open or rename fails

VARIABLES
    file,      \* the lock file: NoFile, or who created it and what it says
    pc,        \* where each process is
    attempts,  \* reclaim_attempts of each process
    hindered,  \* history: processes that met a live one or an I/O error
    rivals,    \* history: processes inside acquire() beside another one
    contested  \* history: a process that had a rival moved a lock file away

history == <<hindered, rivals, contested>>
vars == <<file, pc, attempts, history>>

NoFile == [by |-> "nobody", text |-> "none", fresh |-> FALSE]
Junk == [by |-> "nobody", text |-> "junk", fresh |-> FALSE]

Contending == {"open", "stat", "read", "recheck", "restat", "rename", "write"}
Contenders == {p \in Procs : pc[p] \in Contending}
Alive(p) == pc[p] \in Contending \cup {"held", "releasing", "unlinking"}
Holders == {p \in Procs : pc[p] = "held"}

Init ==
    /\ file \in {NoFile} \cup (IF "leftover" \in Disruptions THEN {Junk} ELSE {})
    /\ pc = [p \in Procs |-> "new"]
    /\ attempts = [p \in Procs |-> 0]
    /\ hindered = {}
    /\ rivals = {}
    /\ contested = FALSE

Goto(p, l) == pc' = [pc EXCEPT ![p] = l]

-----------------------------------------------------------------------------
(* acquire()                                                               *)

\* A process is alone if no other one is alive from its start to its verdict.
Start(p) ==
    LET others == {q \in Procs \ {p} : Alive(q)} IN
    /\ pc[p] = "new"
    /\ Cardinality(Contenders) < MaxContenders
    /\ Goto(p, "open")
    /\ hindered' = hindered \cup others \cup (IF others = {} THEN {} ELSE {p})
    /\ rivals' = rivals \cup Contenders \cup (IF Contenders = {} THEN {} ELSE {p})
    /\ UNCHANGED <<file, attempts, contested>>

MayTry(p) == attempts[p] < ReclaimAttempts

\* O_CREAT | O_EXCL succeeds for one caller.
Create(p) ==
    /\ pc[p] = "open"
    /\ MayTry(p)
    /\ file = NoFile
    /\ file' = [by |-> p, text |-> "empty", fresh |-> TRUE]
    /\ Goto(p, "write")
    /\ UNCHANGED <<attempts, history>>

FileExists(p) ==
    /\ pc[p] = "open"
    /\ MayTry(p)
    /\ file # NoFile
    /\ Goto(p, "read")
    /\ UNCHANGED <<file, attempts, history>>

\* Another error than FileExistsError.
OpenFails(p) ==
    /\ "io" \in Disruptions
    /\ pc[p] = "open"
    /\ MayTry(p)
    /\ Goto(p, "refused")
    /\ hindered' = hindered \cup {p}
    /\ UNCHANGED <<file, attempts, rivals, contested>>

GiveUp(p) ==
    /\ pc[p] = "open"
    /\ ~MayTry(p)
    /\ Goto(p, "refused")
    /\ UNCHANGED <<file, attempts, history>>

\* read_holder: a pid, or None if the file is missing, empty or unreadable.
Holder == IF file.text = "pid" THEN {file.by} ELSE {}

\* Mutated forms of HeldByLive: no liveness test, and no look at the holder.
HeldByAnyone == Holder # {}
HeldByNobody == FALSE

HeldByLive == \E q \in Holder : Alive(q)

\* Size 0 and younger than the window of 50 ms.
LooksMidWrite == file.text = "empty" /\ file.fresh

ReadHolder(p) ==
    /\ pc[p] = "read"
    /\ Goto(p, IF HeldByLive THEN "refused" ELSE IF Holder = {} THEN "stat" ELSE "recheck")
    /\ UNCHANGED <<file, attempts, history>>

\* The wait for a file in mid-write costs no attempt.
StatFile(p) ==
    /\ pc[p] = "stat"
    /\ Goto(p, IF LooksMidWrite THEN "open" ELSE "recheck")
    /\ UNCHANGED <<file, attempts, history>>

\* Mutated form of CountAttempt: the attempts are not counted.
CountNothing(p) == attempts' = [attempts EXCEPT ![p] = @ + 0]

CountAttempt(p) == attempts' = [attempts EXCEPT ![p] = @ + 1]

\* _discard_stale looks at the holder again,
Recheck(p) ==
    /\ pc[p] = "recheck"
    /\ \/ HeldByLive /\ Goto(p, "open") /\ CountAttempt(p)
       \/ ~HeldByLive /\ Holder # {} /\ Goto(p, "rename") /\ UNCHANGED attempts
       \/ Holder = {} /\ Goto(p, "restat") /\ UNCHANGED attempts
    /\ UNCHANGED <<file, history>>

\* looks at the size and age again if there is none,
RestatFile(p) ==
    /\ pc[p] = "restat"
    /\ \/ LooksMidWrite /\ Goto(p, "open") /\ CountAttempt(p)
       \/ ~LooksMidWrite /\ Goto(p, "rename") /\ UNCHANGED attempts
    /\ UNCHANGED <<file, history>>

\* and moves away whatever file is there by now.
Rename(p) ==
    /\ pc[p] = "rename"
    /\ file' = NoFile
    /\ Goto(p, "open")
    /\ CountAttempt(p)
    /\ contested' = (contested \/ p \in rivals)
    /\ UNCHANGED <<hindered, rivals>>

RenameFails(p) ==
    /\ "io" \in Disruptions
    /\ pc[p] = "rename"
    /\ Goto(p, "open")
    /\ CountAttempt(p)
    /\ hindered' = hindered \cup {p}
    /\ UNCHANGED <<file, rivals, contested>>

\* The payload goes to the inode this process created.
Write(p) ==
    /\ pc[p] = "write"
    /\ file' = IF file.by = p THEN [file EXCEPT !.text = "pid", !.fresh = FALSE] ELSE file
    /\ Goto(p, "held")
    /\ UNCHANGED <<attempts, history>>

-----------------------------------------------------------------------------
(* release(), death and time                                               *)

\* Teardown, or a startup audit that fails: `held` is cleared first.
Release(p) ==
    /\ "release" \in Disruptions
    /\ pc[p] = "held"
    /\ Goto(p, "releasing")
    /\ UNCHANGED <<file, attempts, history>>

ReleaseCheck(p) ==
    /\ pc[p] = "releasing"
    /\ Goto(p, IF Holder = {p} THEN "unlinking" ELSE "gone")
    /\ UNCHANGED <<file, attempts, history>>

Unlink(p) ==
    /\ pc[p] = "unlinking"
    /\ file' = NoFile
    /\ Goto(p, "gone")
    /\ UNCHANGED <<attempts, history>>

Crash(p) ==
    /\ "crash" \in Disruptions
    /\ Alive(p)
    /\ Goto(p, "gone")
    /\ UNCHANGED <<file, attempts, history>>

\* The mid-write window of the file passes.
Age ==
    /\ file.fresh
    /\ file.by \in Contenders => "slow" \in Disruptions
    /\ file' = [file EXCEPT !.fresh = FALSE]
    /\ UNCHANGED <<pc, attempts, history>>

Step(p) ==
    \/ Create(p) \/ FileExists(p) \/ OpenFails(p) \/ GiveUp(p)
    \/ ReadHolder(p) \/ StatFile(p) \/ Recheck(p) \/ RestatFile(p)
    \/ Rename(p) \/ RenameFails(p) \/ Write(p)
    \/ ReleaseCheck(p) \/ Unlink(p)

Next ==
    \/ Age
    \/ \E p \in Procs : Start(p) \/ Step(p) \/ Release(p) \/ Crash(p)

Spec == Init /\ [][Next]_vars

\* A process that runs keeps running, and time passes.
FairSpec == Spec /\ WF_vars(Age) /\ \A p \in Procs : WF_vars(Step(p))

-----------------------------------------------------------------------------
(* Properties                                                              *)

TypeOK ==
    /\ file \in {NoFile, Junk} \cup
                [by : Procs, text : {"empty", "pid"}, fresh : BOOLEAN]
    /\ pc \in [Procs -> Contending \cup
                {"new", "held", "refused", "releasing", "unlinking", "gone"}]
    /\ attempts \in [Procs -> 0..ReclaimAttempts]
    /\ hindered \subseteq Procs
    /\ rivals \subseteq Procs
    /\ contested \in BOOLEAN

(* At most one runtime works on the store (instance_lock.py:1-8), whatever  *)
(* crashes, leftovers and racing starts there are, as long as no process   *)
(* that had a rival inside acquire() has discarded a lock file.            *)
AtMostOneHolder == ~contested => Cardinality(Holders) <= 1

(* A leftover lock, of a dead process or unreadable, never keeps out an     *)
(* instance that starts alone (instance_lock.py:15-17).                    *)
AloneGetsTheLock == \A p \in Procs : pc[p] = "refused" => p \in hindered

(* Every start comes to a verdict, however many contenders reclaim from one *)
(* another (instance_lock.py:29-32).                                       *)
StartDecides == \A p \in Procs : pc[p] = "open" ~> pc[p] \notin Contending

(* "Un lock di un processo vivo non viene mai rubato" (instance_lock.py:17): *)
(* while its holder runs, the lock file stays.                             *)
LiveLockIsNeverStolen ==
    [][\A p \in Procs :
          pc[p] = "held" /\ pc'[p] = "held" /\ file.by = p => file'.by = p]_vars

=============================================================================
