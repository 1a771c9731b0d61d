--------------------------- MODULE System_proofs ----------------------------
(* Theorems about the components of System, for every value of their        *)
(* constants: the update manager, then those that are instances.  Each has  *)
(* an inductive invariant of its own, kept by its own steps; the others     *)
(* leave its variables alone.                                               *)
EXTENDS System, Integers, FiniteSetTheorems, TLAPS

-----------------------------------------------------------------------------
(* The update manager                                                       *)
-----------------------------------------------------------------------------
(* The last element of a sequence, and of one that grows.                   *)
LEMMA LastElement ==
  ASSUME NEW S, NEW s \in Seq(S), s # <<>>
  PROVE  Len(s) \in DOMAIN s /\ s[Len(s)] \in S
<1>1. Len(s) = 0 => s = <<>>
  OBVIOUS
<1>2. Len(s) \in Nat /\ DOMAIN s = 1..Len(s)
  OBVIOUS
<1>3. QED
  BY <1>1, <1>2

LEMMA AppendElements ==
  ASSUME NEW S, NEW s \in Seq(S), NEW x \in S
  PROVE  /\ Append(s, x) \in Seq(S)
         /\ Append(s, x) # <<>>
         /\ Append(s, x)[Len(Append(s, x))] = x
         /\ DOMAIN Append(s, x) = DOMAIN s \cup {Len(Append(s, x))}
         /\ \A i \in DOMAIN s : Append(s, x)[i] = s[i]
<1>1. /\ Append(s, x) \in Seq(S)
      /\ Len(Append(s, x)) = Len(s) + 1
      /\ \A i \in 1..Len(s) : Append(s, x)[i] = s[i]
      /\ Append(s, x)[Len(s) + 1] = x
  OBVIOUS
<1>2. /\ Len(s) \in Nat
      /\ DOMAIN s = 1..Len(s)
      /\ DOMAIN Append(s, x) = 1..(Len(s) + 1)
  BY <1>1
<1>3. 1..(Len(s) + 1) = (1..Len(s)) \cup {Len(s) + 1}
  BY <1>2
<1>4. ASSUME Append(s, x) = <<>> PROVE FALSE
  <2>1. Len(<<>>) = 0
    OBVIOUS
  <2>2. Len(Append(s, x)) = 0
    BY <1>4, <2>1
  <2>3. QED
    BY <1>1, <1>2, <2>2
<1>5. QED
  BY <1>1, <1>2, <1>3, <1>4

-----------------------------------------------------------------------------
(* Names and trees                                                         *)

(* The name of a backup directory gives the version back (rollback).        *)
LEMMA DirNames ==
  /\ \A v \in Versions : Dir(v) \in Dirs /\ VersionOf(Dir(v)) = v
  /\ \A d \in Dirs : VersionOf(d) \in Versions /\ Dir(VersionOf(d)) = d
<1> USE NamesAssumption
<1>1. ASSUME NEW v \in Versions
      PROVE  Dir(v) \in Dirs /\ VersionOf(Dir(v)) = v
  BY DEF Dirs, VersionOf
<1>2. ASSUME NEW d \in Dirs
      PROVE  VersionOf(d) \in Versions /\ Dir(VersionOf(d)) = d
  <2>1. PICK v \in Versions : Dir(v) = d
    BY DEF Dirs
  <2>2. QED
    BY <1>1, <2>1
<1>3. QED
  BY <1>1, <1>2

(* What the tree of a version holds.                                        *)
LEMMA TreeOfFiles ==
  ASSUME NEW v \in Versions
  PROVE  /\ TreeOf(v) \in Tree
         /\ Has[v] \subseteq Files
         /\ \A f \in Files : TreeOf(v)[f] = IF f \in Has[v] THEN v ELSE Gone
         /\ Present(TreeOf(v)) = Has[v]
BY UpdateAssumption, NamesAssumption DEF TreeOf, Tree, Present

(* A tree is known by its members.                                          *)
LEMMA TreeExtensional ==
  ASSUME NEW s \in Tree, NEW t \in Tree, \A f \in Files : s[f] = t[f]
  PROVE  s = t
BY DEF Tree

-----------------------------------------------------------------------------
(* The invariant                                                           *)

\* Backup directory d holds the whole tree of the version it is named for.
Complete(d) == backup[d] = TreeOf(VersionOf(d))

\* The record s of the manager names version v as the one to return to.
ReturnsTo(s, v) == s.backups # <<>> /\ s.backups[Len(s.backups)] = Dir(v)

\* The call can be undone: in memory, and from the disk if that can be read.
Reversible ==
    /\ backup[Dir(job.from)] = TreeOf(job.from)
    /\ ReturnsTo(state, job.from)
    /\ saved.readable => ReturnsTo(saved, job.from)

\* Which calls pass through which stages.
KindsOfStage ==
    /\ pc \in {"backup", "remove", "copy"} => job.kind \in {"plain", "transaction"}
    /\ pc \in {"stop", "start", "health"} => job.kind = "transaction"
    /\ pc \in {"undo-remove", "undo-copy"} => job.kind \in {"transaction", "rollback"}
    /\ pc = "idle" => job = NoJob

\* The manager read its file, and past the backup there is one on record.
Loaded ==
    /\ state.readable
    /\ pc \notin {"idle", "dead", "backup"} => state.backups # <<>>

\* How far the loop of each stage has brought the tree and the backup.
Progress ==
    /\ pc = "idle" => tree = TreeOf(state.version) /\ saved = state
    /\ pc = "backup" =>
          /\ tree = TreeOf(job.from) /\ state.version = job.from /\ saved = state
          /\ \A f \in Files \ todo : backup[Dir(job.from)][f] = tree[f]
    /\ pc = "remove" => \A f \in Files \ (todo \cup Has[job.to]) : tree[f] = Gone
    /\ pc = "copy" =>
          /\ todo \subseteq Has[job.to]
          /\ \A f \in Files \ todo : tree[f] = TreeOf(job.to)[f]
    /\ pc \in {"start", "health"} =>
          tree = TreeOf(job.to) /\ state.version = job.to /\ saved = state
    /\ pc = "health" => service = "up"
    /\ pc = "undo-remove" => \A f \in Files \ todo : backup[Last][f] = Gone => tree[f] = Gone
    /\ pc = "undo-copy" => \A f \in Files \ todo : tree[f] = backup[Last][f]

\* Every backup on record is complete, but the one that is being made anew.
BackupsComplete ==
    pc # "dead" => \A i \in DOMAIN state.backups :
        \/ pc = "backup" /\ state.backups[i] = Dir(job.from)
        \/ Complete(state.backups[i])

\* From the end of the backup on, apply() can be undone.
CanUndo == pc \notin {"idle", "backup"} /\ job.kind \in {"plain", "transaction"} => Reversible

(* AllOrNothing speaks of the time between calls only.  Inductive is where  *)
(* each stage stands: every backup on record is complete, but the one that *)
(* is being made anew, the last one is that of the version found, and the  *)
(* members a loop has treated are what the next stage takes them for.      *)
UpdateInv ==
    /\ TypeOK
    /\ KindsOfStage
    /\ Loaded
    /\ ~spoiled => Progress /\ BackupsComplete /\ CanUndo

-----------------------------------------------------------------------------
(* Types                                                                   *)

States == [version : Versions, backups : Seq(Dirs), readable : BOOLEAN]

LEMMA TypeInit == Init => TypeOK /\ KindsOfStage /\ Loaded
<1> SUFFICES ASSUME Init PROVE TypeOK /\ KindsOfStage /\ Loaded
  OBVIOUS
<1>1. tree \in Tree /\ First \in Versions
  BY TreeOfFiles, UpdateAssumption DEF Init
<1>2. backup \in [Dirs -> Tree]
  BY DEF Init, Empty, Tree
<1>3. state \in States /\ saved \in States
  <2>1. <<>> \in Seq(Dirs)
    OBVIOUS
  <2>2. QED
    BY <1>1, <2>1 DEF Init, States
<1>4. job \in [kind : {"none", "plain", "transaction", "rollback"}, to : Versions, from : Versions]
  BY <1>1 DEF Init, NoJob
<1>5. calls \in 0..MaxUpdates /\ errors \in 0..MaxErrors /\ crashes \in 0..MaxCrashes
  BY UpdateAssumption DEF Init
<1>6. TypeOK
  BY <1>1, <1>2, <1>3, <1>4, <1>5 DEF Init, TypeOK, States
<1>7. QED
  BY <1>6 DEF Init, KindsOfStage, Loaded

\* What the type of the state says of the last backup on record.
LEMMA LastType ==
  ASSUME TypeOK, state.backups # <<>>
  PROVE  /\ Last \in Dirs
         /\ Len(state.backups) \in DOMAIN state.backups
         /\ VersionOf(Last) \in Versions
         /\ backup[Last] \in Tree
<1>1. state.backups \in Seq(Dirs) /\ backup \in [Dirs -> Tree]
  BY DEF TypeOK
<1>2. Len(state.backups) \in DOMAIN state.backups /\ Last \in Dirs
  BY <1>1, LastElement DEF Last
<1>3. QED
  BY <1>1, <1>2, DirNames

\* The record a stage saves, by stage.
LEMMA NotedType ==
  ASSUME TypeOK, Loaded, Saving
  PROVE  /\ Noted \in States /\ Noted.readable
         /\ pc = "backup" => /\ Noted.backups = Append(state.backups, Dir(job.from))
                             /\ Noted.version = state.version
         /\ pc = "copy" => Noted.backups = state.backups /\ Noted.version = job.to
         /\ pc = "undo-copy" => /\ Noted.backups = state.backups
                                /\ Noted.version = VersionOf(Last)
<1>1. /\ state \in States /\ state.backups \in Seq(Dirs) /\ state.readable
      /\ job.to \in Versions /\ job.from \in Versions
  BY DEF TypeOK, States, Loaded
<1>2. CASE pc = "backup"
  <2>1. Append(state.backups, Dir(job.from)) \in Seq(Dirs)
    BY <1>1, DirNames
  <2>2. Noted = [state EXCEPT !.backups = Append(@, Dir(job.from))]
    BY <1>2 DEF Noted
  <2>3. QED
    BY <1>1, <1>2, <2>1, <2>2 DEF States
<1>3. CASE pc = "copy"
  <2>1. Noted = [state EXCEPT !.version = job.to]
    BY <1>3 DEF Noted
  <2>2. QED
    BY <1>1, <1>3, <2>1 DEF States
<1>4. CASE pc = "undo-copy"
  <2>1. Noted = [state EXCEPT !.version = VersionOf(Last)]
    BY <1>4 DEF Noted
  <2>2. VersionOf(Last) \in Versions
    BY <1>4, LastType DEF Loaded
  <2>3. QED
    BY <1>1, <1>4, <2>1, <2>2 DEF States
<1>5. QED
  BY <1>2, <1>3, <1>4 DEF Saving

\* What an error or a death leaves has the type of what it found.
LEMMA CutShortType ==
  ASSUME TypeOK, CutShort
  PROVE  /\ tree' \in Tree /\ backup' \in [Dirs -> Tree] /\ saved' \in States
         /\ pc # "backup" => backup' = backup
         /\ saved' = saved \/ saved'.readable = FALSE
<1>1. /\ tree \in Tree /\ backup \in [Dirs -> Tree] /\ saved \in States /\ todo \subseteq Files
      /\ Dir(job.from) \in Dirs
  BY DirNames DEF TypeOK, States
<1>2. Unreadable \in States /\ Unreadable.readable = FALSE
  <2>1. <<>> \in Seq(Dirs) /\ First \in Versions
    BY UpdateAssumption
  <2>2. QED
    BY <2>1 DEF Unreadable, States
<1>3. saved' \in States /\ (saved' = saved \/ saved'.readable = FALSE)
  BY <1>1, <1>2 DEF CutShort
<1>4. CASE UNCHANGED <<tree, backup>>
  BY <1>1, <1>3, <1>4
<1>5. CASE \E f \in todo, left \in {Gone, Partial} :
             IF pc = "backup"
               THEN backup' = [backup EXCEPT ![Dir(job.from)][f] = left] /\ UNCHANGED tree
               ELSE tree' = [tree EXCEPT ![f] = left] /\ UNCHANGED backup
  <2>1. PICK f \in todo, left \in {Gone, Partial} :
             IF pc = "backup"
               THEN backup' = [backup EXCEPT ![Dir(job.from)][f] = left] /\ UNCHANGED tree
               ELSE tree' = [tree EXCEPT ![f] = left] /\ UNCHANGED backup
    BY <1>5
  <2>2. CASE pc = "backup"
    <3>1. [backup[Dir(job.from)] EXCEPT ![f] = left] \in Tree
      BY <1>1 DEF Tree
    <3>2. backup' = [backup EXCEPT ![Dir(job.from)] = [backup[Dir(job.from)] EXCEPT ![f] = left]]
      BY <2>1, <2>2
    <3>3. QED
      BY <1>1, <1>3, <2>1, <2>2, <3>1, <3>2
  <2>3. CASE pc # "backup"
    <3>1. tree' \in Tree
      BY <1>1, <2>1, <2>3 DEF Tree
    <3>2. QED
      BY <1>1, <1>3, <2>1, <2>3, <3>1
  <2>4. QED
    BY <2>2, <2>3
<1>6. QED
  BY <1>4, <1>5 DEF CutShort


Kinds == {"none", "plain", "transaction", "rollback"}
Jobs == [kind : Kinds, to : Versions, from : Versions]
Results == {"none", "ok", "refused", "rolled back", "raised", "crashed"}
Answering == {"up", "down"}
Stages == {"idle", "dead", "backup", "stop", "remove", "copy", "start", "health",
           "undo-remove", "undo-copy"}

\* What each part of the state may be, before the names above.
TypeParts ==
    /\ tree \in Tree /\ backup \in [Dirs -> Tree]
    /\ state \in States /\ saved \in States
    /\ service \in Answering /\ pc \in Stages /\ job \in Jobs /\ todo \subseteq Files
    /\ result \in Results /\ spoiled \in BOOLEAN
    /\ calls \in 0..MaxUpdates /\ errors \in 0..MaxErrors /\ crashes \in 0..MaxCrashes

LEMMA TypeByParts == TypeOK <=> TypeParts
BY DEF TypeOK, TypeParts, States, Answering, Stages, Jobs, Kinds, Results

\* An error within the budget keeps the count in its range.
LEMMA MishapType ==
  ASSUME TypeParts, NEW bad \in BOOLEAN, Mishap(bad)
  PROVE  errors' \in 0..MaxErrors
BY UpdateAssumption DEF TypeParts, Mishap

LEMMA CallType ==
  ASSUME TypeParts, Call
  PROVE  calls' \in 0..MaxUpdates
BY UpdateAssumption DEF TypeParts, Call

LEMMA EndType == NoJob \in Jobs
BY UpdateAssumption DEF NoJob, Jobs, Kinds

LEMMA TypeStep ==
  ASSUME TypeOK, KindsOfStage, Loaded, [Next]_vars
  PROVE  TypeOK' /\ KindsOfStage' /\ Loaded'
<1> SUFFICES TypeParts' /\ KindsOfStage' /\ Loaded'
  BY TypeByParts DEF TypeParts, TypeOK, States, Answering, Stages, Jobs, Kinds, Results
<1>0. TypeParts
  BY TypeByParts
<1> USE <1>0
<1>1. CASE Refuse
  BY <1>1, EndType, CallType
     DEF Refuse, Call, End, TypeParts, KindsOfStage, Loaded, Results, Stages
<1>2. CASE Register
  <2>1. Noted \in States /\ Noted.readable /\ Noted.backups = Append(state.backups, Dir(job.from))
    BY <1>2, NotedType DEF Register
  <2>2. Noted.backups # <<>>
    BY <2>1, AppendElements, DirNames DEF TypeParts, States, Jobs
  <2>3. Lacking(tree, Has[job.to]) \subseteq Files
    BY DEF Lacking, Present
  <2>4. QED
    BY <1>2, <2>1, <2>2, <2>3
       DEF Register, TypeParts, KindsOfStage, Loaded, Stages, counters, Jobs, Kinds
<1>3. CASE Removed
  <2>1. job.to \in Versions /\ Has[job.to] \subseteq Files
    BY UpdateAssumption DEF TypeParts, Jobs
  <2>2. Present(backup[Last]) \subseteq Files
    BY DEF Present
  <2>3. QED
    BY <1>3, <2>1, <2>2 DEF Removed, TypeParts, KindsOfStage, Loaded, Stages, counters
<1>4. CASE Commit
  <2>1. Noted \in States /\ Noted.readable /\ Noted.backups = state.backups
    BY <1>4, NotedType DEF Commit
  <2>2. QED
    BY <1>4, <2>1, EndType
       DEF Commit, End, TypeParts, KindsOfStage, Loaded, Stages, Results, counters
<1>5. CASE Rollback
  <2>1. [kind |-> "rollback", to |-> First, from |-> state.version] \in Jobs
    BY UpdateAssumption DEF TypeParts, States, Jobs, Kinds
  <2>2. Undone(tree) \subseteq Files
    BY DEF Undone, Lacking, Present
  <2>3. QED
    BY <1>5, <2>1, <2>2, CallType
       DEF Rollback, Call, StartUndo, TypeParts, KindsOfStage, Loaded, Stages, Results
<1>6. CASE Undo
  <2>1. Noted \in States /\ Noted.readable /\ Noted.backups = state.backups
    BY <1>6, NotedType DEF Undo
  <2>2. QED
    BY <1>6, <2>1, EndType
       DEF Undo, End, TypeParts, KindsOfStage, Loaded, Stages, Results, counters
<1>7. CASE ReplaceFails
  <2>1. /\ pc \in {"remove", "copy"} /\ state.backups # <<>>
        /\ job.kind = "transaction"
    BY <1>7 DEF ReplaceFails, Loaded
  <2>2. state' \in States /\ state'.readable /\ state'.backups # <<>>
    <3>1. CASE Saving
      <4>1. pc = "copy"
        BY <2>1, <3>1 DEF Saving
      <4>2. QED
        BY <1>7, <2>1, <3>1, <4>1, NotedType DEF ReplaceFails
    <3>2. CASE ~Saving
      BY <1>7, <2>1, <3>2 DEF ReplaceFails, Loaded, TypeParts
    <3>3. QED
      BY <3>1, <3>2
  <2>3. tree' \in Tree /\ backup' \in [Dirs -> Tree] /\ saved' \in States
    BY <1>7, CutShortType DEF ReplaceFails
  <2>4. todo' \subseteq Files /\ pc' = "undo-remove"
    BY <1>7 DEF ReplaceFails, StartUndo, Undone, Lacking, Present
  <2>5. errors' \in 0..MaxErrors
    BY <1>7, MishapType DEF ReplaceFails
  <2>6. QED
    BY <1>7, <2>1, <2>2, <2>3, <2>4, <2>5 DEF ReplaceFails, TypeParts, KindsOfStage, Loaded, Stages
<1>8. CASE Raise
  <2>1. state' \in States /\ state'.readable
    BY <1>8, NotedType DEF Raise, Loaded, TypeParts
  <2>2. tree' \in Tree /\ backup' \in [Dirs -> Tree] /\ saved' \in States
    BY <1>8, CutShortType DEF Raise
  <2>3. errors' \in 0..MaxErrors
    BY <1>8, MishapType DEF Raise
  <2>4. QED
    BY <1>8, <2>1, <2>2, <2>3, EndType
       DEF Raise, End, TypeParts, KindsOfStage, Loaded, Stages, Results
<1>9. CASE Crash
  <2>1. tree' \in Tree /\ backup' \in [Dirs -> Tree] /\ saved' \in States
    BY <1>9, CutShortType DEF Crash
  <2>2. crashes' \in 0..MaxCrashes
    BY <1>9, UpdateAssumption DEF Crash, TypeParts
  <2>3. job' \in Jobs
    BY <1>9, EndType DEF Crash, TypeParts
  <2>4. QED
    BY <1>9, <2>1, <2>2, <2>3 DEF Crash, TypeParts, KindsOfStage, Loaded, Stages
<1>10. CASE Reopen
  BY <1>10, EndType DEF Reopen, End, TypeParts, KindsOfStage, Loaded, Stages, Results, counters
<1>11. ASSUME NEW v \in Versions, NEW kind \in {"plain", "transaction"}, Begin(v, kind)
       PROVE  TypeParts' /\ KindsOfStage' /\ Loaded'
  <2>1. [kind |-> kind, to |-> v, from |-> state.version] \in Jobs
    BY DEF TypeParts, States, Jobs, Kinds
  <2>2. Backed(v) \subseteq Files
    BY DEF Backed, Present
  <2>3. backup' \in [Dirs -> Tree]
    <3>1. Empty \in Tree
      BY DEF Empty, Tree
    <3>2. QED
      BY <1>11, <3>1 DEF Begin, TypeParts
  <2>4. QED
    BY <1>11, <2>1, <2>2, <2>3, CallType
       DEF Begin, Call, TypeParts, KindsOfStage, Loaded, Stages, Results
<1>12. ASSUME NEW f \in Files, BackupOne(f)
       PROVE  TypeParts' /\ KindsOfStage' /\ Loaded'
  <2>1. backup' \in [Dirs -> Tree]
    <3>1. Dir(job.from) \in Dirs /\ tree[f] \in Versions \cup {Gone, Partial}
      BY DirNames DEF TypeParts, Jobs, Tree
    <3>2. [backup[Dir(job.from)] EXCEPT ![f] = tree[f]] \in Tree
      BY <3>1 DEF TypeParts, Tree
    <3>3. backup' = [backup EXCEPT ![Dir(job.from)] = [backup[Dir(job.from)] EXCEPT ![f] = tree[f]]]
      BY <1>12 DEF BackupOne
    <3>4. QED
      BY <3>1, <3>2, <3>3 DEF TypeParts
  <2>2. QED
    BY <1>12, <2>1 DEF BackupOne, TypeParts, KindsOfStage, Loaded, counters
<1>13. ASSUME NEW f \in Files, RemoveOne(f)
       PROVE  TypeParts' /\ KindsOfStage' /\ Loaded'
  <2>1. tree' \in Tree
    BY <1>13 DEF RemoveOne, TypeParts, Tree
  <2>2. QED
    BY <1>13, <2>1 DEF RemoveOne, TypeParts, KindsOfStage, Loaded, counters
<1>14. ASSUME NEW f \in Files, CopyOne(f)
       PROVE  TypeParts' /\ KindsOfStage' /\ Loaded'
  <2>1. tree' \in Tree
    <3>1. CASE pc = "copy"
      BY <1>14, <3>1 DEF CopyOne, TypeParts, Jobs, Tree
    <3>2. CASE pc = "undo-copy"
      <4>1. backup[Last] \in Tree
        BY <3>2, LastType DEF Loaded
      <4>2. QED
        BY <1>14, <3>2, <4>1 DEF CopyOne, TypeParts, Tree
    <3>3. QED
      BY <1>14, <3>1, <3>2 DEF CopyOne
  <2>2. QED
    BY <1>14, <2>1 DEF CopyOne, TypeParts, KindsOfStage, Loaded, counters
<1>15. ASSUME NEW answer \in Answers, Stop(answer)
       PROVE  TypeParts' /\ KindsOfStage' /\ Loaded'
  <2>1. errors' \in 0..MaxErrors
    BY <1>15, MishapType DEF Stop, Succeeded
  <2>2. todo' \subseteq Files /\ pc' \in {"remove", "undo-remove"} /\ service' \in Answering
    BY <1>15 DEF Stop, StartUndo, Undone, Lacking, Present, Answering
  <2>3. QED
    BY <1>15, <2>1, <2>2 DEF Stop, TypeParts, KindsOfStage, Loaded, Stages
<1>16. ASSUME NEW answer \in Answers, Start(answer)
       PROVE  TypeParts' /\ KindsOfStage' /\ Loaded'
  <2>1. errors' \in 0..MaxErrors
    BY <1>16, MishapType DEF Start, Succeeded
  <2>2. todo' \subseteq Files /\ pc' \in {"health", "undo-remove"} /\ service' \in Answering
    BY <1>16 DEF Start, StartUndo, Undone, Lacking, Present, Answering, TypeParts
  <2>3. QED
    BY <1>16, <2>1, <2>2 DEF Start, TypeParts, KindsOfStage, Loaded, Stages
<1>17. ASSUME NEW answer \in Answers, CheckHealth(answer)
       PROVE  TypeParts' /\ KindsOfStage' /\ Loaded'
  <2>1. errors' \in 0..MaxErrors
    BY <1>17, MishapType DEF CheckHealth, Succeeded
  <2>2. CASE Succeeded(answer) /\ End("ok")
    BY <1>17, <2>1, <2>2, EndType
       DEF CheckHealth, End, TypeParts, KindsOfStage, Loaded, Stages, Results
  <2>3. CASE StartUndo(tree) /\ UNCHANGED <<job, result>>
    <3>1. todo' \subseteq Files /\ pc' = "undo-remove"
      BY <2>3 DEF StartUndo, Undone, Lacking, Present
    <3>2. QED
      BY <1>17, <2>1, <2>3, <3>1 DEF CheckHealth, TypeParts, KindsOfStage, Loaded, Stages
  <2>4. QED
    BY <1>17, <2>2, <2>3 DEF CheckHealth
<1>18. CASE UNCHANGED vars
  BY <1>18 DEF vars, task, counters, TypeParts, KindsOfStage, Loaded
<1>19. QED
  BY <1>1, <1>2, <1>3, <1>4, <1>5, <1>6, <1>7, <1>8, <1>9, <1>10, <1>11, <1>12, <1>13,
     <1>14, <1>15, <1>16, <1>17, <1>18 DEF Next

-----------------------------------------------------------------------------
(* What each stage keeps                                                   *)

Sound == Progress /\ BackupsComplete /\ CanUndo

LEMMA SoundInit == Init => Sound
<1> SUFFICES ASSUME Init PROVE Sound
  OBVIOUS
<1>1. Progress
  BY DEF Init, Progress
<1>2. BackupsComplete
  <2>1. DOMAIN state.backups = {}
    BY DEF Init
  <2>2. QED
    BY <2>1 DEF BackupsComplete
<1>3. QED
  BY <1>1, <1>2 DEF Init, Sound, CanUndo

\* A step that touches no backup on record leaves the backups complete.
LEMMA BackupsKept ==
  ASSUME BackupsComplete, pc \notin {"dead", "backup"},
         backup' = backup, state'.backups = state.backups
  PROVE  BackupsComplete'
BY DEF BackupsComplete, Complete

\* And the call can be undone as before.
LEMMA UndoKept ==
  ASSUME CanUndo, pc \notin {"idle", "backup"}, job' = job, backup' = backup,
         state'.backups = state.backups, saved' = saved \/ saved'.readable = FALSE
  PROVE  CanUndo'
BY DEF CanUndo, Reversible, ReturnsTo

\* Where the undo starts, what it need not remove agrees with the backup.
LEMMA UndoStarts ==
  ASSUME StartUndo(tree'), backup'[Last'] = backup[Last]
  PROVE  Progress'
<1>1. ASSUME NEW f \in Files \ todo', backup[Last][f] = Gone
      PROVE  tree'[f] = Gone
  BY <1>1 DEF StartUndo, Undone, Lacking, Present
<1>2. QED
  BY <1>1 DEF StartUndo, Progress

LEMMA RegisterSound ==
  ASSUME UpdateInv, ~spoiled, Register
  PROVE  Sound'
<1>1. /\ pc = "backup" /\ todo = {} /\ tree \in Tree /\ job.from \in Versions
      /\ backup \in [Dirs -> Tree] /\ state.backups \in Seq(Dirs)
      /\ BackupsComplete /\ Progress
  BY DEF UpdateInv, TypeOK, Register, Saving
<1>2. state' = Noted /\ saved' = Noted /\ Noted.backups = Append(state.backups, Dir(job.from))
  BY NotedType DEF Register, UpdateInv
<1>3. backup[Dir(job.from)] = TreeOf(job.from)
  <2>1. \A f \in Files : backup[Dir(job.from)][f] = tree[f]
    BY <1>1 DEF Progress
  <2>2. Dir(job.from) \in Dirs
    BY <1>1, DirNames
  <2>3. QED
    BY <1>1, <2>1, <2>2, TreeExtensional DEF Progress
<1>4. Complete(Dir(job.from))
  BY <1>1, <1>3, DirNames DEF Complete
<1>5. CanUndo'
  <2>1. ReturnsTo(Noted, job.from)
    BY <1>1, <1>2, AppendElements, DirNames DEF ReturnsTo
  <2>2. QED
    BY <1>2, <1>3, <2>1 DEF Register, CanUndo, Reversible, ReturnsTo
<1>6. BackupsComplete'
  <2>1. \A i \in DOMAIN state.backups : Complete(state.backups[i])
    BY <1>1, <1>4 DEF BackupsComplete
  <2>2. \A i \in DOMAIN Noted.backups : Complete(Noted.backups[i])
    BY <1>1, <1>2, <1>4, <2>1, AppendElements, DirNames
  <2>3. QED
    BY <1>2, <2>2 DEF BackupsComplete, Complete, Register
<1>7. Progress'
  BY <1>1 DEF Register, Progress, Lacking, Present
<1>8. QED
  BY <1>5, <1>6, <1>7 DEF Sound

LEMMA BeginSound ==
  ASSUME UpdateInv, ~spoiled, NEW v \in Versions, NEW kind \in {"plain", "transaction"},
         Begin(v, kind)
  PROVE  Sound'
<1>1. /\ pc = "idle" /\ state.version \in Versions /\ backup \in [Dirs -> Tree]
      /\ state.backups \in Seq(Dirs) /\ Progress /\ BackupsComplete
      /\ pc' = "backup" /\ job'.from = state.version /\ UNCHANGED <<tree, state, saved>>
      /\ todo' = Present(tree)
      /\ backup' = [backup EXCEPT ![Dir(state.version)] = Empty]
  BY DEF UpdateInv, TypeOK, Begin, Call, Backed
<1>2. Dir(state.version) \in Dirs
  BY <1>1, DirNames
<1>3. Progress'
  <2>1. \A f \in Files \ todo' : backup'[Dir(state.version)][f] = tree[f]
    BY <1>1, <1>2 DEF Present, Empty
  <2>2. tree = TreeOf(state.version) /\ saved = state
    BY <1>1 DEF Progress
  <2>3. QED
    BY <1>1, <2>1, <2>2 DEF Progress
<1>4. BackupsComplete'
  <2>1. ASSUME NEW i \in DOMAIN state.backups, state.backups[i] # Dir(state.version)
        PROVE  Complete(state.backups[i])'
    <3>1. state.backups[i] \in Dirs
      BY <1>1
    <3>2. QED
      BY <1>1, <2>1, <3>1 DEF BackupsComplete, Complete
  <2>2. QED
    BY <1>1, <2>1 DEF BackupsComplete
<1>5. QED
  BY <1>1, <1>3, <1>4 DEF Sound, CanUndo

LEMMA BackupOneSound ==
  ASSUME UpdateInv, ~spoiled, NEW f \in Files, BackupOne(f)
  PROVE  Sound'
<1>1. /\ pc = "backup" /\ pc' = pc /\ job.from \in Versions /\ backup \in [Dirs -> Tree]
      /\ state.backups \in Seq(Dirs) /\ Progress /\ BackupsComplete
      /\ UNCHANGED <<tree, state, saved, job>> /\ todo' = todo \ {f}
      /\ backup' = [backup EXCEPT ![Dir(job.from)][f] = tree[f]]
  BY DEF UpdateInv, TypeOK, BackupOne
<1>2. Dir(job.from) \in Dirs /\ backup[Dir(job.from)] \in Tree
  BY <1>1, DirNames
<1>3. Progress'
  <2>1. \A g \in Files : backup'[Dir(job.from)][g] =
                            IF g = f THEN tree[f] ELSE backup[Dir(job.from)][g]
    BY <1>1, <1>2 DEF Tree
  <2>2. QED
    BY <1>1, <2>1 DEF Progress
<1>4. BackupsComplete'
  <2>1. ASSUME NEW i \in DOMAIN state.backups, state.backups[i] # Dir(job.from)
        PROVE  Complete(state.backups[i])'
    <3>1. state.backups[i] \in Dirs
      BY <1>1
    <3>2. QED
      BY <1>1, <2>1, <3>1 DEF BackupsComplete, Complete
  <2>2. QED
    BY <1>1, <2>1 DEF BackupsComplete
<1>5. QED
  BY <1>1, <1>3, <1>4 DEF Sound, CanUndo

LEMMA LoopsSound ==
  ASSUME UpdateInv, ~spoiled, NEW f \in Files, RemoveOne(f) \/ CopyOne(f)
  PROVE  Sound'
<1>1. /\ pc \notin {"idle", "dead", "backup"} /\ UNCHANGED <<backup, state, saved, job, pc>>
      /\ tree \in Tree /\ Progress /\ BackupsComplete /\ CanUndo /\ todo' = todo \ {f} /\ f \in todo
      /\ Last' = Last /\ job.to \in Versions
  BY DEF UpdateInv, TypeOK, RemoveOne, CopyOne, Last
<1>2. BackupsComplete' /\ CanUndo'
  BY <1>1, BackupsKept, UndoKept
<1>3. CASE RemoveOne(f)
  BY <1>1, <1>2, <1>3 DEF RemoveOne, Progress, Tree, Sound
<1>4. CASE CopyOne(f)
  <2>1. CASE pc = "copy"
    <3>1. TreeOf(job.to)[f] = job.to
      BY <1>1, <2>1, TreeOfFiles DEF Progress
    <3>2. QED
      BY <1>1, <1>2, <1>4, <2>1, <3>1 DEF CopyOne, Progress, Tree, Sound
  <2>2. CASE pc = "undo-copy"
    BY <1>1, <1>2, <1>4, <2>2 DEF CopyOne, Progress, Tree, Sound
  <2>3. QED
    BY <1>4, <2>1, <2>2 DEF CopyOne
<1>5. QED
  BY <1>3, <1>4

LEMMA RemovedSound ==
  ASSUME UpdateInv, ~spoiled, Removed
  PROVE  Sound'
<1>1. /\ pc \notin {"idle", "dead", "backup"} /\ UNCHANGED <<tree, backup, state, saved, job>>
      /\ Progress /\ BackupsComplete /\ CanUndo /\ todo = {}
      /\ Last' = Last /\ job.to \in Versions
  BY DEF UpdateInv, TypeOK, Removed, Last, Sound
<1>2. BackupsComplete' /\ CanUndo'
  BY <1>1, BackupsKept, UndoKept
<1>3. CASE pc = "remove" /\ pc' = "copy" /\ todo' = Has[job.to]
  BY <1>1, <1>2, <1>3, TreeOfFiles DEF Progress, Sound
<1>4. CASE pc = "undo-remove" /\ pc' = "undo-copy" /\ todo' = Present(backup[Last])
  BY <1>1, <1>2, <1>4 DEF Progress, Sound, Present
<1>5. QED
  BY <1>3, <1>4 DEF Removed

LEMMA CommitSound ==
  ASSUME UpdateInv, ~spoiled, Commit
  PROVE  Sound'
<1>1. /\ pc = "copy" /\ todo = {} /\ tree \in Tree /\ job.to \in Versions
      /\ Progress /\ BackupsComplete /\ CanUndo /\ UNCHANGED <<tree, backup>>
  BY DEF UpdateInv, TypeOK, Commit, Saving
<1>2. /\ state' = Noted /\ saved' = Noted /\ Noted.backups = state.backups
      /\ Noted.version = job.to
  BY <1>1, NotedType DEF Commit, UpdateInv
<1>3. tree = TreeOf(job.to)
  BY <1>1, TreeExtensional, TreeOfFiles DEF Progress
<1>4. BackupsComplete'
  BY <1>1, <1>2, BackupsKept
<1>5. CASE job.kind = "plain"
  BY <1>1, <1>2, <1>3, <1>4, <1>5 DEF Commit, End, Progress, Sound, CanUndo
<1>6. CASE job.kind # "plain"
  <2>1. pc' = "start" /\ job' = job
    BY <1>6 DEF Commit
  <2>2. CanUndo'
    <3>1. job.kind \in {"plain", "transaction"} => Reversible
      BY <1>1 DEF CanUndo
    <3>2. QED
      BY <1>1, <1>2, <2>1, <3>1 DEF CanUndo, Reversible, ReturnsTo
  <2>3. QED
    BY <1>1, <1>2, <1>3, <1>4, <2>1, <2>2 DEF Progress, Sound
<1>7. QED
  BY <1>5, <1>6

LEMMA UndoSound ==
  ASSUME UpdateInv, ~spoiled, Undo
  PROVE  Sound'
<1>1. /\ pc = "undo-copy" /\ todo = {} /\ tree \in Tree
      /\ Progress /\ BackupsComplete /\ UNCHANGED <<tree, backup>>
      /\ pc' = "idle" /\ state.backups # <<>> /\ TypeOK
  BY DEF UpdateInv, TypeOK, Undo, Saving, End, Loaded
<1>2. /\ state' = Noted /\ saved' = Noted /\ Noted.backups = state.backups
      /\ Noted.version = VersionOf(Last)
  BY <1>1, NotedType DEF Undo, UpdateInv
<1>3. tree = TreeOf(VersionOf(Last))
  <2>1. Complete(Last)
    BY <1>1, LastType DEF BackupsComplete, Last
  <2>2. tree = backup[Last]
    BY <1>1, TreeExtensional, LastType DEF Progress
  <2>3. QED
    BY <2>1, <2>2 DEF Complete
<1>4. BackupsComplete'
  BY <1>1, <1>2, BackupsKept
<1>5. QED
  BY <1>1, <1>2, <1>3, <1>4 DEF Progress, Sound, CanUndo

LEMMA HooksSound ==
  ASSUME UpdateInv, ~spoiled, NEW answer \in Answers,
         Stop(answer) \/ Start(answer) \/ CheckHealth(answer)
  PROVE  Sound'
<1>1. /\ pc \in {"stop", "start", "health"} /\ UNCHANGED <<tree, backup, state, saved>>
      /\ Progress /\ BackupsComplete /\ CanUndo /\ Last' = Last
  BY DEF UpdateInv, Stop, Start, CheckHealth, Last
<1>2. BackupsComplete'
  BY <1>1, BackupsKept
<1>3. CASE StartUndo(tree) /\ job' = job
  <2>1. Progress'
    BY <1>1, <1>3, UndoStarts
  <2>2. QED
    BY <1>1, <1>2, <1>3, <2>1, UndoKept DEF Sound
<1>4. CASE pc = "stop" /\ pc' = "remove" /\ todo' = Lacking(tree, Has[job.to]) /\ job' = job
  <2>1. Progress'
    BY <1>1, <1>4 DEF Progress, Lacking, Present
  <2>2. QED
    BY <1>1, <1>2, <1>4, <2>1, UndoKept DEF Sound
<1>5. CASE pc = "start" /\ pc' = "health" /\ service' = "up" /\ job' = job
  <2>1. Progress'
    BY <1>1, <1>5 DEF Progress
  <2>2. QED
    BY <1>1, <1>2, <1>5, <2>1, UndoKept DEF Sound
<1>6. CASE pc = "health" /\ pc' = "idle"
  BY <1>1, <1>2, <1>6 DEF Progress, Sound, CanUndo
<1>7. QED
  BY <1>3, <1>4, <1>5, <1>6 DEF Stop, Start, CheckHealth, End

LEMMA RollbackSound ==
  ASSUME UpdateInv, ~spoiled, Rollback
  PROVE  Sound'
<1>1. /\ pc = "idle" /\ UNCHANGED <<tree, backup, state>> /\ StartUndo(tree)
      /\ BackupsComplete /\ Last' = Last /\ job'.kind = "rollback"
  BY DEF UpdateInv, Rollback, Call, Last
<1>2. QED
  BY <1>1, BackupsKept, UndoStarts DEF Sound, CanUndo

LEMMA FailureSound ==
  ASSUME UpdateInv, ~spoiled, ReplaceFails
  PROVE  Sound'
<1>1. /\ pc \in {"remove", "copy"} /\ job' = job /\ StartUndo(tree')
      /\ BackupsComplete /\ CanUndo
  BY DEF UpdateInv, ReplaceFails
<1>2. backup' = backup /\ (saved' = saved \/ saved'.readable = FALSE)
  BY <1>1, CutShortType DEF UpdateInv, ReplaceFails
<1>3. state'.backups = state.backups
  <2>1. CASE Saving
    BY <1>1, <2>1, NotedType DEF ReplaceFails, UpdateInv, Saving
  <2>2. QED
    BY <2>1 DEF ReplaceFails
<1>4. Progress'
  BY <1>1, <1>2, <1>3, UndoStarts DEF Last
<1>5. QED
  BY <1>1, <1>2, <1>3, <1>4, BackupsKept, UndoKept DEF Sound

LEMMA CrashSound ==
  ASSUME UpdateInv, ~spoiled, Crash
  PROVE  Sound'
<1>1. pc' = "dead" /\ state' = state /\ CanUndo /\ pc # "idle" /\ CutShort /\ TypeOK
  BY DEF UpdateInv, Crash
<1>2. CASE pc = "backup"
  BY <1>1, <1>2 DEF Crash, NoJob, Sound, Progress, BackupsComplete, CanUndo
<1>3. CASE pc # "backup"
  <2>1. backup' = backup /\ (saved' = saved \/ saved'.readable = FALSE) /\ job' = job
    BY <1>1, <1>3, CutShortType DEF Crash
  <2>2. CanUndo'
    BY <1>1, <1>3, <2>1, UndoKept
  <2>3. QED
    BY <1>1, <2>2 DEF Sound, Progress, BackupsComplete
<1>4. QED
  BY <1>2, <1>3

LEMMA RefuseSound ==
  ASSUME UpdateInv, ~spoiled, Refuse
  PROVE  Sound'
<1>1. /\ pc = "idle" /\ pc' = "idle" /\ UNCHANGED <<tree, backup, state, saved>>
      /\ Progress /\ BackupsComplete
  BY DEF UpdateInv, Refuse, Call, End
<1>2. QED
  BY <1>1, BackupsKept DEF Progress, Sound, CanUndo

LEMMA UpdateStep == UpdateInv /\ [Next]_vars => UpdateInv'
<1> SUFFICES ASSUME UpdateInv, [Next]_vars PROVE UpdateInv'
  OBVIOUS
<1>1. TypeOK' /\ KindsOfStage' /\ Loaded'
  BY TypeStep DEF UpdateInv
<1>2. ASSUME ~spoiled', Next
      PROVE  Sound'
  <2>1. CASE Refuse
    BY <1>2, <2>1, RefuseSound DEF Refuse
  <2>2. CASE Register
    BY <1>2, <2>2, RegisterSound DEF Register
  <2>3. CASE Removed
    BY <1>2, <2>3, RemovedSound DEF Removed
  <2>4. CASE Commit
    BY <1>2, <2>4, CommitSound DEF Commit
  <2>5. CASE Rollback
    BY <1>2, <2>5, RollbackSound DEF Rollback
  <2>6. CASE Undo
    BY <1>2, <2>6, UndoSound DEF Undo
  <2>7. CASE ReplaceFails
    BY <1>2, <2>7, FailureSound DEF ReplaceFails
  <2>8. CASE Crash
    BY <1>2, <2>8, CrashSound DEF Crash
  <2>9. CASE Raise
    BY <1>2, <2>9 DEF Raise
  <2>10. CASE Reopen
    BY <1>2, <2>10 DEF Reopen
  <2>11. ASSUME NEW v \in Versions, NEW kind \in {"plain", "transaction"}, Begin(v, kind)
        PROVE  Sound'
    BY <1>2, <2>11, BeginSound DEF Begin
  <2>12. ASSUME NEW f \in Files, BackupOne(f)
        PROVE  Sound'
    BY <1>2, <2>12, BackupOneSound DEF BackupOne
  <2>13. ASSUME NEW f \in Files, RemoveOne(f) \/ CopyOne(f)
        PROVE  Sound'
    BY <1>2, <2>13, LoopsSound DEF RemoveOne, CopyOne
  <2>14. ASSUME NEW answer \in Answers, Stop(answer) \/ Start(answer) \/ CheckHealth(answer)
        PROVE  Sound'
    BY <1>2, <2>14, HooksSound DEF Stop, Start, CheckHealth
  <2>15. QED
    BY <1>2, <2>1, <2>2, <2>3, <2>4, <2>5, <2>6, <2>7, <2>8, <2>9, <2>10, <2>11, <2>12, <2>13, <2>14 DEF Next
<1>3. ASSUME ~spoiled', UNCHANGED vars
      PROVE  Sound'
  BY <1>3 DEF vars, task, counters, UpdateInv, Sound, Progress, BackupsComplete, CanUndo,
              Complete, Reversible, Last
<1>4. QED
  BY <1>1, <1>2, <1>3 DEF UpdateInv, Sound

(* Every stage of an update stands where UpdateInv says, also after errors, *)
(* crashes and rollbacks of several updates in a row.                      *)
THEOREM UpdateSound == Spec => []UpdateInv
<1>1. Init => UpdateInv
  BY TypeInit, SoundInit DEF UpdateInv, Sound
<1>2. QED
  BY <1>1, UpdateStep, PTL DEF Spec

-----------------------------------------------------------------------------
(* The properties                                                          *)

(* The state of the updater has its type.                                   *)
THEOREM TypeCorrect == Spec => []TypeOK
<1>1. UpdateInv => TypeOK
  BY DEF UpdateInv
<1>2. QED
  BY <1>1, UpdateSound, PTL

(* Between calls none of which an exception or a crash cut short, the tree  *)
(* is exactly that of the version on record, in memory and on the disk.    *)
THEOREM AllOrNothingHolds == Spec => []AllOrNothing
<1>1. UpdateInv => AllOrNothing
  BY DEF UpdateInv, Progress, AllOrNothing
<1>2. QED
  BY <1>1, UpdateSound, PTL

(* From the end of its backup on, a transaction that began on a sound tree  *)
(* can be undone, from memory and from what a dead updater left.           *)
THEOREM UndoHolds == Spec => []UndoAlwaysPossible
<1>1. UpdateInv => UndoAlwaysPossible
  BY DEF UpdateInv, UndoAlwaysPossible, CanUndo, Reversible, ReturnsTo, KindsOfStage, NoJob
<1>2. QED
  BY <1>1, UpdateSound, PTL

Honest ==
    job.kind = "transaction" /\ pc' = "idle" /\ ~spoiled' =>
        /\ result' = "ok" => state'.version = job.to /\ service' = "up"
        /\ result' = "rolled back" => state'.version = job.from

\* Only two steps end a transaction that nothing cut short.
LEMMA HonestStep == UpdateInv /\ [Next]_vars => Honest
<1> SUFFICES ASSUME UpdateInv, [Next]_vars,
                    job.kind = "transaction", pc' = "idle", ~spoiled'
             PROVE  /\ result' = "ok" => state'.version = job.to /\ service' = "up"
                    /\ result' = "rolled back" => state'.version = job.from
  BY DEF Honest
<1>1. pc # "idle"
  BY DEF UpdateInv, KindsOfStage, NoJob
<1>2. CASE Undo
  <2>1. pc = "undo-copy" /\ ~spoiled /\ result' = "rolled back" /\ state' = Noted
    BY <1>2 DEF Undo, End
  <2>2. Noted.version = VersionOf(Last)
    BY <1>2, <2>1, NotedType DEF Undo, UpdateInv
  <2>3. Last = Dir(job.from) /\ job.from \in Versions
    BY <2>1 DEF UpdateInv, TypeOK, CanUndo, Reversible, ReturnsTo, Last
  <2>4. QED
    BY <2>1, <2>2, <2>3, DirNames
<1>3. CASE \E answer \in Answers : CheckHealth(answer)
  BY <1>3 DEF CheckHealth, StartUndo, End, UpdateInv, Progress
<1>4. CASE Commit
  BY <1>4 DEF Commit, UpdateInv, KindsOfStage
<1>5. CASE Refuse \/ Rollback \/ \E v \in Versions, kind \in {"plain", "transaction"} : Begin(v, kind)
  BY <1>1, <1>5 DEF Refuse, Rollback, Begin, Call
<1>6. CASE Raise \/ Reopen
  BY <1>6 DEF Raise, Reopen
<1>7. CASE Register \/ Removed \/ ReplaceFails \/ Crash
  BY <1>7 DEF Register, Removed, ReplaceFails, StartUndo, Crash
<1>8. CASE \E f \in Files : BackupOne(f) \/ RemoveOne(f) \/ CopyOne(f)
  BY <1>1, <1>8 DEF BackupOne, RemoveOne, CopyOne
<1>9. CASE \E answer \in Answers : Stop(answer) \/ Start(answer)
  BY <1>9 DEF Stop, Start, StartUndo
<1>10. CASE UNCHANGED vars
  BY <1>1, <1>10 DEF vars, task
<1>11. QED
  BY <1>2, <1>3, <1>4, <1>5, <1>6, <1>7, <1>8, <1>9, <1>10 DEF Next

(* A transaction that reports success left its version, running; one that   *)
(* was rolled back left the version it found, also after earlier updates.  *)
THEOREM OutcomeHolds == Spec => OutcomeIsHonest
<1>1. UpdateInv /\ [Next]_vars => [Honest]_vars
  BY HonestStep
<1>2. QED
  BY <1>1, UpdateSound, PTL DEF Spec, OutcomeIsHonest, Honest


-----------------------------------------------------------------------------
(* Processes                                                                *)
-----------------------------------------------------------------------------
Processes == [born : Nat, parent : Numbers \cup {"none", Procs!InitProcess}, up : BOOLEAN, held : BOOLEAN]
ProcPlaces == {"idle", "spawn", "record", "decide", "snapshot", "kill", "residual", "answer"}
ProcCodes == {"none", "NOT_FOUND", "IDENTITY_MISMATCH", "IDENTITY_REQUIRED", "PROTECTED", "RESIDUAL_CHILDREN"}
ProcCalls == [at : ProcPlaces, kind : {"none", "start", "terminate", "restart"}, pid : Numbers \cup {"none"},
          expect : SUBSET Nat, todo : SUBSET Numbers, snap : SUBSET Numbers, meant : SUBSET (Numbers \X Nat),
          ok : BOOLEAN, code : ProcCodes]

(***************************************************************************)
(* A call c while the processes are ps and the API has launched lc: until  *)
(* it kills, what is alive under a number of it is meant; when it has      *)
(* killed, nothing it meant is alive.                                      *)
(***************************************************************************)
ProcCallOK(c, ps, lc) ==
    /\ c.at # "idle" => c.pid \in Numbers
    /\ c.todo \subseteq c.snap
    /\ c.at \in {"decide", "snapshot"} => c.snap = {}
    /\ c.at \in {"spawn", "record"} => c.kind # "terminate"
    /\ c.at = "record" => ps[c.pid].born \in lc \cup {Procs!Unknown}
    /\ c.at \in {"snapshot", "kill"} =>
           \A q \in {c.pid} \cup c.snap : ps[q].up => <<q, ps[q].born>> \in c.meant
    /\ c.at \in {"snapshot", "kill", "residual"} => \A m \in c.meant : m[1] \in {c.pid} \cup c.snap
    /\ c.at = "residual" /\ c.ok => ~ps[c.pid].up
    /\ c.at = "answer" /\ c.kind = "terminate" /\ c.ok =>
           \A m \in c.meant : m[1] \in {c.pid} \cup c.snap /\ ~ps[m[1]].up

ProcInv ==
    /\ procs \in [Numbers -> Processes] /\ reg \in [Numbers -> SUBSET Nat]
    /\ call \in [Workers -> ProcCalls]
    /\ births \in Nat /\ launched \subseteq Nat
    /\ ~wrong
    /\ \A p \in Numbers : reg[p] \subseteq launched \cup {Procs!Unknown}
    /\ \A t \in Workers : ProcCallOK(call[t], procs, launched)

LEMMA ProcStarts == Procs!Init => ProcInv
<1> SUFFICES ASSUME Procs!Init PROVE ProcInv
  OBVIOUS
<1>1. Procs!NoProcess \in Processes /\ Procs!Quiet \in ProcCalls
  BY DEF Procs!NoProcess, Processes, Procs!Quiet, ProcCalls, ProcPlaces, ProcCodes
<1>2. ProcCallOK(Procs!Quiet, procs, launched)
  BY DEF ProcCallOK, Procs!Quiet
<1>3. QED
  BY <1>1, <1>2 DEF Procs!Init, ProcInv

\* What was m is m still, or is down or gone.
ProcSettles(n, m) == n.born \in {0, m.born} /\ (n.up => m.up /\ n.born = m.born)

(* A call keeps what it knows when what it uses is not born anew.           *)
LEMMA ProcKept ==
  ASSUME ProcInv, NEW u \in Workers, procs' \in [Numbers -> Processes], launched \subseteq launched',
         \A q \in Numbers : ProcSettles(procs'[q], procs[q]) \/ q \notin Procs!Uses(u)
  PROVE  ProcCallOK(call[u], procs', launched')
<1> DEFINE c == call[u]
<1>1. c \in ProcCalls /\ ProcCallOK(c, procs, launched) /\ c.snap \subseteq Numbers /\ c.meant \subseteq Numbers \X Nat
  BY DEF ProcInv, ProcCalls
<1>2. CASE c.at = "idle"
  BY <1>1, <1>2 DEF ProcCallOK
<1>3. CASE c.at # "idle"
  <2>1. c.pid \in Numbers /\ \A q \in {c.pid} \cup c.snap : q \in Numbers /\ ProcSettles(procs'[q], procs[q])
    BY <1>1, <1>3 DEF ProcCallOK, Procs!Uses, Procs!At
  <2>2. c.at \in {"snapshot", "kill"} =>
           \A q \in {c.pid} \cup c.snap : procs'[q].up => <<q, procs'[q].born>> \in c.meant
    BY <1>1, <2>1 DEF ProcCallOK, ProcSettles
  <2>3. c.at = "record" => procs'[c.pid].born \in launched' \cup {Procs!Unknown}
    BY <1>1, <2>1 DEF ProcCallOK, ProcSettles, Procs!Unknown
  <2>4. /\ c.at = "residual" /\ c.ok => ~procs'[c.pid].up
        /\ c.at = "answer" /\ c.kind = "terminate" /\ c.ok =>
             \A m \in c.meant : m[1] \in {c.pid} \cup c.snap /\ ~procs'[m[1]].up
    BY <1>1, <2>1 DEF ProcCallOK, ProcSettles
  <2>5. QED
    BY <1>1, <2>2, <2>3, <2>4 DEF ProcCallOK
<1>4. QED
  BY <1>2, <1>3

(* So it is enough to look at the call that moves.                          *)
LEMMA ProcOneMoves ==
  ASSUME ProcInv, NEW t \in Workers, NEW c \in ProcCalls, call' = [call EXCEPT ![t] = c],
         procs' \in [Numbers -> Processes], launched \subseteq launched',
         \A u \in Workers \ {t} : \A q \in Numbers : ProcSettles(procs'[q], procs[q]) \/ q \notin Procs!Uses(u),
         ProcCallOK(c, procs', launched')
  PROVE  call' \in [Workers -> ProcCalls] /\ \A u \in Workers : ProcCallOK(call'[u], procs', launched')
<1>1. call \in [Workers -> ProcCalls]
  BY DEF ProcInv
<1>2. \A u \in Workers \ {t} : call'[u] = call[u] /\ ProcCallOK(call[u], procs', launched')
  BY <1>1, ProcKept
<1>3. QED
  BY <1>1, <1>2

LEMMA ProcSettlesItself == ASSUME NEW m PROVE ProcSettles(m, m)
BY DEF ProcSettles

\* What becomes of a process that ends, and of its children.
ProcEnded(m) == [m EXCEPT !.up = FALSE]
ProcMoved(m) == [m EXCEPT !.parent = Procs!InitProcess]

(* A process that ends, or that nobody waits for any more.                  *)
LEMMA ProcDeadSettles ==
  ASSUME ProcInv, NEW p \in Numbers, NEW freed \in BOOLEAN, NEW ps, ps = Procs!Dead(p, freed)
  PROVE  /\ ps \in [Numbers -> Processes] /\ ~ps[p].up
         /\ \A q \in Numbers : ProcSettles(ps[q], procs[q])
<1>1. \A q \in Numbers : procs[q] \in Processes
  BY DEF ProcInv
<1>2. Procs!NoProcess \in Processes /\ ~Procs!NoProcess.up /\ Procs!NoProcess.born = 0
  BY DEF Procs!NoProcess, Processes
<1>3. \A q \in Numbers :
         /\ ProcEnded(procs[q]) \in Processes /\ ProcEnded(procs[q]).born = procs[q].born /\ ~ProcEnded(procs[q]).up
         /\ ProcMoved(procs[q]) \in Processes /\ ProcMoved(procs[q]).born = procs[q].born /\ ProcMoved(procs[q]).up = procs[q].up
  BY <1>1 DEF Processes, ProcEnded, ProcMoved
<1>4. \A q \in Numbers :
         /\ ps[q] \in {Procs!NoProcess, ProcEnded(procs[q]), procs[q], ProcMoved(procs[q])}
         /\ q = p => ps[q] \in {Procs!NoProcess, ProcEnded(procs[q])}
  BY DEF Procs!Dead, ProcEnded, ProcMoved
<1>5. \A q \in Numbers : ps[q] \in Processes /\ ProcSettles(ps[q], procs[q])
  <2> TAKE q \in Numbers
  <2>1. PICK n : n = ps[q]
    OBVIOUS
  <2>2. n \in {Procs!NoProcess, ProcEnded(procs[q]), procs[q], ProcMoved(procs[q])}
    BY <1>4, <2>1
  <2>3. n \in Processes /\ ProcSettles(n, procs[q])
    BY <1>1, <1>2, <1>3, <2>2 DEF ProcSettles
  <2>4. QED
    BY <2>1, <2>3
<1>6. ~ps[p].up
  BY <1>2, <1>3, <1>4
<1>7. ps = [q \in Numbers |-> ps[q]]
  BY DEF Procs!Dead
<1>8. QED
  BY <1>5, <1>6, <1>7

(* The system.                                                              *)

LEMMA ProcBornIs ==
  ASSUME ProcInv, NEW p \in Numbers, NEW parent \in Numbers \cup {Procs!InitProcess}, NEW held \in BOOLEAN,
         NEW others \in SUBSET Workers, Procs!Born(p, parent, held, others)
  PROVE  /\ births' \in Nat /\ procs' \in [Numbers -> Processes] /\ procs'[p].born = births'
         /\ \A u \in others : \A q \in Numbers : ProcSettles(procs'[q], procs[q]) \/ q \notin Procs!Uses(u)
<1>1. births' \in Nat
  BY DEF Procs!Born, ProcInv
<1> DEFINE new == [born |-> births', parent |-> parent, up |-> TRUE, held |-> held]
<1>2. new \in Processes /\ new.born = births'
  BY <1>1 DEF Processes
<1>3. procs' = [procs EXCEPT ![p] = new] /\ \A u \in others : p \notin Procs!Uses(u)
  BY DEF Procs!Born
<1> HIDE DEF new
<1>4. \A q \in Numbers : q # p => procs'[q] = procs[q]
  BY <1>3 DEF ProcInv
<1>5. QED
  BY <1>1, <1>2, <1>3, <1>4, ProcSettlesItself DEF ProcInv

LEMMA ProcForkStep == ASSUME ProcInv, NEW p \in Numbers \cup {Procs!InitProcess}, NEW q \in Numbers, Procs!Fork(p, q) PROVE ProcInv'
<1>1. Procs!Born(q, p, FALSE, Workers) /\ UNCHANGED <<reg, call, launched, wrong>>
  BY DEF Procs!Fork
<1>2. /\ births' \in Nat /\ procs' \in [Numbers -> Processes]
      /\ \A u \in Workers : \A r \in Numbers : ProcSettles(procs'[r], procs[r]) \/ r \notin Procs!Uses(u)
  BY <1>1, ProcBornIs
<1>3. \A u \in Workers : ProcCallOK(call'[u], procs', launched')
  BY <1>1, <1>2, ProcKept
<1>4. QED
  BY <1>1, <1>2, <1>3 DEF ProcInv

LEMMA ProcExitStep == ASSUME ProcInv, NEW p \in Numbers, Procs!Exit(p) PROVE ProcInv'
<1>1. procs' = Procs!Dead(p, ~procs[p].held) /\ UNCHANGED <<reg, call, births, launched, wrong>>
  BY DEF Procs!Exit
<1>2. procs' \in [Numbers -> Processes] /\ \A q \in Numbers : ProcSettles(procs'[q], procs[q])
  BY <1>1, ProcDeadSettles DEF ProcInv, Processes
<1>3. \A u \in Workers : ProcCallOK(call'[u], procs', launched')
  BY <1>1, <1>2, ProcKept
<1>4. QED
  BY <1>1, <1>2, <1>3 DEF ProcInv

(* start_process.                                                           *)

LEMMA ProcSpawnStep ==
  ASSUME ProcInv, NEW t \in Workers, NEW c \in ProcCalls, c.kind # "terminate", c.todo \subseteq c.snap,
         NEW p \in Numbers, Procs!Spawn(t, c, p), UNCHANGED <<reg, wrong>>
  PROVE  ProcInv'
<1> DEFINE new == [c EXCEPT !.at = "record", !.pid = p]
<1>1. new \in ProcCalls /\ new.at = "record" /\ new.pid = p /\ new.kind = c.kind /\ new.snap = c.snap /\ new.todo = c.todo
  BY DEF ProcCalls, ProcPlaces, ProcCodes
<1>2. Procs!Born(p, Procs!InitProcess, TRUE, Workers \ {t}) /\ launched' = launched \cup {births'} /\ call' = [call EXCEPT ![t] = new]
  BY DEF Procs!Spawn
<1>3. /\ births' \in Nat /\ procs' \in [Numbers -> Processes] /\ procs'[p].born = births'
      /\ \A u \in Workers \ {t} : \A q \in Numbers : ProcSettles(procs'[q], procs[q]) \/ q \notin Procs!Uses(u)
  BY <1>2, ProcBornIs
<1> HIDE DEF new
<1>4. ProcCallOK(new, procs', launched')
  BY <1>1, <1>2, <1>3 DEF ProcCallOK
<1>5. call' \in [Workers -> ProcCalls] /\ \A u \in Workers : ProcCallOK(call'[u], procs', launched')
  BY <1>1, <1>2, <1>3, <1>4, ProcOneMoves
<1>6. QED
  BY <1>2, <1>3, <1>5 DEF ProcInv

LEMMA ProcStartStep == ASSUME ProcInv, NEW t \in Workers, NEW p \in Numbers, Procs!Start(t, p) PROVE ProcInv'
<1> DEFINE c == [Procs!Quiet EXCEPT !.kind = "start"]
<1>1. c \in ProcCalls /\ c.kind # "terminate" /\ c.todo \subseteq c.snap
  BY DEF Procs!Quiet, ProcCalls, ProcPlaces, ProcCodes
<1>2. Procs!Spawn(t, c, p) /\ UNCHANGED <<reg, wrong>>
  BY DEF Procs!Start
<1> HIDE DEF c
<1>3. QED
  BY <1>1, <1>2, ProcSpawnStep

LEMMA ProcRelaunchStep == ASSUME ProcInv, NEW t \in Workers, NEW p \in Numbers, Procs!Relaunch(t, p) PROVE ProcInv'
<1>1. call[t] \in ProcCalls /\ call[t].kind # "terminate" /\ call[t].todo \subseteq call[t].snap
  BY DEF Procs!Relaunch, Procs!At, ProcInv, ProcCallOK
<1>2. QED
  BY <1>1, ProcSpawnStep DEF Procs!Relaunch

(* A step of a call alone: nothing is born and nothing ends.                *)
LEMMA ProcCallMoves ==
  ASSUME ProcInv, NEW t \in Workers, NEW c \in ProcCalls, call' = [call EXCEPT ![t] = c],
         ProcCallOK(c, procs, launched), UNCHANGED <<procs, births, launched, wrong>>,
         reg' \in [Numbers -> SUBSET Nat], \A p \in Numbers : reg'[p] \subseteq launched \cup {Procs!Unknown}
  PROVE  ProcInv'
<1>1. call' \in [Workers -> ProcCalls] /\ \A u \in Workers : ProcCallOK(call'[u], procs', launched')
  BY ProcOneMoves, ProcSettlesItself DEF ProcInv
<1>2. QED
  BY <1>1 DEF ProcInv

LEMMA ProcRecordStep == ASSUME ProcInv, NEW t \in Workers, Procs!Record(t) PROVE ProcInv'
<1> DEFINE c == call[t]
           new == [c EXCEPT !.at = "answer", !.ok = TRUE]
           b == procs[c.pid].born
<1>1. c \in ProcCalls /\ ProcCallOK(c, procs, launched) /\ c.at = "record" /\ c.pid \in Numbers
  BY DEF Procs!Record, Procs!At, ProcInv, ProcCallOK
<1>2. b \in Nat /\ b \in launched \cup {Procs!Unknown} /\ c.kind # "terminate" /\ c.todo \subseteq c.snap
  BY <1>1 DEF ProcCallOK, ProcInv, Processes
<1>3. call' = [call EXCEPT ![t] = new] /\ reg' = [reg EXCEPT ![c.pid] = {b}] /\ UNCHANGED <<procs, births, launched, wrong>>
  BY DEF Procs!Record, Procs!Identity
<1>4. new \in ProcCalls /\ new.at = "answer" /\ new.kind = c.kind /\ new.pid = c.pid /\ new.snap = c.snap /\ new.todo = c.todo
  BY <1>1 DEF ProcCalls, ProcPlaces, ProcCodes
<1> HIDE DEF new, b, c
<1>5. ProcCallOK(new, procs, launched)
  BY <1>1, <1>2, <1>4 DEF ProcCallOK
<1>6. reg' \in [Numbers -> SUBSET Nat] /\ \A p \in Numbers : reg'[p] \subseteq launched \cup {Procs!Unknown}
  BY <1>1, <1>2, <1>3 DEF ProcInv
<1>7. QED
  BY <1>3, <1>4, <1>5, <1>6, ProcCallMoves

(* terminate_process and restart_process.                                   *)

LEMMA ProcBeginStep ==
  ASSUME ProcInv, NEW t \in Workers, NEW c \in ProcCalls, c.at = "decide", c.pid \in Numbers, c.todo = {}, c.snap = {},
         Procs!Begin(t, c), UNCHANGED <<procs, reg, births, launched, wrong>>
  PROVE  ProcInv'
<1>1. call' = [call EXCEPT ![t] = c]
  BY DEF Procs!Begin
<1>2. ProcCallOK(c, procs, launched)
  BY DEF ProcCallOK
<1>3. QED
  BY <1>1, <1>2, ProcCallMoves DEF ProcInv

LEMMA ProcTerminateStep ==
  ASSUME ProcInv, NEW t \in Workers, NEW p \in Numbers, NEW e \in {{}} \cup {{b} : b \in Procs!AnyOne..births}, Procs!Terminate(t, p, e)
  PROVE  ProcInv'
<1> DEFINE c == [Procs!Quiet EXCEPT !.at = "decide", !.kind = "terminate", !.pid = p, !.expect = e]
<1>1. e \in SUBSET Nat
  BY DEF Procs!AnyOne, ProcInv
<1>2. c \in ProcCalls /\ c.at = "decide" /\ c.pid = p /\ c.todo = {} /\ c.snap = {}
  BY <1>1 DEF Procs!Quiet, ProcCalls, ProcPlaces, ProcCodes
<1>3. Procs!Begin(t, c) /\ UNCHANGED <<procs, reg, births, launched, wrong>>
  BY DEF Procs!Terminate
<1> HIDE DEF c
<1>4. QED
  BY <1>2, <1>3, ProcBeginStep

LEMMA ProcRestartStep == ASSUME ProcInv, NEW t \in Workers, NEW p \in Numbers, Procs!Restart(t, p) PROVE ProcInv'
<1> DEFINE c == [Procs!Quiet EXCEPT !.at = "decide", !.kind = "restart", !.pid = p]
<1>1. c \in ProcCalls /\ c.at = "decide" /\ c.pid = p /\ c.todo = {} /\ c.snap = {}
  BY DEF Procs!Quiet, ProcCalls, ProcPlaces, ProcCodes
<1>2. Procs!Begin(t, c) /\ UNCHANGED <<procs, reg, births, launched, wrong>>
  BY DEF Procs!Restart
<1> HIDE DEF c
<1>3. QED
  BY <1>1, <1>2, ProcBeginStep

(* A call that ends, and one that goes on.                                  *)
LEMMA ProcEndsOK ==
  ASSUME ProcInv, NEW t \in Workers, NEW code \in ProcCodes, NEW ok \in BOOLEAN, Procs!Ends(t, code, ok),
         call[t].at # "idle",
         ok => \A m \in call[t].meant : m[1] \in {call[t].pid} \cup call[t].snap /\ ~procs[m[1]].up
  PROVE  \E c \in ProcCalls : call' = [call EXCEPT ![t] = c] /\ ProcCallOK(c, procs, launched)
<1> DEFINE c == call[t]
           at == IF c.kind = "restart" /\ (ok \/ code \notin Procs!Blocking) THEN "spawn" ELSE "answer"
           new == [c EXCEPT !.code = code, !.ok = ok, !.at = at]
<1>1. c \in ProcCalls /\ ProcCallOK(c, procs, launched)
  BY DEF ProcInv
<1>2. at \in {"spawn", "answer"} /\ (at = "spawn" => c.kind # "terminate")
  OBVIOUS
<1>3. call' = [call EXCEPT ![t] = new]
  BY DEF Procs!Ends
<1> HIDE DEF at
<1>4. new \in ProcCalls /\ new.at = at /\ new.ok = ok /\ new.kind = c.kind /\ new.pid = c.pid /\ new.snap = c.snap
      /\ new.todo = c.todo /\ new.meant = c.meant
  <2>1. at \in ProcPlaces
    BY <1>2 DEF ProcPlaces
  <2>2. QED
    BY <1>1, <2>1 DEF ProcCalls
<1> HIDE DEF new
<1>5. ProcCallOK(new, procs, launched)
  BY <1>1, <1>2, <1>4 DEF ProcCallOK
<1>6. QED
  BY <1>3, <1>4, <1>5

LEMMA ProcGoesOK ==
  ASSUME ProcInv, NEW t \in Workers, NEW meant \in SUBSET Nat, Procs!Goes(t, meant), Procs!At(t, "decide"),
         procs[call[t].pid].born \in meant
  PROVE  \E c \in ProcCalls : call' = [call EXCEPT ![t] = c] /\ ProcCallOK(c, procs, launched)
<1> DEFINE c == call[t]
           them == {<<c.pid, b>> : b \in meant}
           new == [c EXCEPT !.at = "snapshot", !.meant = them]
<1>1. c \in ProcCalls /\ ProcCallOK(c, procs, launched) /\ c.pid \in Numbers /\ c.snap = {}
  BY DEF ProcInv, Procs!At, ProcCallOK
<1>2. call' = [call EXCEPT ![t] = new]
  BY DEF Procs!Goes
<1>3. /\ them \subseteq Numbers \X Nat /\ <<c.pid, procs[c.pid].born>> \in them
      /\ \A m \in them : m[1] = c.pid
  <2>1. \A b \in meant : <<c.pid, b>> \in Numbers \X Nat /\ <<c.pid, b>>[1] = c.pid
    BY <1>1
  <2>2. QED
    BY <2>1
<1> HIDE DEF them
<1>4. new \in ProcCalls /\ new.at = "snapshot" /\ new.pid = c.pid /\ new.snap = c.snap
      /\ new.todo = c.todo /\ new.meant = them
  BY <1>1, <1>3 DEF ProcCalls, ProcPlaces, ProcCodes
<1> HIDE DEF new
<1>5. ProcCallOK(new, procs, launched)
  BY <1>1, <1>3, <1>4 DEF ProcCallOK
<1>6. QED
  BY <1>2, <1>4, <1>5

LEMMA ProcForgotten ==
  ASSUME ProcInv, NEW p \in Numbers, Procs!Forget(p) \/ UNCHANGED reg
  PROVE  reg' \in [Numbers -> SUBSET Nat] /\ \A q \in Numbers : reg'[q] \subseteq launched \cup {Procs!Unknown}
BY DEF ProcInv, Procs!Forget

(* The gate lets a call go on only with the process there is.               *)
LEMMA ProcDecideStep == ASSUME ProcInv, NEW t \in Workers, Procs!Decide(t) PROVE ProcInv'
<1> DEFINE c == call[t]
           p == c.pid
           obs == procs[p].born
<1>1. c \in ProcCalls /\ Procs!At(t, "decide") /\ c.at # "idle" /\ p \in Numbers /\ c.expect \subseteq Nat /\ obs \in Nat
  BY DEF Procs!Decide, Procs!At, ProcInv, ProcCallOK, ProcCalls, Processes
<1>2. /\ Procs!Forget(p) \/ UNCHANGED reg
      /\ \/ \E code \in {"NOT_FOUND", "IDENTITY_MISMATCH", "IDENTITY_REQUIRED", "PROTECTED"} : Procs!Ends(t, code, FALSE)
         \/ \E meant \in SUBSET Nat : Procs!Goes(t, meant) /\ obs \in meant
  <2>1. CASE \E b \in reg[p] :
            \/ obs = 0 /\ Procs!Forget(p) /\ Procs!Ends(t, "NOT_FOUND", FALSE)
            \/ obs # 0 /\ ~Procs!SameProcess(b, obs) /\ Procs!Forget(p) /\ Procs!Ends(t, "IDENTITY_MISMATCH", FALSE)
            \/ obs # 0 /\ Procs!SameProcess(b, obs) /\ UNCHANGED reg /\ Procs!Goes(t, {b, IF b = Procs!Unknown THEN obs ELSE b})
    <3>1. PICK b \in reg[p] :
            \/ obs = 0 /\ Procs!Forget(p) /\ Procs!Ends(t, "NOT_FOUND", FALSE)
            \/ obs # 0 /\ ~Procs!SameProcess(b, obs) /\ Procs!Forget(p) /\ Procs!Ends(t, "IDENTITY_MISMATCH", FALSE)
            \/ obs # 0 /\ Procs!SameProcess(b, obs) /\ UNCHANGED reg /\ Procs!Goes(t, {b, IF b = Procs!Unknown THEN obs ELSE b})
      BY <2>1
    <3>2. b \in Nat
      BY <1>1 DEF ProcInv
    <3>3. Procs!SameProcess(b, obs) => obs \in {b, IF b = Procs!Unknown THEN obs ELSE b}
      BY DEF Procs!SameProcess
    <3>4. {b, IF b = Procs!Unknown THEN obs ELSE b} \in SUBSET Nat
      BY <1>1, <3>2
    <3>5. QED
      BY <3>1, <3>3, <3>4
  <2>2. CASE /\ reg[p] = {} /\ UNCHANGED reg
             /\ \/ obs = 0 /\ Procs!Ends(t, "NOT_FOUND", FALSE)
                \/ obs # 0 /\ c.expect = {} /\ ~Procs!Expected(c.expect, obs) /\ Procs!Ends(t, "IDENTITY_REQUIRED", FALSE)
                \/ obs # 0 /\ c.expect # {} /\ ~Procs!Expected(c.expect, obs) /\ Procs!Ends(t, "IDENTITY_MISMATCH", FALSE)
                \/ obs # 0 /\ Procs!Expected(c.expect, obs) /\ procs[p].born \in Strangers /\ Procs!Ends(t, "PROTECTED", FALSE)
                \/ /\ obs # 0 /\ Procs!Expected(c.expect, obs) /\ procs[p].born \notin Strangers
                   /\ Procs!Goes(t, IF Procs!AnyOne \in c.expect THEN {obs} ELSE c.expect)
    <3>1. Procs!Expected(c.expect, obs) => obs \in (IF Procs!AnyOne \in c.expect THEN {obs} ELSE c.expect)
      BY DEF Procs!Expected
    <3>2. (IF Procs!AnyOne \in c.expect THEN {obs} ELSE c.expect) \in SUBSET Nat
      BY <1>1
    <3>3. QED
      BY <2>2, <3>1, <3>2
  <2>3. QED
    BY <2>1, <2>2 DEF Procs!Decide
<1>3. \E n \in ProcCalls : call' = [call EXCEPT ![t] = n] /\ ProcCallOK(n, procs, launched)
  <2>1. CASE \E code \in {"NOT_FOUND", "IDENTITY_MISMATCH", "IDENTITY_REQUIRED", "PROTECTED"} : Procs!Ends(t, code, FALSE)
    <3>1. PICK code \in {"NOT_FOUND", "IDENTITY_MISMATCH", "IDENTITY_REQUIRED", "PROTECTED"} : Procs!Ends(t, code, FALSE)
      BY <2>1
    <3>2. code \in ProcCodes
      BY DEF ProcCodes
    <3>3. QED
      BY <1>1, <3>1, <3>2, ProcEndsOK
  <2>2. CASE \E meant \in SUBSET Nat : Procs!Goes(t, meant) /\ obs \in meant
    BY <1>1, <2>2, ProcGoesOK
  <2>3. QED
    BY <1>2, <2>1, <2>2
<1>4. reg' \in [Numbers -> SUBSET Nat] /\ \A q \in Numbers : reg'[q] \subseteq launched \cup {Procs!Unknown}
  BY <1>1, <1>2, ProcForgotten
<1>5. UNCHANGED <<procs, births, launched, wrong>>
  BY DEF Procs!Decide
<1>6. QED
  BY <1>3, <1>4, <1>5, ProcCallMoves

(* What is below the process is meant too.                                  *)
LEMMA ProcSnapshotStep == ASSUME ProcInv, NEW t \in Workers, Procs!Snapshot(t) PROVE ProcInv'
<1> DEFINE c == call[t]
           ds == Procs!Below(c.pid)
           more == {<<q, procs[q].born>> : q \in ds}
           new == [c EXCEPT !.at = "kill", !.snap = ds, !.todo = ds, !.meant = c.meant \cup more]
<1>1. c \in ProcCalls /\ ProcCallOK(c, procs, launched) /\ c.at = "snapshot" /\ c.pid \in Numbers
      /\ \A q \in Numbers : procs[q].born \in Nat
  BY DEF Procs!Snapshot, Procs!At, ProcInv, ProcCallOK, Processes
<1>2. ds \subseteq Numbers
  BY DEF Procs!Below
<1>3. call' = [call EXCEPT ![t] = new] /\ UNCHANGED <<procs, reg, births, launched, wrong>>
  BY DEF Procs!Snapshot, Procs!Descendants
<1> HIDE DEF ds
<1>4. /\ more \subseteq Numbers \X Nat
      /\ \A q \in ds : <<q, procs[q].born>> \in more
      /\ \A m \in more : m[1] \in ds
  BY <1>1, <1>2
<1> HIDE DEF more
<1>5. new \in ProcCalls /\ new.at = "kill" /\ new.pid = c.pid /\ new.snap = ds /\ new.todo = ds
      /\ new.meant = c.meant \cup more
  BY <1>1, <1>2, <1>4 DEF ProcCalls, ProcPlaces, ProcCodes
<1> HIDE DEF new
<1>6. ProcCallOK(new, procs, launched)
  <2>1. \A q \in {c.pid} \cup ds : procs[q].up => <<q, procs[q].born>> \in c.meant \cup more
    BY <1>1, <1>4 DEF ProcCallOK
  <2>2. \A m \in c.meant \cup more : m[1] \in {c.pid} \cup ds
    BY <1>1, <1>4 DEF ProcCallOK
  <2>3. QED
    BY <1>1, <1>5, <2>1, <2>2 DEF ProcCallOK
<1>7. QED
  BY <1>3, <1>5, <1>6, ProcCallMoves DEF ProcInv

LEMMA ProcKillIs ==
  ASSUME ProcInv, NEW t \in Workers, call[t].at = "kill", NEW p \in {call[t].pid} \cup call[t].snap,
         NEW fails \in BOOLEAN, Procs!Kill(t, p, fails)
  PROVE  /\ ~wrong' /\ procs' \in [Numbers -> Processes] /\ (~fails => ~procs'[p].up)
         /\ \A q \in Numbers : ProcSettles(procs'[q], procs[q])
<1>1. call[t] \in ProcCalls /\ ProcCallOK(call[t], procs, launched) /\ p \in Numbers /\ procs \in [Numbers -> Processes]
  BY DEF ProcInv, ProcCallOK, ProcCalls
<1>2. ~wrong'
  BY <1>1 DEF Procs!Kill, Procs!Alive, ProcInv, ProcCallOK
<1>3. CASE procs[p] = Procs!NoProcess /\ ~fails /\ UNCHANGED procs
  BY <1>1, <1>2, <1>3, ProcSettlesItself DEF Procs!NoProcess
<1>4. CASE fails /\ procs' = [procs EXCEPT ![p].held = FALSE]
  <2> DEFINE new == [procs[p] EXCEPT !.held = FALSE]
  <2>1. new \in Processes /\ new.born = procs[p].born /\ new.up = procs[p].up
    BY <1>1 DEF Processes
  <2>2. procs' = [procs EXCEPT ![p] = new]
    BY <1>4
  <2> HIDE DEF new
  <2>3. QED
    BY <1>1, <1>2, <1>4, <2>1, <2>2 DEF ProcSettles
<1>5. CASE ~fails /\ procs' = Procs!Dead(p, TRUE)
  BY <1>1, <1>2, <1>5, ProcDeadSettles
<1>6. QED
  BY <1>3, <1>4, <1>5 DEF Procs!Kill

LEMMA ProcKillStep ==
  ASSUME ProcInv, NEW t \in Workers, call[t].at = "kill", NEW p \in {call[t].pid} \cup call[t].snap,
         NEW fails \in BOOLEAN, Procs!Kill(t, p, fails), Procs!Forget(p) \/ UNCHANGED reg,
         NEW c \in ProcCalls, call' = [call EXCEPT ![t] = c], ProcCallOK(c, procs', launched), UNCHANGED <<births, launched>>
  PROVE  ProcInv'
<1>1. ~wrong' /\ procs' \in [Numbers -> Processes] /\ \A q \in Numbers : ProcSettles(procs'[q], procs[q])
  BY ProcKillIs
<1>2. p \in Numbers
  BY DEF ProcInv, ProcCallOK, ProcCalls
<1>3. call' \in [Workers -> ProcCalls] /\ \A u \in Workers : ProcCallOK(call'[u], procs', launched')
  BY <1>1, ProcOneMoves
<1>4. reg' \in [Numbers -> SUBSET Nat] /\ \A q \in Numbers : reg'[q] \subseteq launched \cup {Procs!Unknown}
  BY <1>2, ProcForgotten
<1>5. QED
  BY <1>1, <1>3, <1>4 DEF ProcInv

LEMMA ProcKillChildStep ==
  ASSUME ProcInv, NEW t \in Workers, NEW q \in Numbers, NEW fails \in BOOLEAN, Procs!KillChild(t, q, fails)
  PROVE  ProcInv'
<1> DEFINE c == call[t]
           new == [c EXCEPT !.todo = c.todo \ {q}]
<1>1. c \in ProcCalls /\ ProcCallOK(c, procs, launched) /\ c.at = "kill" /\ q \in c.snap
  BY DEF Procs!KillChild, Procs!At, ProcInv, ProcCallOK
<1>2. call' = [call EXCEPT ![t] = new] /\ Procs!Kill(t, q, fails) /\ (Procs!Forget(q) \/ UNCHANGED reg) /\ UNCHANGED <<births, launched>>
  BY DEF Procs!KillChild
<1>3. new \in ProcCalls /\ new.at = c.at /\ new.kind = c.kind /\ new.pid = c.pid /\ new.snap = c.snap
      /\ new.todo \subseteq c.todo /\ new.meant = c.meant /\ new.ok = c.ok
  BY <1>1 DEF ProcCalls
<1>4. procs' \in [Numbers -> Processes] /\ \A r \in Numbers : ProcSettles(procs'[r], procs[r])
  BY <1>1, <1>2, ProcKillIs
<1> HIDE DEF new
<1>5. ProcCallOK(c, procs', launched')
  BY <1>2, <1>4, ProcKept
<1>6. ProcCallOK(new, procs', launched)
  BY <1>1, <1>2, <1>3, <1>5 DEF ProcCallOK
<1>7. QED
  BY <1>1, <1>2, <1>3, <1>6, ProcKillStep

LEMMA ProcKillRootStep == ASSUME ProcInv, NEW t \in Workers, NEW fails \in BOOLEAN, Procs!KillRoot(t, fails) PROVE ProcInv'
<1> DEFINE c == call[t]
           new == [c EXCEPT !.at = "residual", !.ok = ~fails]
<1>1. c \in ProcCalls /\ ProcCallOK(c, procs, launched) /\ c.at = "kill" /\ c.pid \in Numbers
  BY DEF Procs!KillRoot, Procs!At, ProcInv, ProcCallOK
<1>2. call' = [call EXCEPT ![t] = new] /\ Procs!Kill(t, c.pid, fails) /\ UNCHANGED <<reg, births, launched>>
  BY DEF Procs!KillRoot
<1>3. new \in ProcCalls /\ new.at = "residual" /\ new.kind = c.kind /\ new.pid = c.pid /\ new.snap = c.snap
      /\ new.todo = c.todo /\ new.meant = c.meant /\ new.ok = ~fails
  BY <1>1 DEF ProcCalls, ProcPlaces, ProcCodes
<1>4. ~fails => ~procs'[c.pid].up
  BY <1>1, <1>2, ProcKillIs
<1> HIDE DEF new
<1>5. ProcCallOK(new, procs', launched)
  BY <1>1, <1>3, <1>4 DEF ProcCallOK
<1>6. QED
  BY <1>1, <1>2, <1>3, <1>5, ProcKillStep

(* Without a survivor in the snapshot nothing meant is alive.               *)
LEMMA ProcResidualStep == ASSUME ProcInv, NEW t \in Workers, Procs!Residual(t) PROVE ProcInv'
<1> DEFINE c == call[t]
<1>1. c \in ProcCalls /\ ProcCallOK(c, procs, launched) /\ c.at = "residual" /\ c.pid \in Numbers /\ c.ok \in BOOLEAN
  BY DEF Procs!Residual, Procs!At, ProcInv, ProcCallOK, ProcCalls
<1>2. /\ Procs!Forget(c.pid) \/ UNCHANGED reg
      /\ Procs!Ends(t, "RESIDUAL_CHILDREN", FALSE) \/ (Procs!ResidualAlive(t) = {} /\ Procs!Ends(t, "none", c.ok))
      /\ UNCHANGED <<procs, births, launched, wrong>>
  BY DEF Procs!Residual
<1>3. Procs!ResidualAlive(t) = {} /\ c.ok => \A m \in c.meant : m[1] \in {c.pid} \cup c.snap /\ ~procs[m[1]].up
  BY <1>1 DEF ProcCallOK, Procs!ResidualAlive, Procs!Alive
<1>4. \E n \in ProcCalls : call' = [call EXCEPT ![t] = n] /\ ProcCallOK(n, procs, launched)
  <2>1. "RESIDUAL_CHILDREN" \in ProcCodes /\ "none" \in ProcCodes /\ FALSE \in BOOLEAN /\ c.at # "idle"
    BY <1>1 DEF ProcCodes
  <2>2. CASE Procs!Ends(t, "RESIDUAL_CHILDREN", FALSE)
    BY <2>1, <2>2, ProcEndsOK
  <2>3. CASE Procs!ResidualAlive(t) = {} /\ Procs!Ends(t, "none", c.ok)
    BY <1>1, <1>3, <2>1, <2>3, ProcEndsOK
  <2>4. QED
    BY <1>2, <2>2, <2>3
<1>5. reg' \in [Numbers -> SUBSET Nat] /\ \A q \in Numbers : reg'[q] \subseteq launched \cup {Procs!Unknown}
  BY <1>1, <1>2, ProcForgotten
<1>6. QED
  BY <1>2, <1>4, <1>5, ProcCallMoves

LEMMA ProcAnswerStep == ASSUME ProcInv, NEW t \in Workers, Procs!Answer(t) PROVE ProcInv'
<1>1. Procs!Quiet \in ProcCalls /\ ProcCallOK(Procs!Quiet, procs, launched)
  BY DEF Procs!Quiet, ProcCalls, ProcPlaces, ProcCodes, ProcCallOK
<1>2. QED
  BY <1>1, ProcCallMoves DEF Procs!Answer, ProcInv


LEMMA ProcStep == ASSUME ProcInv, [Procs!Next]_(Procs!ptVars) PROVE ProcInv'
<1>1. CASE UNCHANGED Procs!ptVars
  BY <1>1 DEF Procs!ptVars, ProcInv, ProcCallOK
<1>2. ASSUME NEW t \in Workers,
             \/ \E p \in Numbers : Procs!Start(t, p) \/ Procs!Relaunch(t, p)
             \/ Procs!Record(t)
             \/ \E p \in Numbers, e \in {{}} \cup {{b} : b \in Procs!AnyOne..births} : Procs!Terminate(t, p, e)
             \/ \E p \in Numbers : Procs!Restart(t, p)
             \/ Procs!Decide(t) \/ Procs!Snapshot(t) \/ Procs!Residual(t) \/ Procs!Answer(t)
             \/ \E q \in Numbers, fails \in BOOLEAN : Procs!KillChild(t, q, fails)
             \/ \E fails \in BOOLEAN : Procs!KillRoot(t, fails)
      PROVE  ProcInv'
  BY <1>2, ProcStartStep, ProcRelaunchStep, ProcRecordStep, ProcTerminateStep, ProcRestartStep, ProcDecideStep, ProcSnapshotStep, ProcResidualStep, ProcAnswerStep,
     ProcKillChildStep, ProcKillRootStep
<1>3. QED
  BY <1>1, <1>2, ProcForkStep, ProcExitStep DEF Procs!Next

(* What is killed is meant, what an answer says is gone is gone, and the    *)
(* registry knows only what the API launched.                               *)
LEMMA ProcIsSound == ProcInv => Procs!TeardownsAreSound
<1> SUFFICES ASSUME ProcInv PROVE Procs!TeardownsAreSound
  OBVIOUS
<1>1. Procs!KillsAreIdentified /\ Procs!RecordsAreOwn
  BY DEF ProcInv, Procs!KillsAreIdentified, Procs!RecordsAreOwn
<1>2. Procs!TeardownIsComplete
  BY DEF ProcInv, Procs!TeardownIsComplete, ProcCallOK, Procs!At, Procs!Alive
<1>3. QED
  BY <1>1, <1>2 DEF Procs!TeardownsAreSound

LEMMA ProcAlways == SystemSpec => [](part = "processes" => ProcInv)
<1> DEFINE Inv == part = "processes" => ProcInv
<1>1. SystemInit => Inv
  BY ProcStarts DEF SystemInit
<1>2. Inv /\ [SystemNext]_systemVars => Inv'
  <2>1. ASSUME [SystemNext]_systemVars PROVE part' = part /\ (part = "processes" => [Procs!Next]_(Procs!ptVars))
    BY <2>1 DEF SystemNext, systemVars, procVars, Procs!ptVars
  <2>2. QED
    BY <2>1, ProcStep
<1>3. QED
  BY <1>1, <1>2, PTL DEF SystemSpec

(* Only the process that was recorded or expected is killed, and what was   *)
(* below it; a termination that answers ok has left nothing of that alive,  *)
(* and the registry knows only what the API launched (os.processes).        *)
THEOREM TeardownsAlwaysSound == SystemSpec => []TeardownsAreSound
<1>1. (part = "processes" => ProcInv) => TeardownsAreSound
  BY ProcIsSound DEF TeardownsAreSound
<1>2. QED
  BY <1>1, ProcAlways, PTL

-----------------------------------------------------------------------------
(* Releases                                                                 *)
-----------------------------------------------------------------------------
ReleaseLinux == "dist/checksums-linux.txt"
ReleaseArtifact == [holds : Nat, says : Nat, sig : {"absent", "none", "trusted", "untrusted"}]
ReleaseSigned == {"trusted", "untrusted"}

\* A document over the artifacts d: their hashes, and a signature where it says so.
ReleaseAttests(doc, d) ==
    /\ doc # Release!NoDoc
    /\ \A f \in DOMAIN doc.entries :
        /\ f \in Release!Artifacts /\ d[f] = doc.entries[f].hash
        /\ doc.entries[f].status = "authenticode" => d[f].sig \in ReleaseSigned

\* The packages of a manifest of Linux hold the binary beside them.
ReleaseTogether(lines) ==
    /\ DOMAIN lines \subseteq Release!Artifacts
    /\ "app" \in DOMAIN lines =>
        \A f, g \in DOMAIN lines \ {"app"} : lines[f].holds = lines["app"].holds /\ lines[f].says = lines[g].says

ReleaseInv ==
    /\ disk \in [Release!Artifacts -> ReleaseArtifact] /\ builds \in Nat /\ sources \in [version : Nat, valid : BOOLEAN]
    /\ DOMAIN sums = Release!Manifests /\ ReleaseTogether(sums[ReleaseLinux])
    /\ DOMAIN docs = Release!Folders /\ fresh \subseteq Release!Folders
    /\ \A d \in fresh : ReleaseAttests(docs[d], disk)

LEMMA ReleaseNamesDiffer == Release!Attestation \notin Release!Artifacts /\ ReleaseLinux \in Release!Manifests
BY DEF Release!Attestation, Release!Artifacts, ReleaseLinux, Release!Manifests

LEMMA ReleaseStarts == Release!Init => ReleaseInv
<1> SUFFICES ASSUME Release!Init PROVE ReleaseInv
  OBVIOUS
<1>1. disk \in [Release!Artifacts -> ReleaseArtifact]
  BY DEF Release!Init, Release!Absent, Release!NoServer, ReleaseArtifact
<1>2. ReleaseTogether(sums[ReleaseLinux])
  BY ReleaseNamesDiffer DEF Release!Init, Release!Unwritten, ReleaseTogether
<1>3. QED
  BY <1>1, <1>2 DEF Release!Init, ReleaseInv

(* A command that changes an artifact takes the attestations back.          *)
LEMMA ReleaseRebuilt ==
  ASSUME ReleaseInv, disk' \in [Release!Artifacts -> ReleaseArtifact], builds' \in Nat, sources' = sources, fresh' = {}, docs' = docs,
         DOMAIN sums' = Release!Manifests, ReleaseTogether(sums'[ReleaseLinux])
  PROVE  ReleaseInv'
BY DEF ReleaseInv

LEMMA ReleaseEditStep ==
  ASSUME ReleaseInv, NEW v \in Nat, NEW ok \in BOOLEAN, Release!Edit(v, ok)
  PROVE  ReleaseInv'
BY DEF Release!Edit, ReleaseInv

LEMMA ReleaseCleanStep == ASSUME ReleaseInv, Release!Clean PROVE ReleaseInv'
<1>1. Release!Absent \in ReleaseArtifact
  BY DEF Release!Absent, Release!NoServer, ReleaseArtifact
<1>2. disk' \in [Release!Artifacts -> ReleaseArtifact]
  BY <1>1 DEF Release!Clean, ReleaseInv
<1>3. QED
  BY <1>2, ReleaseRebuilt DEF Release!Clean, ReleaseInv

LEMMA ReleaseBuildPortableStep == ASSUME ReleaseInv, Release!BuildPortable PROVE ReleaseInv'
<1>1. Release!Built \in ReleaseArtifact /\ builds + 1 \in Nat
  BY DEF Release!Built, ReleaseArtifact, ReleaseInv
<1>2. disk' \in [Release!Artifacts -> ReleaseArtifact]
  BY <1>1 DEF Release!BuildPortable, ReleaseInv
<1>3. DOMAIN sums' = Release!Manifests /\ sums'[ReleaseLinux] = sums[ReleaseLinux]
  BY DEF Release!BuildPortable, ReleaseInv, ReleaseLinux
<1>4. QED
  BY <1>1, <1>2, <1>3, ReleaseRebuilt DEF Release!BuildPortable, ReleaseInv

LEMMA ReleaseBuildInstallerStep == ASSUME ReleaseInv, Release!BuildInstaller PROVE ReleaseInv'
<1>1. disk["app"] \in ReleaseArtifact /\ sources.version \in Nat
  BY DEF ReleaseInv, Release!Artifacts
<1>2. [disk["app"] EXCEPT !.says = sources.version, !.sig = "none"] \in ReleaseArtifact
  BY <1>1 DEF ReleaseArtifact
<1>3. disk' \in [Release!Artifacts -> ReleaseArtifact]
  BY <1>2 DEF Release!BuildInstaller, ReleaseInv
<1>4. DOMAIN sums' = Release!Manifests /\ sums'[ReleaseLinux] = sums[ReleaseLinux]
  BY DEF Release!BuildInstaller, ReleaseInv, ReleaseLinux
<1>5. QED
  BY <1>3, <1>4, ReleaseRebuilt DEF Release!BuildInstaller, ReleaseInv

LEMMA ReleasePackageLinuxStep ==
  ASSUME ReleaseInv, NEW formats \in Release!Formats, NEW n, NEW lost \in SUBSET {"appimage"}, Release!PackageLinux(formats, n, lost)
  PROVE  ReleaseInv'
<1>1. PICK binary \in Release!FoundBinary(disk) :
        LET done == Release!Done(formats, n) IN
        /\ disk' = Release!Repacked(disk, binary, done, lost)
        /\ sums' = Release!LinuxSums(sums, disk', done, formats, binary)
        /\ fresh' = {} /\ UNCHANGED <<sources, docs, builds>>
  BY DEF Release!PackageLinux
<1> DEFINE done == Release!Done(formats, n)
<1>2. done \subseteq formats /\ formats \subseteq Release!Artifacts /\ "app" \notin formats /\ "app" \notin lost
  BY DEF Release!Done, Release!Formats, Release!Artifacts
<1>3. binary \in Release!Artifacts
  BY DEF Release!FoundBinary, Release!Artifacts
<1>4. Release!Packed(disk, binary) \in ReleaseArtifact /\ Release!Absent \in ReleaseArtifact
  BY DEF Release!Packed, ReleaseArtifact, ReleaseInv, Release!Absent, Release!NoServer, Release!Artifacts
<1> HIDE DEF done
<1>5. disk' = [f \in Release!Artifacts |-> IF f \in done THEN Release!Packed(disk, binary) ELSE IF f \in lost THEN Release!Absent ELSE disk[f]]
  BY <1>1 DEF Release!Repacked, done
<1>6. disk' \in [Release!Artifacts -> ReleaseArtifact]
  BY <1>4, <1>5 DEF ReleaseInv
<1>7. CASE done # formats
  <2>1. sums' = sums
    BY <1>1, <1>7 DEF Release!LinuxSums, done
  <2>2. QED
    BY <1>1, <1>6, <2>1, ReleaseRebuilt DEF ReleaseInv
<1>8. CASE done = formats
  <2> DEFINE lines == Release!Lines(disk', done \cup {binary})
  <2>1. sums' = [sums EXCEPT !["dist/checksums-linux.txt"] = lines]
    BY <1>1, <1>8 DEF Release!LinuxSums, done
  <2>2. DOMAIN sums' = Release!Manifests /\ sums'[ReleaseLinux] = lines
    BY <2>1, ReleaseNamesDiffer DEF ReleaseInv, ReleaseLinux
  <2>3. DOMAIN lines = done \cup {binary} /\ \A f \in done \cup {binary} : lines[f] = disk'[f]
    BY DEF Release!Lines
  <2> HIDE DEF lines
  <2>4. ReleaseTogether(lines)
    <3>1. DOMAIN lines \subseteq Release!Artifacts
      BY <1>2, <1>3, <2>3
    <3>2. ASSUME "app" \in DOMAIN lines, NEW f \in DOMAIN lines \ {"app"}, NEW g \in DOMAIN lines \ {"app"}
          PROVE  lines[f].holds = lines["app"].holds /\ lines[f].says = lines[g].says
      <4>1. binary = "app" /\ f \in done /\ g \in done
        BY <1>2, <2>3, <3>2
      <4>2. lines[f] = Release!Packed(disk, binary) /\ lines[g] = Release!Packed(disk, binary) /\ lines["app"] = disk["app"]
        BY <1>2, <1>3, <1>5, <2>3, <4>1
      <4>3. QED
        BY <4>1, <4>2 DEF Release!Packed
    <3>3. QED
      BY <3>1, <3>2 DEF ReleaseTogether
  <2>5. QED
    BY <1>1, <1>6, <2>2, <2>4, ReleaseRebuilt DEF ReleaseInv
<1>9. QED
  BY <1>7, <1>8

LEMMA ReleaseChecksumsStep == ASSUME ReleaseInv, Release!Checksums PROVE ReleaseInv'
<1>1. DOMAIN sums' = Release!Manifests /\ sums'[ReleaseLinux] = sums[ReleaseLinux]
  BY DEF Release!Checksums, ReleaseInv, ReleaseLinux
<1>2. QED
  BY <1>1 DEF Release!Checksums, ReleaseInv

LEMMA ReleaseSignArtifactsStep ==
  ASSUME ReleaseInv, NEW paths \in SUBSET Release!Artifacts, NEW cert \in {"none", "trusted", "untrusted"},
         NEW failing, NEW key, NEW keyOk \in BOOLEAN, NEW require \in BOOLEAN,
         Release!SignArtifacts(paths, cert, failing, key, keyOk, require)
  PROVE  ReleaseInv'
<1> DEFINE sealed == IF cert = "none" THEN {} ELSE Release!Sealed(paths, failing, require)
           entries == [f \in paths |-> Release!Entry(disk, disk', f, sealed, cert, key)]
           doc == [key |-> key, entries |-> entries]
<1>1. /\ paths # {} /\ disk' = Release!Sign(disk, sealed, cert) /\ UNCHANGED <<sources, sums, builds>>
      /\ IF Release!Stops(paths, sealed, failing, require, keyOk)
         THEN docs' = docs /\ fresh' = IF disk' = disk THEN fresh ELSE {}
         ELSE /\ docs' = [d \in Release!Folders |-> IF \E f \in paths : Release!FolderOf(f) = d THEN doc ELSE docs[d]]
              /\ fresh' = {Release!FolderOf(f) : f \in paths}
  BY DEF Release!SignArtifacts
<1>2. sealed \subseteq paths /\ (sealed # {} => cert \in ReleaseSigned)
  BY DEF Release!Sealed, ReleaseSigned
<1> HIDE DEF sealed
<1>3. \A f \in sealed : [disk[f] EXCEPT !.sig = cert] \in ReleaseArtifact /\ [disk[f] EXCEPT !.sig = cert].sig = cert
  BY <1>2 DEF ReleaseInv, ReleaseArtifact
<1>4. disk' = [f \in Release!Artifacts |-> IF f \in sealed THEN [disk[f] EXCEPT !.sig = cert] ELSE disk[f]]
  BY <1>1 DEF Release!Sign
<1>5. disk' \in [Release!Artifacts -> ReleaseArtifact] /\ \A f \in sealed : disk'[f].sig \in ReleaseSigned
  BY <1>2, <1>3, <1>4 DEF ReleaseInv
<1>6. CASE Release!Stops(paths, sealed, failing, require, keyOk)
  BY <1>1, <1>5, <1>6 DEF ReleaseInv
<1>7. CASE ~Release!Stops(paths, sealed, failing, require, keyOk)
  <2>1. fresh' = {Release!FolderOf(f) : f \in paths} /\ \A f \in paths : Release!FolderOf(f) \in Release!Folders
    BY <1>1, <1>7 DEF Release!FolderOf, Release!Folders
  <2>2. DOMAIN docs' = Release!Folders /\ \A d \in fresh' : docs'[d] = doc
    BY <1>1, <1>7, <2>1
  <2>3. doc # Release!NoDoc
    <3>1. doc.entries = entries /\ DOMAIN entries = paths
      OBVIOUS
    <3>2. DOMAIN Release!NoDoc.entries = {}
      BY DEF Release!NoDoc, Release!Unwritten
    <3>3. QED
      BY <1>1, <3>1, <3>2
  <2>4. ASSUME NEW f \in paths
        PROVE  /\ entries[f].hash = disk'[f]
               /\ entries[f].status = "authenticode" => f \in sealed
    BY DEF Release!Entry
  <2>5. doc.entries = entries /\ DOMAIN entries = paths
    OBVIOUS
  <2> HIDE DEF doc, entries
  <2>6. ReleaseAttests(doc, disk')
    BY <1>5, <2>3, <2>4, <2>5 DEF ReleaseAttests
  <2>7. QED
    BY <1>1, <1>5, <2>1, <2>2, <2>6 DEF ReleaseInv
<1>8. QED
  BY <1>6, <1>7

LEMMA ReleaseStep == ReleaseInv /\ [Release!Next]_(Release!rpVars) => ReleaseInv'
<1> SUFFICES ASSUME ReleaseInv, [Release!Next]_(Release!rpVars) PROVE ReleaseInv'
  OBVIOUS
<1>1. CASE UNCHANGED Release!rpVars
  BY <1>1 DEF Release!rpVars, ReleaseInv
<1>2. CASE Release!Command
  <2>1. sources.version \in Nat /\ sources.version + 1 \in Nat /\ sources.valid \in BOOLEAN
    BY DEF ReleaseInv
  <2>2. CASE Release!Edit(sources.version + 1, sources.valid) \/ Release!Edit(sources.version, ~sources.valid)
    BY <2>1, <2>2, ReleaseEditStep
  <2>3. \A paths \in {Release!Collected} \cup {{f} : f \in Release!Present} : paths \in SUBSET Release!Artifacts
    BY DEF Release!Collected, Release!Present
  <2>4. ASSUME NEW formats \in Release!Formats, NEW n, NEW lost \in SUBSET {"appimage"}, Release!PackageLinux(formats, n, lost)
        PROVE  ReleaseInv'
    BY <2>4, ReleasePackageLinuxStep
  <2>5. ASSUME NEW paths \in {Release!Collected} \cup {{f} : f \in Release!Present}, NEW cert \in {"none", "trusted", "untrusted"},
               NEW failing, NEW key, NEW keyOk \in BOOLEAN, NEW require \in BOOLEAN,
               Release!SignArtifacts(paths, cert, failing, key, keyOk, require)
        PROVE  ReleaseInv'
    <3>1. paths \in SUBSET Release!Artifacts
      BY <2>3
    <3>2. QED
      BY <2>5, <3>1, ReleaseSignArtifactsStep, Zenon
  <2>6. QED
    BY <1>2, <2>2, <2>4, <2>5, ReleaseCleanStep, ReleaseBuildPortableStep, ReleaseBuildInstallerStep, ReleaseChecksumsStep DEF Release!Command
<1>3. QED
  BY <1>1, <1>2 DEF Release!Next

LEMMA ReleaseIsSound == ReleaseInv => Release!ReleasesAreSound
<1> SUFFICES ASSUME ReleaseInv PROVE Release!ReleasesAreSound
  OBVIOUS
<1>1. Release!AttestedVerifies
  BY DEF Release!AttestedVerifies, ReleaseInv, ReleaseAttests, Release!Verifies, Release!AuthenticodePasses, Release!PeVerify, ReleaseSigned
<1>2. Release!AuthenticodeIsReal
  BY DEF Release!AuthenticodeIsReal, Release!Verifies, Release!AuthenticodePasses, Release!PeVerify
<1>3. Release!OnePackaging
  <2> SUFFICES ASSUME Release!ChecksumsVerify(ReleaseLinux, Release!Artifacts), "app" \in DOMAIN sums[ReleaseLinux],
                      NEW f \in DOMAIN sums[ReleaseLinux] \ {"app"}, NEW g \in DOMAIN sums[ReleaseLinux] \ {"app"}
               PROVE  disk[f].holds = disk["app"].holds /\ disk[f].says = disk[g].says
    BY DEF Release!OnePackaging, ReleaseLinux
  <2>1. ReleaseTogether(sums[ReleaseLinux])
    BY DEF ReleaseInv
  <2>2. \A h \in DOMAIN sums[ReleaseLinux] : disk[h] = sums[ReleaseLinux][h]
    BY <2>1, ReleaseNamesDiffer DEF Release!ChecksumsVerify, ReleaseTogether
  <2>3. QED
    BY <2>1, <2>2 DEF ReleaseTogether
<1>4. QED
  BY <1>1, <1>2, <1>3 DEF Release!ReleasesAreSound

LEMMA ReleaseAlways == SystemSpec => [](part = "release" => ReleaseInv)
<1> DEFINE Inv == part = "release" => ReleaseInv
<1>1. SystemInit => Inv
  BY ReleaseStarts DEF SystemInit
<1>2. Inv /\ [SystemNext]_systemVars => Inv'
  <2>1. ASSUME [SystemNext]_systemVars PROVE part' = part /\ (part = "release" => [Release!Next]_(Release!rpVars))
    BY <2>1 DEF SystemNext, systemVars, releaseVars, Release!rpVars
  <2>2. QED
    BY <2>1, ReleaseStep
<1>3. QED
  BY <1>1, <1>2, PTL DEF SystemSpec

-----------------------------------------------------------------------------
(* Update discovery                                                         *)
-----------------------------------------------------------------------------
FoundReleases == [version : Nat, name : Names \cup {Found!Nothing}, hash : Payloads \cup {Found!Nothing}, signature : Found!Signatures]
FoundGets == [at : {"idle", "version", "fetch", "hash", "signature", "sidecar"}, release : FoundReleases,
         actual : Payloads \cup {Found!Nothing}]
FoundNamed(r) == r \in FoundReleases /\ (r.version > 0 => r.name \in Names)

(***************************************************************************)
(* What a run g holds: from its download on, the file is what it hashed;   *)
(* then it has the hash of the release, and then it was accepted.          *)
(***************************************************************************)
FoundGetOK(g, files, taken) ==
    /\ g \in FoundGets
    /\ g.at # "idle" => g.release.name \in Names
    /\ g.at \in {"hash", "signature", "sidecar"} => g.actual \in Payloads /\ files[g.release.name] = g.actual
    /\ g.at = "signature" => g.actual = g.release.hash
    /\ g.at = "sidecar" => g.actual \in taken

\* The file of a run that is still to be verified.
FoundPending(n) == \E t \in {"updater"} : get[t].at \in {"hash", "signature"} /\ get[t].release.name = n

FoundInv ==
    /\ \A t, u \in {"updater"} : t = u
    /\ FoundNamed(channel) /\ host \in [Names -> Payloads] /\ faults \in Nat /\ older = FALSE
    /\ staging \in [Names -> Found!Staged] /\ get = [t \in {"updater"} |-> get[t]]
    /\ \A t \in {"updater"} : FoundGetOK(get[t], staging, accepted)
    /\ \A n \in DOMAIN sidecar : sidecar[n] \in accepted
    /\ faults = 0 => \A n \in Names : staging[n] \in accepted \cup {Found!Nothing} \/ FoundPending(n)

LEMMA FoundStarts == (\A t, u \in {"updater"} : t = u) /\ Found!Init => FoundInv
<1> SUFFICES ASSUME \A t, u \in {"updater"} : t = u, Found!Init PROVE FoundInv
  OBVIOUS
<1>1. Found!NoRelease \in FoundReleases /\ Found!NoRelease.version = 0
  BY DEF Found!NoRelease, FoundReleases, Found!Signatures
<1>2. Found!Idle \in FoundGets
  BY <1>1 DEF Found!Idle, FoundGets
<1>3. FoundGetOK(Found!Idle, staging, accepted)
  BY <1>2 DEF FoundGetOK, Found!Idle
<1>4. QED
  BY <1>1, <1>3 DEF Found!Init, FoundInv, FoundNamed, Found!Staged

(* A step of the run, and what it leaves behind.                            *)
LEMMA FoundRunMoves ==
  ASSUME FoundInv, NEW t \in {"updater"}, NEW new, get' = [get EXCEPT ![t] = new],
         UNCHANGED <<channel, host, older>>, faults' \in Nat, faults' = 0 => faults = 0,
         staging' \in [Names -> Found!Staged], accepted \subseteq accepted', FoundGetOK(new, staging', accepted'),
         \A n \in DOMAIN sidecar' : sidecar'[n] \in accepted',
         faults' = 0 => \A n \in Names : \/ staging'[n] = staging[n] /\ (staging[n] \in accepted \cup {Found!Nothing})
                                         \/ staging'[n] \in accepted' \cup {Found!Nothing}
                                         \/ new.at \in {"hash", "signature"} /\ new.release.name = n
  PROVE  FoundInv'
<1>1. get'[t] = new /\ get' = [u \in {"updater"} |-> get'[u]]
  BY DEF FoundInv
<1>2. \A u \in {"updater"} : FoundGetOK(get'[u], staging', accepted')
  <2> TAKE u \in {"updater"}
  <2>1. u = t
    BY DEF FoundInv
  <2>2. QED
    BY <1>1, <2>1
<1>3. ASSUME faults' = 0, NEW n \in Names PROVE staging'[n] \in accepted' \cup {Found!Nothing} \/ FoundPending(n)'
  BY <1>1, <1>3 DEF FoundPending
<1>4. QED
  BY <1>1, <1>2, <1>3 DEF FoundInv, FoundNamed

LEMMA FoundKnown ==
  ASSUME FoundInv, NEW t \in {"updater"}, ~Found!At(t, "idle")
  PROVE  /\ get[t] \in FoundGets /\ get[t].release \in FoundReleases /\ get[t].release.name \in Names
         /\ FoundGetOK(get[t], staging, accepted)
         /\ faults = 0 => \A n \in Names : \/ staging[n] \in accepted \cup {Found!Nothing}
                                           \/ get[t].at \in {"hash", "signature"} /\ get[t].release.name = n
<1>1. FoundGetOK(get[t], staging, accepted) /\ get[t].at # "idle"
  BY DEF FoundInv, Found!At
<1>2. ASSUME NEW n \in Names, FoundPending(n) PROVE get[t].at \in {"hash", "signature"} /\ get[t].release.name = n
  BY <1>2 DEF FoundPending, FoundInv
<1>3. QED
  BY <1>1, <1>2 DEF FoundInv, FoundGetOK, FoundGets

(* The run is over: nothing unverified is left, or a step of it failed.     *)
LEMMA FoundStopping ==
  ASSUME FoundInv, NEW t \in {"updater"}, Found!Stop(t),
         UNCHANGED <<channel, host, older>>, faults' \in Nat, faults' = 0 => faults = 0,
         staging' \in [Names -> Found!Staged], accepted' = accepted,
         \A n \in DOMAIN sidecar' : sidecar'[n] \in accepted',
         faults' = 0 => \A n \in Names : staging'[n] \in accepted' \cup {Found!Nothing}
  PROVE  FoundInv'
<1>1. Found!NoRelease \in FoundReleases
  BY DEF Found!NoRelease, FoundReleases, Found!Signatures
<1>2. Found!Idle \in FoundGets
  BY <1>1 DEF Found!Idle, FoundGets
<1>3. FoundGetOK(Found!Idle, staging', accepted')
  BY <1>2 DEF FoundGetOK, Found!Idle
<1>4. get' = [get EXCEPT ![t] = Found!Idle]
  BY DEF Found!Stop
<1>5. QED
  BY <1>3, <1>4, FoundRunMoves

LEMMA FoundCounted ==
  ASSUME FoundInv, NEW fails \in BOOLEAN, Found!Count(fails)
  PROVE  faults' \in Nat /\ (faults' = 0 => faults = 0 /\ ~fails)
<1>1. faults \in Nat
  BY DEF FoundInv
<1>2. CASE fails
  BY <1>1, <1>2 DEF Found!Count
<1>3. CASE ~fails
  BY <1>1, <1>3 DEF Found!Count
<1>4. QED
  BY <1>2, <1>3

LEMMA FoundDiscoverStep ==
  ASSUME FoundInv, NEW t \in {"updater"}, Found!Discover(t)
  PROVE  FoundInv'
<1> DEFINE new == [at |-> "version", release |-> channel, actual |-> Found!Nothing]
<1>1. new \in FoundGets /\ channel.name \in Names
  BY DEF FoundInv, FoundNamed, FoundGets, Found!Discover
<1>2. FoundGetOK(new, staging, accepted)
  BY <1>1 DEF FoundGetOK
<1>3. get' = [get EXCEPT ![t] = new]
  BY DEF Found!Discover
<1>4. faults = 0 => \A n \in Names : staging[n] \in accepted \cup {Found!Nothing}
  <2>1. \A n \in Names : ~FoundPending(n)
    BY DEF FoundPending, Found!Discover, FoundInv, Found!At
  <2>2. QED
    BY <2>1 DEF FoundInv
<1> HIDE DEF new
<1>5. QED
  BY <1>2, <1>3, <1>4, FoundRunMoves DEF Found!Discover, FoundInv

LEMMA FoundCheckVersionStep ==
  ASSUME FoundInv, NEW t \in {"updater"}, NEW allow \in BOOLEAN, Found!CheckVersion(t, allow)
  PROVE  FoundInv'
<1>1. /\ ~Found!At(t, "idle") /\ get[t].at = "version"
      /\ UNCHANGED <<channel, host, staging, sidecar, accepted, faults>>
  BY DEF Found!CheckVersion, Found!At
<1>2. older' = older
  <2>1. older = FALSE
    BY DEF FoundInv
  <2>2. CASE allow \/ Found!Newer(get[t].release.version, installed)
    <3>1. older' = (older \/ ~(allow \/ Found!Newer(get[t].release.version, installed)))
      BY <2>2 DEF Found!CheckVersion, Found!Newer
    <3>2. QED
      BY <2>1, <2>2, <3>1
  <2>3. CASE ~(allow \/ Found!Newer(get[t].release.version, installed))
    BY <2>3 DEF Found!CheckVersion
  <2>4. QED
    BY <2>2, <2>3
<1>3. faults = 0 => \A n \in Names : staging[n] \in accepted \cup {Found!Nothing}
  BY <1>1, FoundKnown
<1>4. CASE Found!Stop(t)
  BY <1>1, <1>2, <1>3, <1>4, FoundStopping DEF FoundInv
<1>5. CASE Found!Goto(t, "fetch")
  <2> DEFINE new == [get[t] EXCEPT !.at = "fetch"]
  <2>1. get' = [get EXCEPT ![t] = new]
    BY <1>5 DEF Found!Goto, FoundInv
  <2>2. new \in FoundGets /\ new.at = "fetch" /\ new.release = get[t].release
    BY <1>1, FoundKnown DEF FoundGets
  <2> HIDE DEF new
  <2>3. FoundGetOK(new, staging', accepted')
    BY <1>1, <2>2, FoundKnown DEF FoundGetOK
  <2>4. QED
    BY <1>1, <1>2, <1>3, <2>1, <2>3, FoundRunMoves DEF FoundInv
<1>6. QED
  BY <1>4, <1>5 DEF Found!CheckVersion

LEMMA FoundFetchStep ==
  ASSUME FoundInv, NEW t \in {"updater"}, NEW fails \in BOOLEAN, Found!Fetch(t, fails)
  PROVE  FoundInv'
<1> DEFINE n == get[t].release.name
<1>1. /\ ~Found!At(t, "idle") /\ get[t].at = "fetch" /\ Found!Count(fails)
      /\ UNCHANGED <<channel, host, sidecar, accepted, older>>
      /\ staging' = [staging EXCEPT ![n] = IF fails THEN Found!Torn ELSE host[n]]
  BY DEF Found!Fetch, Found!At
<1>2. n \in Names /\ host[n] \in Payloads /\ get[t] \in FoundGets
  BY <1>1, FoundKnown DEF FoundInv
<1>3. staging' \in [Names -> Found!Staged]
  BY <1>1, <1>2 DEF FoundInv, Found!Staged
<1>4. faults = 0 => \A m \in Names : staging[m] \in accepted \cup {Found!Nothing}
  BY <1>1, FoundKnown
<1>5. CASE fails
  BY <1>1, <1>3, <1>5, FoundCounted, FoundStopping DEF Found!Fetch, FoundInv
<1>6. CASE ~fails
  <2> DEFINE new == [get[t] EXCEPT !.at = "hash", !.actual = host[n]]
  <2>1. get' = [get EXCEPT ![t] = new]
    BY <1>6 DEF Found!Fetch, FoundInv
  <2>2. new \in FoundGets /\ new.at = "hash" /\ new.release = get[t].release /\ new.actual = host[n]
    BY <1>2 DEF FoundGets
  <2>3. staging'[n] = host[n] /\ \A m \in Names \ {n} : staging'[m] = staging[m]
    BY <1>1, <1>2, <1>6 DEF FoundInv
  <2> HIDE DEF new
  <2>4. FoundGetOK(new, staging', accepted')
    BY <1>2, <2>2, <2>3 DEF FoundGetOK
  <2>5. faults' = 0 => \A m \in Names : \/ staging'[m] = staging[m] /\ (staging[m] \in accepted \cup {Found!Nothing})
                                        \/ new.at \in {"hash", "signature"} /\ new.release.name = m
    BY <1>1, <1>4, <2>2, <2>3, FoundCounted
  <2>6. QED
    BY <1>1, <1>3, <2>1, <2>4, <2>5, FoundCounted, FoundRunMoves DEF FoundInv
<1>7. QED
  BY <1>5, <1>6

LEMMA FoundRefusing ==
  ASSUME FoundInv, NEW t \in {"updater"}, NEW fails \in BOOLEAN, ~Found!At(t, "idle"), Found!Refuse(t, fails),
         UNCHANGED <<channel, host, older, accepted, sidecar>>
  PROVE  FoundInv'
<1> DEFINE n == get[t].release.name
<1>1. /\ Found!Count(fails) /\ Found!Stop(t)
      /\ staging' = IF fails THEN staging ELSE [staging EXCEPT ![n] = Found!Nothing]
  BY DEF Found!Refuse
<1>2. staging' \in [Names -> Found!Staged]
  BY <1>1, FoundKnown DEF FoundInv, Found!Staged
<1>3. ASSUME faults' = 0, NEW m \in Names PROVE staging'[m] \in accepted' \cup {Found!Nothing}
  <2>1. ~fails /\ faults = 0
    BY <1>1, <1>3, FoundCounted
  <2>2. CASE m = n
    BY <1>1, <2>1, <2>2 DEF FoundInv
  <2>3. CASE m # n
    BY <1>1, <2>1, <2>3, FoundKnown DEF FoundInv
  <2>4. QED
    BY <2>2, <2>3
<1>4. QED
  BY <1>1, <1>2, <1>3, FoundCounted, FoundStopping DEF FoundInv

LEMMA FoundCheckHashStep ==
  ASSUME FoundInv, NEW t \in {"updater"}, NEW fails \in BOOLEAN, Found!CheckHash(t, fails)
  PROVE  FoundInv'
<1>1. /\ ~Found!At(t, "idle") /\ get[t].at = "hash"
      /\ UNCHANGED <<channel, host, sidecar, accepted, older>>
  BY DEF Found!CheckHash, Found!At
<1>2. CASE get[t].actual # get[t].release.hash
  BY <1>1, <1>2, FoundRefusing DEF Found!CheckHash
<1>3. CASE get[t].actual = get[t].release.hash
  <2> DEFINE new == [get[t] EXCEPT !.at = "signature"]
  <2>1. get' = [get EXCEPT ![t] = new] /\ UNCHANGED <<staging, faults>>
    BY <1>3 DEF Found!CheckHash, Found!Goto, FoundInv
  <2>2. new \in FoundGets /\ new.at = "signature" /\ new.release = get[t].release /\ new.actual = get[t].actual
    BY <1>1, FoundKnown DEF FoundGets
  <2> HIDE DEF new
  <2>3. FoundGetOK(new, staging', accepted')
    BY <1>1, <1>3, <2>1, <2>2, FoundKnown DEF FoundGetOK
  <2>4. faults' = 0 => \A m \in Names : \/ staging'[m] = staging[m] /\ (staging[m] \in accepted \cup {Found!Nothing})
                                        \/ new.at \in {"hash", "signature"} /\ new.release.name = m
    BY <1>1, <2>1, <2>2, FoundKnown
  <2>5. QED
    BY <1>1, <2>1, <2>3, <2>4, FoundRunMoves DEF FoundInv
<1>4. QED
  BY <1>2, <1>3

LEMMA FoundCheckSignatureStep ==
  ASSUME FoundInv, NEW t \in {"updater"}, NEW fails \in BOOLEAN, Found!CheckSignature(t, fails)
  PROVE  FoundInv'
<1>1. /\ ~Found!At(t, "idle") /\ get[t].at = "signature"
      /\ UNCHANGED <<channel, host, sidecar, older>>
  BY DEF Found!CheckSignature, Found!At
<1>2. CASE ~Found!Takes(t)
  BY <1>1, <1>2, FoundRefusing DEF Found!CheckSignature
<1>3. CASE Found!Takes(t)
  <2> DEFINE new == [get[t] EXCEPT !.at = "sidecar"]
  <2>1. get' = [get EXCEPT ![t] = new] /\ UNCHANGED <<staging, faults>>
    BY <1>3 DEF Found!CheckSignature, Found!Goto, FoundInv
  <2>2. accepted' = accepted \cup {get[t].actual}
    BY <1>1, <1>3, FoundKnown DEF Found!CheckSignature, Found!Takes, Found!SignatureHolds, FoundGetOK
  <2>3. new \in FoundGets /\ new.at = "sidecar" /\ new.release = get[t].release /\ new.actual = get[t].actual
    BY <1>1, FoundKnown DEF FoundGets
  <2> HIDE DEF new
  <2>4. FoundGetOK(new, staging', accepted')
    BY <1>1, <2>1, <2>2, <2>3, FoundKnown DEF FoundGetOK
  <2>5. ASSUME faults' = 0, NEW m \in Names
        PROVE  \/ staging'[m] = staging[m] /\ (staging[m] \in accepted \cup {Found!Nothing})
               \/ staging'[m] \in accepted' \cup {Found!Nothing}
    <3>1. staging[get[t].release.name] = get[t].actual
      BY <1>1, FoundKnown DEF FoundGetOK
    <3>2. QED
      BY <1>1, <2>1, <2>2, <2>5, <3>1, FoundKnown
  <2>6. QED
    BY <1>1, <2>1, <2>2, <2>4, <2>5, FoundRunMoves DEF FoundInv
<1>4. QED
  BY <1>2, <1>3

LEMMA FoundSidecarStep ==
  ASSUME FoundInv, NEW t \in {"updater"}, NEW fails \in BOOLEAN, Found!Sidecar(t, fails)
  PROVE  FoundInv'
<1> DEFINE n == get[t].release.name
<1>1. /\ ~Found!At(t, "idle") /\ get[t].at = "sidecar" /\ Found!Count(fails) /\ Found!Stop(t)
      /\ UNCHANGED <<channel, host, staging, accepted, older>>
      /\ sidecar' = IF fails THEN sidecar ELSE [m \in {n} |-> staging[n]]
  BY DEF Found!Sidecar, Found!At
<1>2. staging[n] \in accepted
  BY <1>1, FoundKnown DEF FoundGetOK
<1>3. \A m \in DOMAIN sidecar' : sidecar'[m] \in accepted
  BY <1>1, <1>2 DEF FoundInv
<1>4. faults' = 0 => \A m \in Names : staging'[m] \in accepted' \cup {Found!Nothing}
  BY <1>1, FoundKnown, FoundCounted
<1>5. QED
  BY <1>1, <1>3, <1>4, FoundCounted, FoundStopping DEF FoundInv

LEMMA FoundDieStep ==
  ASSUME FoundInv, NEW t \in {"updater"}, Found!Die(t)
  PROVE  FoundInv'
BY FoundCounted, FoundStopping DEF Found!Die, FoundInv

LEMMA FoundEventStep ==
  ASSUME FoundInv, Found!Event, FoundNamed(channel'), host' \in [Names -> Payloads]
  PROVE  FoundInv'
BY DEF Found!Event, FoundInv, FoundPending

LEMMA FoundStep == FoundInv /\ [Found!Next]_(Found!udVars) => FoundInv'
<1> SUFFICES ASSUME FoundInv, [Found!Next]_(Found!udVars) PROVE FoundInv'
  OBVIOUS
<1>1. ASSUME NEW v \in 1..3, NEW n \in Names, NEW p \in Payloads, NEW s \in Found!Signatures, Found!Publish(v, n, p, s)
      PROVE  FoundInv'
  <2>1. /\ Found!Event /\ host' = host /\ channel' = [version |-> v, name |-> n, hash |-> p, signature |-> s]
    BY <1>1 DEF Found!Publish
  <2>2. FoundNamed(channel')
    BY <2>1 DEF FoundNamed, FoundReleases
  <2>3. QED
    BY <2>1, <2>2, FoundEventStep DEF FoundInv
<1>2. ASSUME NEW n \in Names, NEW p \in Payloads, Found!Serve(n, p) PROVE FoundInv'
  BY <1>2, FoundEventStep DEF Found!Serve, FoundInv
<1>3. ASSUME NEW k \in ReleaseKeys, Found!RevokeKey(k) PROVE FoundInv'
  BY <1>3, FoundEventStep DEF Found!RevokeKey, FoundInv
<1>4. CASE Found!Install
  BY <1>4, FoundEventStep DEF Found!Install, FoundInv
<1>5. CASE UNCHANGED Found!udVars
  BY <1>5 DEF Found!udVars, FoundInv, FoundPending
<1>6. QED
  BY <1>1, <1>2, <1>3, <1>4, <1>5, FoundDiscoverStep, FoundDieStep, FoundCheckVersionStep, FoundFetchStep, FoundCheckHashStep,
     FoundCheckSignatureStep, FoundSidecarStep DEF Found!Next

LEMMA FoundIsSound == FoundInv => Found!DownloadsAreSound
<1> SUFFICES ASSUME FoundInv PROVE Found!DownloadsAreSound
  OBVIOUS
<1>1. Found!StagedIsVerified
  BY DEF FoundInv, Found!StagedIsVerified
<1>2. Found!NothingUnverifiedStays
  BY DEF FoundInv, Found!NothingUnverifiedStays, FoundPending, Found!At
<1>3. QED
  BY <1>1, <1>2 DEF Found!DownloadsAreSound, FoundInv

LEMMA FoundAlways == SystemSpec => [](part = "discovery" => FoundInv)
<1> DEFINE Inv == part = "discovery" => FoundInv
<1>1. SystemInit => Inv
  BY FoundStarts DEF SystemInit
<1>2. Inv /\ [SystemNext]_systemVars => Inv'
  <2>1. ASSUME [SystemNext]_systemVars PROVE part' = part /\ (part = "discovery" => [Found!Next]_(Found!udVars))
    BY <2>1 DEF SystemNext, systemVars, foundVars, Found!udVars
  <2>2. QED
    BY <2>1, FoundStep
<1>3. QED
  BY <1>1, <1>2, PTL DEF SystemSpec

(* What is released was built from one state of the sources, and says no    *)
(* more of its signatures than is so; what is staged was verified, under a  *)
(* trusted key, and is no older than what runs (tools/release*.py and       *)
(* update.discovery).                                                       *)
THEOREM SuppliesAlwaysSound == SystemSpec => []SuppliesAreSound
<1>1. (part = "release" => ReleaseInv) /\ (part = "discovery" => FoundInv) => SuppliesAreSound
  BY ReleaseIsSound, FoundIsSound DEF SuppliesAreSound
<1>2. QED
  BY <1>1, ReleaseAlways, FoundAlways, PTL

-----------------------------------------------------------------------------
(* Operating system services                                                *)
-----------------------------------------------------------------------------
ServiceActions == {"start", "stop", "restart"}
ServiceCodes == {"none", "unsupported", "not allowed", "not_found", "permission_denied", "open_failed", "conflict",
          "start_failed", "stop_failed", "timeout", "failed"}
ServiceJobs == [at : {"open", "look", "send", "wait", "done"}, ok : BOOLEAN, code : ServiceCodes, service : ServiceNames,
         action : ServiceActions, phase : {"start", "stop"}, listed : BOOLEAN, before : Nat, sent : BOOLEAN,
         started : BOOLEAN]
ServiceDenials == {"unsupported", "not allowed", "permission_denied"}

(***************************************************************************)
(* What a call j knows, with the services in the state st, started inst    *)
(* times: the start of a restart follows a moment in which the service was *)
(* down, so that it is down still or was started since.                    *)
(***************************************************************************)
ServiceJobOK(j, st, inst, b) ==
    \/ j = Services!Idle
    \/ /\ j \in ServiceJobs
       /\ inst[j.service] >= j.before
       /\ j.at # "done" => ~j.ok /\ j.listed /\ j.code = "none"
       /\ j.at \in {"open", "look"} => ~j.sent
       /\ b = "windows" /\ j.action = "restart" /\ j.phase = "stop" => ~j.ok /\ ~j.started
       /\ j.action = "restart" /\ j.phase = "start" => inst[j.service] > j.before \/ st[j.service] = "stopped"
       /\ j.action = "restart" /\ j.ok => inst[j.service] > j.before
       /\ j.code \in ServiceDenials => ~j.sent
       /\ j.sent => j.listed

ServiceInv ==
    /\ units \in [ServiceNames -> Services!States] /\ instance \in [ServiceNames -> Nat]
    /\ control = [c \in Workers |-> control[c]]
    /\ \A c \in Workers : ServiceJobOK(control[c], units, instance, manager)

\* Instances are only added, and nothing comes up without a new one.
ServiceOnward ==
    /\ units' \in [ServiceNames -> Services!States] /\ instance' \in [ServiceNames -> Nat] /\ manager' = manager
    /\ \A s \in ServiceNames :
          /\ instance'[s] >= instance[s]
          /\ units[s] = "stopped" => units'[s] = "stopped" \/ instance'[s] > instance[s]

LEMMA ServiceStarts == Services!Init => ServiceInv
BY DEF Services!Init, ServiceInv, ServiceJobOK, Services!States

LEMMA ServiceOnwardKeeps ==
  ASSUME ServiceInv, ServiceOnward, NEW j, ServiceJobOK(j, units, instance, manager)
  PROVE  ServiceJobOK(j, units', instance', manager')
<1>1. CASE j = Services!Idle
  BY <1>1 DEF ServiceJobOK
<1>2. CASE j # Services!Idle
  <2> DEFINE s == j.service
  <2>1. j \in ServiceJobs /\ s \in ServiceNames /\ j.before \in Nat
    BY <1>2 DEF ServiceJobOK, ServiceJobs
  <2>2. /\ instance[s] \in Nat /\ instance'[s] \in Nat /\ instance'[s] >= instance[s]
        /\ units[s] = "stopped" => units'[s] = "stopped" \/ instance'[s] > instance[s]
    BY <2>1 DEF ServiceOnward, ServiceInv
  <2>3. /\ instance[s] >= j.before
        /\ j.action = "restart" /\ j.phase = "start" => instance[s] > j.before \/ units[s] = "stopped"
        /\ j.action = "restart" /\ j.ok => instance[s] > j.before
    BY <1>2 DEF ServiceJobOK
  <2>4. /\ instance'[s] >= j.before
        /\ j.action = "restart" /\ j.phase = "start" => instance'[s] > j.before \/ units'[s] = "stopped"
        /\ j.action = "restart" /\ j.ok => instance'[s] > j.before
    <3> HIDE DEF s
    <3>1. instance[s] > j.before => instance'[s] > j.before
      BY <2>1, <2>2
    <3>2. instance'[s] > instance[s] => instance'[s] > j.before
      BY <2>1, <2>2, <2>3
    <3>3. instance'[s] >= j.before
      BY <2>1, <2>2, <2>3
    <3>4. QED
      BY <2>2, <2>3, <3>1, <3>2, <3>3
  <2>5. QED
    BY <1>2, <2>4 DEF ServiceJobOK, ServiceOnward
<1>3. QED
  BY <1>1, <1>2

LEMMA ServiceJobMoves ==
  ASSUME ServiceInv, ServiceOnward, NEW c \in Workers, NEW new, control' = [control EXCEPT ![c] = new],
         ServiceJobOK(new, units', instance', manager')
  PROVE  ServiceInv'
<1>1. control' = [d \in Workers |-> control'[d]] /\ control'[c] = new
  BY DEF ServiceInv
<1>2. ASSUME NEW d \in Workers PROVE ServiceJobOK(control'[d], units', instance', manager')
  <2>1. CASE d = c
    BY <1>1, <2>1
  <2>2. CASE d # c
    <3>1. control'[d] = control[d] /\ ServiceJobOK(control[d], units, instance, manager)
      BY <2>2 DEF ServiceInv
    <3>2. QED
      BY <3>1, ServiceOnwardKeeps
  <2>3. QED
    BY <2>1, <2>2
<1>3. QED
  BY <1>1, <1>2 DEF ServiceInv, ServiceOnward

LEMMA ServiceOthersMove ==
  ASSUME ServiceInv, ServiceOnward, control' = control
  PROVE  ServiceInv'
<1>1. ASSUME NEW d \in Workers PROVE ServiceJobOK(control'[d], units', instance', manager')
  BY ServiceOnwardKeeps DEF ServiceInv
<1>2. QED
  BY <1>1 DEF ServiceInv, ServiceOnward

LEMMA ServiceStillOnward == ServiceInv /\ UNCHANGED <<manager, units, instance>> => ServiceOnward
BY DEF ServiceInv, ServiceOnward

LEMMA ServiceBecomeOnward ==
  ASSUME ServiceInv, NEW s \in ServiceNames, NEW next \in Services!States, units[s] # "stopped" \/ next = "stopped",
         Services!Become(s, next), manager' = manager
  PROVE  ServiceOnward
BY DEF ServiceInv, ServiceOnward, Services!Become

LEMMA ServiceLaunchedOnward ==
  ASSUME ServiceInv, NEW s \in ServiceNames, Services!Launched(s), manager' = manager
  PROVE  ServiceOnward /\ instance'[s] = instance[s] + 1
<1>1. instance \in [ServiceNames -> Nat] /\ units \in [ServiceNames -> Services!States]
  BY DEF ServiceInv
<1>2. instance' = [instance EXCEPT ![s] = instance[s] + 1] /\ units' = [units EXCEPT ![s] = "starting"]
  BY DEF Services!Launched
<1>3. QED
  BY <1>1, <1>2 DEF ServiceOnward, Services!States, Services!Pending

(* An answer.                                                               *)
LEMMA ServiceAnswers ==
  ASSUME ServiceInv, ServiceOnward, NEW c \in Workers, control[c].at \notin {"idle", "done"}, NEW code \in ServiceCodes,
         code \notin ServiceDenials \/ ~control[c].sent, Services!Answer(c, FALSE, code)
  PROVE  ServiceInv'
<1> DEFINE new == [control[c] EXCEPT !.at = "done", !.ok = FALSE, !.code = code]
<1>1. control[c] \in ServiceJobs /\ ServiceJobOK(control[c], units', instance', manager')
  BY ServiceOnwardKeeps DEF ServiceInv, ServiceJobOK, Services!Idle
<1>2. /\ new \in ServiceJobs /\ new.at = "done" /\ new.ok = FALSE /\ new.code = code
      /\ new.service = control[c].service /\ new.action = control[c].action /\ new.phase = control[c].phase
      /\ new.listed = control[c].listed /\ new.before = control[c].before /\ new.sent = control[c].sent
      /\ new.started = control[c].started
  BY <1>1 DEF ServiceJobs
<1>3. control' = [control EXCEPT ![c] = new]
  BY DEF Services!Answer, ServiceInv
<1> HIDE DEF new
<1>4. control[c] # Services!Idle
  BY DEF Services!Idle
<1>5. ServiceJobOK(new, units', instance', manager')
  BY <1>1, <1>2, <1>4 DEF ServiceJobOK
<1>6. QED
  BY <1>3, <1>5, ServiceJobMoves

LEMMA ServiceBeginStep ==
  ASSUME ServiceInv, NEW c \in Workers, NEW s \in ServiceNames, NEW action \in ServiceActions, Services!Begin(c, s, action)
  PROVE  ServiceInv'
<1> DEFINE new == [at |-> IF manager = "none" \/ ~Services!Allowed(s) THEN "done" ELSE "open",
         ok |-> FALSE,
         code |-> IF manager = "none" THEN "unsupported" ELSE IF Services!Allowed(s) THEN "none" ELSE "not allowed",
         service |-> s, action |-> action,
         phase |-> IF action = "restart" THEN "stop" ELSE action,
         listed |-> s \in allowlist,
         before |-> instance[s],
         sent |-> FALSE,
         started |-> FALSE]
<1>1. control' = [control EXCEPT ![c] = new] /\ UNCHANGED <<manager, units, instance>>
  BY DEF Services!Begin
<1>2. instance[s] \in Nat
  BY DEF ServiceInv
<1>3. new \in ServiceJobs
  BY <1>2 DEF ServiceJobs, ServiceActions, ServiceCodes
<1>4. /\ new.at # "done" => new.listed /\ new.code = "none"
      /\ new.ok = FALSE /\ new.sent = FALSE /\ new.started = FALSE /\ new.service = s /\ new.before = instance[s]
      /\ new.action = "restart" => new.phase = "stop"
  BY DEF Services!Allowed
<1> HIDE DEF new
<1>5. ServiceJobOK(new, units', instance', manager')
  BY <1>1, <1>2, <1>3, <1>4 DEF ServiceJobOK
<1>6. QED
  BY <1>1, <1>5, ServiceStillOnward, ServiceJobMoves

LEMMA ServiceOpenServiceStep ==
  ASSUME ServiceInv, NEW c \in Workers,
         NEW outcome \in {"ok", "not_found", "permission_denied", "open_failed"}, Services!OpenService(c, outcome)
  PROVE  ServiceInv'
<1>1. /\ ServiceOnward /\ control[c].at = "open" /\ control[c] \in ServiceJobs /\ ServiceJobOK(control[c], units', instance', manager')
      /\ ~control[c].sent /\ control[c] # Services!Idle
  BY ServiceStillOnward, ServiceOnwardKeeps DEF Services!OpenService, ServiceInv, ServiceJobOK, Services!Idle
<1>2. CASE outcome # "ok"
  BY <1>1, <1>2, ServiceAnswers DEF Services!OpenService, ServiceCodes
<1>3. CASE outcome = "ok"
  <2> DEFINE new == [control[c] EXCEPT !.at = "look"]
  <2>1. /\ new \in ServiceJobs /\ new.at = "look" /\ new.ok = control[c].ok /\ new.code = control[c].code
        /\ new.service = control[c].service /\ new.action = control[c].action /\ new.phase = control[c].phase
        /\ new.listed = control[c].listed /\ new.before = control[c].before /\ new.sent = control[c].sent
        /\ new.started = control[c].started
    BY <1>1 DEF ServiceJobs
  <2>2. control' = [control EXCEPT ![c] = new]
    BY <1>3 DEF Services!OpenService, Services!Goto, ServiceInv
  <2> HIDE DEF new
  <2>3. ServiceJobOK(new, units', instance', manager')
    BY <1>1, <2>1 DEF ServiceJobOK
  <2>4. QED
    BY <1>1, <2>2, <2>3, ServiceJobMoves
<1>4. QED
  BY <1>2, <1>3

LEMMA ServiceLookStep ==
  ASSUME ServiceInv, NEW c \in Workers, Services!Look(c)
  PROVE  ServiceInv'
<1> DEFINE now == units[control[c].service]
<1>1. /\ ServiceOnward /\ control[c].at = "look" /\ control[c] \in ServiceJobs /\ ServiceJobOK(control[c], units, instance, manager)
      /\ ~control[c].sent /\ control[c] # Services!Idle
  BY ServiceStillOnward DEF Services!Look, ServiceInv, ServiceJobOK, Services!Idle
<1>2. CASE Services!Conflicts(control[c].action, now)
  <2>1. Services!Answer(c, FALSE, "conflict")
    BY <1>2 DEF Services!Look
  <2>2. QED
    BY <1>1, <2>1, ServiceAnswers DEF ServiceCodes
<1>3. CASE ~Services!Conflicts(control[c].action, now)
  <2> DEFINE phase == IF control[c].action = "restart" /\ now = "stopped" THEN "start" ELSE control[c].phase
             new == [control[c] EXCEPT !.at = "send", !.phase = phase]
  <2>1. control' = [control EXCEPT ![c] = new] /\ UNCHANGED <<units, instance, manager>>
    BY <1>3 DEF Services!Look, ServiceInv
  <2>2. phase \in {"start", "stop"} /\ (phase # control[c].phase => phase = "start" /\ now = "stopped")
    BY <1>1 DEF ServiceJobs
  <2> HIDE DEF phase
  <2>3. /\ new \in ServiceJobs /\ new.at = "send" /\ new.ok = control[c].ok /\ new.code = control[c].code
        /\ new.service = control[c].service /\ new.action = control[c].action /\ new.phase = phase
        /\ new.listed = control[c].listed /\ new.before = control[c].before /\ new.sent = control[c].sent
        /\ new.started = control[c].started
    BY <1>1, <2>2 DEF ServiceJobs
  <2> HIDE DEF new
  <2>4. ServiceJobOK(new, units, instance, manager)
    BY <1>1, <2>2, <2>3 DEF ServiceJobOK
  <2>5. QED
    BY <1>1, <2>1, <2>4, ServiceJobMoves
<1>4. QED
  BY <1>2, <1>3

LEMMA ServiceSendStep ==
  ASSUME ServiceInv, NEW c \in Workers, NEW fails \in BOOLEAN, Services!Send(c, fails)
  PROVE  ServiceInv'
<1> DEFINE s == control[c].service
           start == control[c].phase = "start"
           acts == IF start THEN units[s] = "stopped" ELSE units[s] \in {"running", "paused"}
           refused == fails \/ (~start /\ units[s] \in Services!Pending)
<1>1. /\ control[c].at = "send" /\ control[c] \in ServiceJobs /\ ServiceJobOK(control[c], units, instance, manager) /\ control[c] # Services!Idle
      /\ s \in ServiceNames
  BY DEF Services!Send, ServiceInv, ServiceJobOK, Services!Idle, ServiceJobs
<1>2. /\ manager' = manager
      /\ IF refused \/ ~acts THEN UNCHANGED <<units, instance>>
         ELSE IF start THEN Services!Launched(s) ELSE Services!Become(s, "stopping")
      /\ IF refused THEN Services!Answer(c, FALSE, Services!Refusal(control[c].phase))
         ELSE control' = [control EXCEPT ![c].at = "wait", ![c].sent = @ \/ acts, ![c].started = @ \/ (start /\ acts)]
  BY DEF Services!Send
<1>3. ServiceOnward
  <2>1. CASE refused \/ ~acts
    BY <1>2, <2>1, ServiceStillOnward
  <2>2. CASE ~refused /\ acts /\ start
    BY <1>1, <1>2, <2>2, ServiceLaunchedOnward
  <2>3. CASE ~refused /\ acts /\ ~start
    BY <1>1, <1>2, <2>3, ServiceBecomeOnward DEF Services!States, Services!Pending
  <2>4. QED
    BY <2>1, <2>2, <2>3
<1>4. CASE refused
  <2>1. Services!Refusal(control[c].phase) \in ServiceCodes \ ServiceDenials
    BY DEF Services!Refusal, ServiceCodes, ServiceDenials
  <2>2. QED
    BY <1>1, <1>2, <1>3, <1>4, <2>1, ServiceAnswers
<1>5. CASE ~refused
  <2> DEFINE sent == control[c].sent \/ acts
             started == control[c].started \/ (start /\ acts)
             new == [control[c] EXCEPT !.at = "wait", !.sent = sent, !.started = started]
  <2>1. control' = [control EXCEPT ![c] = new]
    BY <1>2, <1>5 DEF ServiceInv
  <2>2. sent \in BOOLEAN /\ started \in BOOLEAN /\ (started => control[c].started \/ start)
    BY <1>1 DEF ServiceJobs
  <2>3. ServiceJobOK(control[c], units', instance', manager')
    BY <1>1, <1>3, ServiceOnwardKeeps
  <2> HIDE DEF sent, started
  <2>4. /\ new \in ServiceJobs /\ new.at = "wait" /\ new.ok = control[c].ok /\ new.code = control[c].code
        /\ new.service = control[c].service /\ new.action = control[c].action /\ new.phase = control[c].phase
        /\ new.listed = control[c].listed /\ new.before = control[c].before /\ new.sent = sent
        /\ new.started = started
    BY <1>1, <2>2 DEF ServiceJobs
  <2> HIDE DEF new
  <2>5. ServiceJobOK(new, units', instance', manager')
    BY <1>1, <2>2, <2>3, <2>4 DEF ServiceJobOK, ServiceDenials
  <2>6. QED
    BY <1>3, <2>1, <2>5, ServiceJobMoves
<1>6. QED
  BY <1>4, <1>5

LEMMA ServicePollStep ==
  ASSUME ServiceInv, NEW c \in Workers, NEW late \in BOOLEAN, Services!Poll(c, late)
  PROVE  ServiceInv'
<1> DEFINE phase == control[c].phase
           s == control[c].service
           now == units[s]
<1>1. /\ control[c].at = "wait" /\ control[c] \in ServiceJobs /\ ServiceJobOK(control[c], units, instance, manager) /\ control[c] # Services!Idle
      /\ ServiceOnward /\ UNCHANGED <<units, instance, manager>>
  BY ServiceStillOnward DEF Services!Poll, ServiceInv, ServiceJobOK, Services!Idle
<1>2. CASE Services!AfterStop(control[c].action, phase, Services!Reached(phase, now))
  <2> DEFINE new == [control[c] EXCEPT !.at = "send", !.phase = "start"]
  <2>1. control' = [control EXCEPT ![c] = new]
    BY <1>2 DEF Services!Poll, ServiceInv
  <2>2. now = "stopped" /\ control[c].action = "restart"
    BY <1>2 DEF Services!AfterStop, Services!Reached, Services!Goal
  <2>3. /\ new \in ServiceJobs /\ new.at = "send" /\ new.ok = control[c].ok /\ new.code = control[c].code
        /\ new.service = control[c].service /\ new.action = control[c].action /\ new.phase = "start"
        /\ new.listed = control[c].listed /\ new.before = control[c].before /\ new.sent = control[c].sent
        /\ new.started = control[c].started
    BY <1>1 DEF ServiceJobs
  <2> HIDE DEF new
  <2>4. ServiceJobOK(new, units, instance, manager)
    BY <1>1, <2>2, <2>3 DEF ServiceJobOK
  <2>5. QED
    BY <1>1, <2>1, <2>4, ServiceJobMoves
<1>3. CASE ~Services!AfterStop(control[c].action, phase, Services!Reached(phase, now)) /\ Services!Reached(phase, now)
  <2> DEFINE new == [control[c] EXCEPT !.at = "done", !.ok = TRUE, !.code = "none"]
  <2>1. control' = [control EXCEPT ![c] = new]
    BY <1>3 DEF Services!Poll, ServiceInv, Services!Answer
  <2>2. control[c].action = "restart" => phase = "start" /\ now = "running"
    BY <1>1, <1>3 DEF Services!AfterStop, Services!Reached, Services!Goal, ServiceJobs
  <2>3. /\ new \in ServiceJobs /\ new.at = "done" /\ new.ok = TRUE /\ new.code = "none"
        /\ new.service = control[c].service /\ new.action = control[c].action /\ new.phase = phase
        /\ new.listed = control[c].listed /\ new.before = control[c].before /\ new.sent = control[c].sent
        /\ new.started = control[c].started
    BY <1>1 DEF ServiceJobs, ServiceCodes
  <2> HIDE DEF new
  <2>4. ServiceJobOK(new, units, instance, manager)
    BY <1>1, <2>2, <2>3 DEF ServiceJobOK, ServiceDenials
  <2>5. QED
    BY <1>1, <2>1, <2>4, ServiceJobMoves
<1>4. CASE ~Services!AfterStop(control[c].action, phase, Services!Reached(phase, now)) /\ ~Services!Reached(phase, now)
  <2>1. Services!Answer(c, FALSE, Services!TooLate(phase, now))
    BY <1>4 DEF Services!Poll
  <2>2. Services!TooLate(phase, now) \in ServiceCodes \ ServiceDenials
    BY DEF Services!TooLate, Services!Refusal, ServiceDenials, ServiceCodes
  <2>3. QED
    BY <1>1, <2>1, <2>2, ServiceAnswers
<1>5. QED
  BY <1>2, <1>3, <1>4

LEMMA ServiceSystemctlStep ==
  ASSUME ServiceInv, NEW c \in Workers,
         NEW outcome \in {"none", "permission_denied", "not_found", "failed", "timeout"}, Services!Systemctl(c, outcome)
  PROVE  ServiceInv'
<1> DEFINE s == control[c].service
           action == control[c].action
           down == action # "start" /\ units[s] # "stopped"
           up == action = "restart" \/ (action = "start" /\ units[s] = "stopped")
<1>1. /\ control[c].at = "open" /\ control[c] \in ServiceJobs /\ ServiceJobOK(control[c], units, instance, manager) /\ control[c] # Services!Idle
      /\ s \in ServiceNames /\ manager = "linux" /\ manager' = manager /\ instance[s] \in Nat /\ control[c].before \in Nat
      /\ units[s] \in Services!States /\ units[s] \notin Services!Pending
  BY DEF Services!Systemctl, ServiceInv, ServiceJobOK, Services!Idle, ServiceJobs
<1>2. CASE outcome = "none"
  <2>1. /\ units' = [units EXCEPT ![s] = IF up THEN "running" ELSE IF down THEN "stopped" ELSE units[s]]
        /\ instance' = [instance EXCEPT ![s] = IF up THEN instance[s] + 1 ELSE instance[s]]
    BY <1>2 DEF Services!Systemctl
  <2>2. ASSUME up PROVE ServiceOnward /\ instance'[s] = instance[s] + 1
    <3>1. units' = [units EXCEPT ![s] = "running"] /\ instance' = [instance EXCEPT ![s] = instance[s] + 1]
      BY <2>1, <2>2
    <3>2. QED
      BY <1>1, <3>1 DEF ServiceOnward, ServiceInv, Services!States
  <2>3. ASSUME ~up PROVE ServiceOnward /\ action # "restart"
    <3>1. /\ units' = [units EXCEPT ![s] = IF down THEN "stopped" ELSE units[s]]
          /\ instance' = [instance EXCEPT ![s] = instance[s]] /\ action # "restart"
      BY <2>1, <2>3
    <3>2. QED
      BY <1>1, <3>1 DEF ServiceOnward, ServiceInv, Services!States
  <2>4. ServiceOnward /\ (action = "restart" => instance'[s] = instance[s] + 1)
    BY <2>2, <2>3
  <2> DEFINE started == up /\ outcome \in {"none", "timeout"} /\ ~(down /\ outcome = "timeout")
             new == [control[c] EXCEPT !.at = "done", !.ok = TRUE, !.code = "none", !.sent = TRUE, !.started = started]
  <2>5. control' = [control EXCEPT ![c] = new]
    BY <1>2 DEF Services!Systemctl, ServiceInv
  <2>6. started \in BOOLEAN
    OBVIOUS
  <2> HIDE DEF started
  <2>7. /\ new \in ServiceJobs /\ new.at = "done" /\ new.ok = TRUE /\ new.code = "none"
        /\ new.service = control[c].service /\ new.action = control[c].action /\ new.phase = control[c].phase
        /\ new.listed = control[c].listed /\ new.before = control[c].before /\ new.sent = TRUE
    BY <1>1, <2>6 DEF ServiceJobs, ServiceCodes
  <2> HIDE DEF new
  <2>8. ServiceJobOK(control[c], units', instance', manager') /\ instance[s] >= control[c].before /\ control[c].listed
    BY <1>1, <2>4, ServiceOnwardKeeps DEF ServiceJobOK
  <2>9. action = "restart" => instance'[s] > control[c].before
    BY <1>1, <2>4, <2>8
  <2>10. ServiceJobOK(new, units', instance', manager')
    BY <1>1, <2>7, <2>8, <2>9 DEF ServiceJobOK, ServiceDenials
  <2>11. QED
    BY <2>4, <2>5, <2>10, ServiceJobMoves
<1>3. CASE outcome # "none"
  <2>1. ServiceOnward
    <3>1. CASE outcome \in {"permission_denied", "not_found"}
      BY <1>1, <3>1, ServiceStillOnward DEF Services!Systemctl
    <3>2. CASE outcome = "failed"
      BY <1>1, <3>2, ServiceBecomeOnward DEF Services!Systemctl, Services!States
    <3>3. CASE outcome = "timeout" /\ down
      BY <1>1, <3>3, ServiceBecomeOnward DEF Services!Systemctl, Services!States, Services!Pending
    <3>4. CASE outcome = "timeout" /\ ~down /\ up
      BY <1>1, <3>4, ServiceLaunchedOnward DEF Services!Systemctl
    <3>5. CASE outcome = "timeout" /\ ~down /\ ~up
      BY <1>1, <3>5, ServiceStillOnward DEF Services!Systemctl
    <3>6. QED
      BY <1>3, <3>1, <3>2, <3>3, <3>4, <3>5
  <2> DEFINE started == up /\ outcome \in {"none", "timeout"} /\ ~(down /\ outcome = "timeout")
             sent == outcome \notin {"permission_denied", "not_found"}
             new == [control[c] EXCEPT !.at = "done", !.ok = FALSE, !.code = outcome, !.sent = sent, !.started = started]
  <2>2. control' = [control EXCEPT ![c] = new]
    BY <1>3 DEF Services!Systemctl, ServiceInv
  <2>3. started \in BOOLEAN /\ sent \in BOOLEAN /\ outcome \in ServiceCodes /\ (outcome \in ServiceDenials => ~sent)
    BY DEF ServiceDenials, ServiceCodes
  <2> HIDE DEF started, sent
  <2>4. /\ new \in ServiceJobs /\ new.at = "done" /\ new.ok = FALSE /\ new.code = outcome
        /\ new.service = control[c].service /\ new.action = control[c].action /\ new.phase = control[c].phase
        /\ new.listed = control[c].listed /\ new.before = control[c].before /\ new.sent = sent
    BY <1>1, <2>3 DEF ServiceJobs
  <2> HIDE DEF new
  <2>5. ServiceJobOK(control[c], units', instance', manager') /\ control[c].listed
    BY <1>1, <2>1, ServiceOnwardKeeps DEF ServiceJobOK
  <2>6. ServiceJobOK(new, units', instance', manager')
    BY <1>1, <2>3, <2>4, <2>5 DEF ServiceJobOK
  <2>7. QED
    BY <2>1, <2>2, <2>6, ServiceJobMoves
<1>4. QED
  BY <1>2, <1>3

LEMMA ServiceStep == ServiceInv /\ [Services!Next]_(Services!scVars) => ServiceInv'
<1> SUFFICES ASSUME ServiceInv, [Services!Next]_(Services!scVars) PROVE ServiceInv'
  OBVIOUS
<1>1. ASSUME NEW s \in ServiceNames, Services!Settle(s) PROVE ServiceInv'
  <2>1. ServiceOnward
    BY <1>1, ServiceBecomeOnward DEF Services!Settle, Services!States, Services!Pending
  <2>2. QED
    BY <1>1, <2>1, ServiceOthersMove DEF Services!Settle
<1>2. ASSUME NEW s \in ServiceNames, Services!Others(s) PROVE ServiceInv'
  <2>1. ServiceOnward
    BY <1>2, ServiceBecomeOnward, ServiceLaunchedOnward DEF Services!Others, Services!States
  <2>2. QED
    BY <1>2, <2>1, ServiceOthersMove DEF Services!Others
<1>3. ASSUME NEW names, Services!SetAllowlist(names) PROVE ServiceInv'
  BY <1>3, ServiceStillOnward, ServiceOthersMove DEF Services!SetAllowlist
<1>4. CASE UNCHANGED Services!scVars
  BY <1>4, ServiceStillOnward, ServiceOthersMove DEF Services!scVars
<1>5. QED
  BY <1>1, <1>2, <1>3, <1>4, ServiceBeginStep, ServiceOpenServiceStep, ServiceLookStep, ServiceSendStep, ServicePollStep, ServiceSystemctlStep DEF Services!Next, ServiceActions

LEMMA ServiceIsSound == ServiceInv => Services!ControlIsHonest
<1> SUFFICES ASSUME ServiceInv, NEW c \in Workers, control[c].at # "idle"
             PROVE  /\ Services!Done(c) /\ control[c].ok /\ control[c].action = "restart" => instance[control[c].service] > control[c].before
                    /\ manager = "windows" /\ control[c].action = "restart" /\ control[c].phase = "stop"
                          => ~control[c].ok /\ ~control[c].started
                    /\ Services!AuditOutcome(c) = "denied" => ~control[c].sent
                    /\ control[c].sent => control[c].listed
  BY DEF Services!ControlIsHonest, Services!RestartIsNew, Services!AbortedRestartStartsNothing, Services!DenialsTouchNothing, Services!Done
<1>1. ServiceJobOK(control[c], units, instance, manager) /\ control[c] # Services!Idle
  BY DEF ServiceInv, Services!Idle
<1>2. Services!AuditOutcome(c) = "denied" => control[c].code \in ServiceDenials
  <2> DEFINE code == control[c].code
  <2>1. Services!Http(c) = CASE code = "unsupported" -> 501
                    [] code \in {"not allowed", "permission_denied"} -> 403
                    [] code = "not_found" -> 404
                    [] code = "conflict" -> 409
                    [] code = "timeout" -> 504
                    [] OTHER -> 200
    BY DEF Services!Http
  <2> HIDE DEF code
  <2>2. code \notin ServiceDenials => Services!Http(c) \in {404, 409, 504, 200}
    BY <2>1 DEF ServiceDenials
  <2>3. code \notin ServiceDenials => ~(Services!Http(c) \in {403, 501})
    BY <2>2
  <2>4. QED
    BY <2>3 DEF Services!AuditOutcome, code
<1>3. QED
  BY <1>1, <1>2 DEF ServiceJobOK

LEMMA ServiceAlways == SystemSpec => [](part = "services" => ServiceInv)
<1> DEFINE Inv == part = "services" => ServiceInv
<1>1. SystemInit => Inv
  BY ServiceStarts DEF SystemInit
<1>2. Inv /\ [SystemNext]_systemVars => Inv'
  <2>1. ASSUME [SystemNext]_systemVars PROVE part' = part /\ (part = "services" => [Services!Next]_(Services!scVars))
    BY <2>1 DEF SystemNext, systemVars, serviceVars, Services!scVars
  <2>2. QED
    BY <2>1, ServiceStep
<1>3. QED
  BY <1>1, <1>2, PTL DEF SystemSpec

-----------------------------------------------------------------------------
(* Files                                                                    *)
-----------------------------------------------------------------------------
FileKinds == {"read", "write", "delete", "stat"}
FileContents == {Space!Empty, Space!Foreign, Space!Local, Space!Sent, Space!Begun}
FileCodes == {"none", "ok", "PATH_TRAVERSAL", "PATH_SYMLINK_REFUSED", "PATH_NOT_FOUND", "PATH_OUTSIDE_SANDBOX"}
FileWalked == FileKinds \cup {"walk leaf", "create", "opened", "get", "put"}
FileOps == [at : FileWalked \cup {"walk", "done"}, kind : FileKinds, data : FileContents, file : Space!Folders, code : FileCodes]

(***************************************************************************)
(* The tree: what callers write never lies elsewhere, and no bytes from    *)
(* elsewhere lie here.  Before others move anything there is no link.      *)
(***************************************************************************)
FileTreeOK ==
    /\ folder \in {"dir", "link", "missing"} /\ inside = (folder = "dir")
    /\ leaf \in [Space!Folders -> {"file", "link", "missing"}] /\ bytes \in [Space!Folders -> FileContents]
    /\ bytes[Space!Here] # Space!Foreign /\ bytes[Space!There] \notin {Space!Sent, Space!Begun}
    /\ moves \in Nat /\ (moves = 0 => folder # "link" /\ leaf[Space!Here] # "link")

(***************************************************************************)
(* A call o past its second look has a file here; before others move       *)
(* anything, so has one past its first.                                    *)
(***************************************************************************)
FileOpOK(o, m, f) ==
    \/ o = Space!Idle
    \/ /\ o \in FileOps /\ o.data # Space!Foreign
       /\ o.at \in {"get", "put"} => o.file = Space!Here
       /\ o.at \in FileKinds => o.kind = o.at
       /\ o.at \in {"create", "put"} => o.kind = "write"
       /\ o.at = "opened" => o.kind \in {"read", "write"}
       /\ o.at = "get" => o.kind = "read"
       /\ m = 0 /\ o.at \in FileWalked => f = "dir" /\ (o.at = "opened" => o.file = Space!Here)

\* What one who is alone knows of the file, l its kind and b its bytes.
FileTold(o, l, b) ==
    /\ o.at \in {"opened", "put"} /\ o.kind = "write" => l = "file"
    /\ o.at = "done" /\ o.code = "ok" =>
        /\ o.kind = "write" => l = "file" /\ b \in {Space!Sent, Space!Begun}
        /\ o.kind = "delete" => l = "missing"
        /\ o.kind = "stat" => l = "file"

FileAlone(r) == moves = 0 /\ \A q \in Workers \ {r} : Space!At(q, "idle")

FileInv ==
    /\ FileTreeOK
    /\ fileOp = [r \in Workers |-> fileOp[r]]
    /\ \A r \in Workers : FileOpOK(fileOp[r], moves, folder)
    /\ \A r \in Workers : FileAlone(r) /\ ~Space!At(r, "idle") => FileTold(fileOp[r], leaf[Space!Here], bytes[Space!Here])

LEMMA FileStarts == Space!Init => FileInv
<1> SUFFICES ASSUME Space!Init PROVE FileInv
  OBVIOUS
<1>1. Space!Here \in Space!Folders /\ Space!There \in Space!Folders /\ Space!Here # Space!There
  BY DEF Space!Folders, Space!Here, Space!There
<1>2. FileTreeOK
  BY <1>1 DEF Space!Init, FileTreeOK, FileContents, Space!Empty, Space!Foreign, Space!Local, Space!Sent, Space!Begun
<1>3. QED
  BY <1>2 DEF Space!Init, FileInv, FileOpOK, Space!Idle, Space!At

(* A step of one request.                                                   *)
LEMMA FileOpMoves ==
  ASSUME FileInv, NEW r \in Workers, NEW new, fileOp' = [fileOp EXCEPT ![r] = new], FileTreeOK', moves' = moves,
         folder = "dir" => folder' = "dir", new # Space!Idle, FileOpOK(new, moves', folder'),
         FileAlone(r) => FileTold(new, leaf'[Space!Here], bytes'[Space!Here])
  PROVE  FileInv'
<1>1. fileOp' = [q \in Workers |-> fileOp'[q]] /\ fileOp'[r] = new /\ \A q \in Workers \ {r} : fileOp'[q] = fileOp[q]
  BY DEF FileInv
<1>2. new.at # "idle"
  BY DEF FileOpOK, FileOps, FileWalked, FileKinds
<1>3. ASSUME NEW q \in Workers PROVE FileOpOK(fileOp'[q], moves', folder')
  <2>1. CASE q = r
    BY <1>1, <2>1
  <2>2. CASE q # r
    <3>1. fileOp'[q] = fileOp[q] /\ FileOpOK(fileOp[q], moves, folder)
      BY <1>1, <2>2 DEF FileInv
    <3>2. QED
      BY <3>1 DEF FileOpOK
  <2>3. QED
    BY <2>1, <2>2
<1>4. ASSUME NEW q \in Workers, FileAlone(q)', ~Space!At(q, "idle")' PROVE FileTold(fileOp'[q], leaf'[Space!Here], bytes'[Space!Here])
  <2>1. CASE q = r
    <3>1. FileAlone(r)
      BY <1>1, <1>4, <2>1 DEF FileAlone, Space!At
    <3>2. QED
      BY <1>1, <2>1, <3>1
  <2>2. CASE q # r
    BY <1>1, <1>2, <1>4, <2>2 DEF FileAlone, Space!At
  <2>3. QED
    BY <2>1, <2>2
<1>5. QED
  BY <1>1, <1>3, <1>4 DEF FileInv

(* A step of others.                                                        *)
LEMMA FileOthersMove ==
  ASSUME FileInv, fileOp' = fileOp, moves' = moves + 1, FileTreeOK'
  PROVE  FileInv'
<1>1. moves' # 0
  BY DEF FileInv, FileTreeOK
<1>2. ASSUME NEW q \in Workers PROVE FileOpOK(fileOp'[q], moves', folder')
  BY <1>1 DEF FileInv, FileOpOK
<1>3. \A q \in Workers : ~FileAlone(q)'
  BY <1>1 DEF FileAlone
<1>4. QED
  BY <1>2, <1>3 DEF FileInv

(* The tree as it is, and one request goes on, is refused or succeeds.      *)
LEMMA FileGoing ==
  ASSUME FileInv, NEW r \in Workers, ~Space!At(r, "idle"), NEW place \in FileWalked, Space!Goto(r, place), FileTreeOK', moves' = moves,
         folder = "dir" => folder' = "dir", moves = 0 => folder' = "dir",
         place \in {"get", "put"} => fileOp[r].file = Space!Here,
         place \in FileKinds => fileOp[r].kind = place,
         place \in {"create", "put"} => fileOp[r].kind = "write",
         place = "get" => fileOp[r].kind = "read",
         place # "opened",
         FileAlone(r) /\ place = "put" => leaf'[Space!Here] = "file"
  PROVE  FileInv'
<1> DEFINE new == [fileOp[r] EXCEPT !.at = place]
<1>1. FileOpOK(fileOp[r], moves, folder) /\ fileOp[r] # Space!Idle
  BY DEF FileInv, Space!At, Space!Idle
<1>2. /\ new \in FileOps /\ new.at = place /\ new.kind = fileOp[r].kind /\ new.data = fileOp[r].data
      /\ new.file = fileOp[r].file /\ new.code = fileOp[r].code
  BY <1>1 DEF FileOpOK, FileOps
<1>3. fileOp' = [fileOp EXCEPT ![r] = new]
  BY DEF Space!Goto, FileInv
<1> HIDE DEF new
<1>4. new # Space!Idle
  <2>1. place # "idle"
    BY DEF FileWalked, FileKinds
  <2>2. QED
    BY <1>2, <2>1 DEF Space!Idle
<1>5. FileOpOK(new, moves', folder')
  BY <1>1, <1>2 DEF FileOpOK
<1>6. FileAlone(r) => FileTold(new, leaf'[Space!Here], bytes'[Space!Here])
  BY <1>2 DEF FileTold, FileWalked, FileKinds
<1>7. QED
  BY <1>3, <1>4, <1>5, <1>6, FileOpMoves

(* A call is over.                                                          *)
LEMMA FileFinishes ==
  ASSUME FileInv, NEW r \in Workers, ~Space!At(r, "idle"), NEW code \in FileCodes, NEW data \in FileContents, data # Space!Foreign,
         fileOp' = [fileOp EXCEPT ![r] = [fileOp[r] EXCEPT !.at = "done", !.code = code, !.data = data]],
         FileTreeOK', moves' = moves, folder = "dir" => folder' = "dir",
         FileAlone(r) /\ code = "ok" =>
            /\ fileOp[r].kind = "write" => leaf'[Space!Here] = "file" /\ bytes'[Space!Here] \in {Space!Sent, Space!Begun}
            /\ fileOp[r].kind = "delete" => leaf'[Space!Here] = "missing"
            /\ fileOp[r].kind = "stat" => leaf'[Space!Here] = "file"
  PROVE  FileInv'
<1> DEFINE new == [fileOp[r] EXCEPT !.at = "done", !.code = code, !.data = data]
<1>1. FileOpOK(fileOp[r], moves, folder) /\ fileOp[r] # Space!Idle
  BY DEF FileInv, Space!At, Space!Idle
<1>2. /\ new \in FileOps /\ new.at = "done" /\ new.kind = fileOp[r].kind /\ new.data = data
      /\ new.file = fileOp[r].file /\ new.code = code
  BY <1>1 DEF FileOpOK, FileOps
<1> HIDE DEF new
<1>3. fileOp' = [fileOp EXCEPT ![r] = new]
  BY DEF new
<1>4. new # Space!Idle
  BY <1>2 DEF Space!Idle
<1>5. FileOpOK(new, moves', folder')
  BY <1>1, <1>2 DEF FileOpOK, FileWalked, FileKinds
<1>6. FileAlone(r) => FileTold(new, leaf'[Space!Here], bytes'[Space!Here])
  BY <1>2 DEF FileTold
<1>7. QED
  BY <1>3, <1>4, <1>5, <1>6, FileOpMoves

LEMMA FileRefused ==
  ASSUME FileInv, NEW r \in Workers, ~Space!At(r, "idle"), NEW code \in FileCodes \ {"ok"}, Space!Refuse(r, code),
         UNCHANGED <<Space!Tree, moves>>
  PROVE  FileInv'
<1>1. fileOp[r] \in FileOps /\ fileOp[r].data \in FileContents /\ fileOp[r].data # Space!Foreign
  BY DEF FileInv, FileOpOK, Space!At, Space!Idle, FileOps
<1>2. fileOp' = [fileOp EXCEPT ![r] = [fileOp[r] EXCEPT !.at = "done", !.code = code]]
  BY DEF Space!Refuse, FileInv
<1>3. [fileOp[r] EXCEPT !.at = "done", !.code = code] = [fileOp[r] EXCEPT !.at = "done", !.code = code, !.data = fileOp[r].data]
  BY <1>1 DEF FileOps
<1>4. FileTreeOK'
  BY DEF FileInv, FileTreeOK, Space!Tree
<1>5. QED
  BY <1>1, <1>2, <1>3, <1>4, FileFinishes DEF Space!Tree

LEMMA FileSucceedIs ==
  ASSUME FileInv, NEW r \in Workers, NEW data, Space!Succeed(r, data)
  PROVE  fileOp' = [fileOp EXCEPT ![r] = [fileOp[r] EXCEPT !.at = "done", !.code = "ok", !.data = data]]
BY DEF Space!Succeed, FileInv

LEMMA FileSucceeds ==
  ASSUME FileInv, NEW r \in Workers, ~Space!At(r, "idle"), NEW data \in FileContents, data # Space!Foreign, Space!Succeed(r, data),
         FileTreeOK', moves' = moves, folder = "dir" => folder' = "dir",
         FileAlone(r) =>
            /\ fileOp[r].kind = "write" => leaf'[Space!Here] = "file" /\ bytes'[Space!Here] \in {Space!Sent, Space!Begun}
            /\ fileOp[r].kind = "delete" => leaf'[Space!Here] = "missing"
            /\ fileOp[r].kind = "stat" => leaf'[Space!Here] = "file"
  PROVE  FileInv'
<1> DEFINE code == "ok"
<1>1. code \in FileCodes
  BY DEF FileCodes
<1>2. fileOp' = [fileOp EXCEPT ![r] = [fileOp[r] EXCEPT !.at = "done", !.code = code, !.data = data]]
  BY FileSucceedIs
<1> HIDE DEF code
<1>3. QED
  BY <1>1, <1>2, FileFinishes

LEMMA FileTreeStays == ASSUME FileInv, UNCHANGED <<Space!Tree, moves>> PROVE FileTreeOK'
BY DEF FileInv, FileTreeOK, Space!Tree

\* What is known of a call under way.
LEMMA FileKnown ==
  ASSUME FileInv, NEW r \in Workers, ~Space!At(r, "idle")
  PROVE  /\ fileOp[r] \in FileOps /\ FileOpOK(fileOp[r], moves, folder) /\ fileOp[r] # Space!Idle
         /\ FileAlone(r) => moves = 0 /\ FileTold(fileOp[r], leaf[Space!Here], bytes[Space!Here])
BY DEF FileInv, FileOpOK, Space!At, Space!Idle, FileAlone

LEMMA FileHereIs == Space!Here \in Space!Folders /\ Space!There \in Space!Folders /\ Space!Here # Space!There
BY DEF Space!Folders, Space!Here, Space!There

LEMMA FileBeginStep ==
  ASSUME FileInv, NEW r \in Workers, NEW kind \in FileKinds, NEW wellFormed \in BOOLEAN, Space!Begin(r, kind, wellFormed)
  PROVE  FileInv'
<1> DEFINE new == [at |-> IF wellFormed THEN "walk" ELSE "done", kind |-> kind, data |-> Space!Empty,
                   file |-> Space!Here, code |-> IF wellFormed THEN "none" ELSE "PATH_TRAVERSAL"]
<1>1. /\ new \in FileOps /\ new.at \in {"walk", "done"} /\ new.code # "ok" /\ new.data = Space!Empty
  BY FileHereIs DEF FileOps, FileContents, FileCodes, Space!Folders
<1>2. fileOp' = [fileOp EXCEPT ![r] = new] /\ UNCHANGED <<Space!Tree, moves>>
  BY DEF Space!Begin
<1> HIDE DEF new
<1>3. new # Space!Idle /\ FileOpOK(new, moves', folder')
  <2>1. new # Space!Idle
    BY <1>1 DEF Space!Idle
  <2>2. Space!Empty # Space!Foreign
    BY DEF Space!Empty, Space!Foreign
  <2>3. QED
    BY <1>1, <2>1, <2>2 DEF FileOpOK, FileWalked, FileKinds
<1>4. FileTold(new, leaf'[Space!Here], bytes'[Space!Here])
  BY <1>1 DEF FileTold
<1>5. QED
  BY <1>2, <1>3, <1>4, FileTreeStays, FileOpMoves DEF Space!Tree

LEMMA FileWalkFolderStep ==
  ASSUME FileInv, NEW r \in Workers, Space!WalkFolder(r)
  PROVE  FileInv'
<1>1. ~Space!At(r, "idle") /\ UNCHANGED <<Space!Tree, moves>> /\ folder \in {"dir", "link", "missing"}
  BY DEF Space!WalkFolder, Space!At, FileInv, FileTreeOK
<1>2. CASE folder # "dir"
  BY <1>1, <1>2, FileRefused DEF Space!WalkFolder, FileCodes
<1>3. CASE folder = "dir"
  BY <1>1, <1>3, FileGoing, FileTreeStays DEF Space!WalkFolder, FileWalked, FileKinds, Space!Tree
<1>4. QED
  BY <1>2, <1>3

LEMMA FileWalkLeafStep ==
  ASSUME FileInv, NEW r \in Workers, Space!WalkLeaf(r)
  PROVE  FileInv'
<1>1. ~Space!At(r, "idle") /\ Space!At(r, "walk leaf") /\ UNCHANGED <<Space!Tree, moves>>
  BY DEF Space!WalkLeaf, Space!At
<1>2. fileOp[r].kind \in FileKinds /\ (moves = 0 => folder = "dir")
  BY <1>1, FileKnown DEF FileOpOK, FileOps, Space!At, FileWalked
<1>3. CASE Space!Leaf = "link"
  BY <1>1, <1>3, FileRefused DEF Space!WalkLeaf, FileCodes
<1>4. CASE Space!Leaf # "link"
  BY <1>1, <1>2, <1>4, FileGoing, FileTreeStays DEF Space!WalkLeaf, FileWalked, FileKinds, Space!Tree
<1>5. QED
  BY <1>3, <1>4

\* The name leads here as long as nobody has moved anything.
LEMMA FileLeafIs ==
  ASSUME FileInv
  PROVE  /\ Space!Leaf \in {"file", "link", "missing"} /\ Space!Target \in Space!Folders
         /\ folder = "dir" => Space!Target = Space!Here /\ Space!Leaf = leaf[Space!Here]
         /\ Space!Leaf = "file" => leaf[Space!Target] = "file"
BY FileHereIs DEF FileInv, FileTreeOK, Space!Leaf, Space!Target

LEMMA FileStatStep ==
  ASSUME FileInv, NEW r \in Workers, Space!Stat(r)
  PROVE  FileInv'
<1>1. ~Space!At(r, "idle") /\ Space!At(r, "stat") /\ UNCHANGED <<Space!Tree, moves>>
  BY DEF Space!Stat, Space!At
<1>2. fileOp[r].kind = "stat" /\ (moves = 0 => folder = "dir")
  BY <1>1, FileKnown DEF FileOpOK, Space!At, FileWalked, FileKinds
<1>3. CASE Space!Leaf # "file"
  BY <1>1, <1>3, FileRefused, FileLeafIs DEF Space!Stat, FileCodes
<1>4. CASE Space!Leaf = "file"
  <2>1. Space!Succeed(r, Space!Empty)
    BY <1>4 DEF Space!Stat
  <2>2. FileAlone(r) => leaf'[Space!Here] = "file"
    BY <1>1, <1>2, <1>4, FileLeafIs DEF FileAlone, Space!Tree
  <2>3. "ok" \in FileCodes /\ Space!Empty \in FileContents /\ Space!Empty # Space!Foreign /\ FileTreeOK'
    BY <1>1, FileTreeStays DEF FileCodes, FileContents, Space!Empty, Space!Foreign
  <2>4. QED
    BY <1>1, <1>2, <2>1, <2>2, <2>3, FileSucceeds DEF Space!Tree
<1>5. QED
  BY <1>3, <1>4

LEMMA FileOpenReadStep ==
  ASSUME FileInv, NEW r \in Workers, Space!OpenRead(r)
  PROVE  FileInv'
<1>1. ~Space!At(r, "idle") /\ Space!At(r, "read") /\ UNCHANGED <<Space!Tree, moves>>
  BY DEF Space!OpenRead, Space!At
<1>2. fileOp[r].kind = "read" /\ (moves = 0 => folder = "dir") /\ fileOp[r] \in FileOps /\ FileOpOK(fileOp[r], moves, folder)
  BY <1>1, FileKnown DEF FileOpOK, Space!At, FileWalked, FileKinds
<1>3. CASE Space!Leaf # "file"
  BY <1>1, <1>3, FileRefused, FileLeafIs DEF Space!OpenRead, FileCodes
<1>4. CASE Space!Leaf = "file"
  <2> DEFINE new == [fileOp[r] EXCEPT !.at = "opened", !.file = Space!Target]
  <2>1. fileOp' = [fileOp EXCEPT ![r] = new]
    BY <1>4 DEF Space!OpenRead, FileInv
  <2>2. /\ new \in FileOps /\ new.at = "opened" /\ new.kind = "read" /\ new.data = fileOp[r].data
        /\ new.file = Space!Target /\ new.code = fileOp[r].code
    BY <1>2, FileLeafIs DEF FileOps, FileWalked
  <2> HIDE DEF new
  <2>3. new # Space!Idle /\ fileOp[r] # Space!Idle
    BY <1>1, <2>2 DEF Space!Idle, Space!At
  <2>4. FileOpOK(new, moves', folder')
    BY <1>1, <1>2, <2>2, <2>3, FileLeafIs DEF FileOpOK, FileWalked, FileKinds, Space!Tree
  <2>5. FileTold(new, leaf'[Space!Here], bytes'[Space!Here])
    BY <2>2 DEF FileTold
  <2>6. QED
    BY <1>1, <2>1, <2>3, <2>4, <2>5, FileTreeStays, FileOpMoves DEF Space!Tree
<1>5. QED
  BY <1>3, <1>4

LEMMA FileMakeParentStep ==
  ASSUME FileInv, NEW r \in Workers, Space!MakeParent(r)
  PROVE  FileInv'
<1>1. ~Space!At(r, "idle") /\ Space!At(r, "write") /\ Space!Goto(r, "create") /\ moves' = moves
  BY DEF Space!MakeParent, Space!At
<1>2. fileOp[r].kind = "write" /\ (moves = 0 => folder = "dir")
  BY <1>1, FileKnown DEF FileOpOK, Space!At, FileWalked, FileKinds
<1>3. FileTreeOK' /\ (folder = "dir" => folder' = "dir")
  <2>1. CASE folder = "missing"
    <3>1. /\ folder' = "dir" /\ inside' = TRUE
          /\ leaf' = [leaf EXCEPT ![Space!Here] = "missing"] /\ bytes' = [bytes EXCEPT ![Space!Here] = Space!Empty]
      BY <2>1 DEF Space!MakeParent
    <3>2. QED
      BY <1>1, <3>1, FileHereIs DEF FileInv, FileTreeOK, FileContents, Space!Empty, Space!Foreign
  <2>2. CASE folder # "missing"
    BY <1>1, <2>2, FileTreeStays DEF Space!MakeParent, Space!Tree
  <2>3. QED
    BY <2>1, <2>2
<1>4. QED
  BY <1>1, <1>2, <1>3, FileGoing DEF FileWalked, FileKinds

LEMMA FileOpenWriteStep ==
  ASSUME FileInv, NEW r \in Workers, Space!OpenWrite(r)
  PROVE  FileInv'
<1>1. ~Space!At(r, "idle") /\ Space!At(r, "create") /\ moves' = moves
  BY DEF Space!OpenWrite, Space!At
<1>2. fileOp[r].kind = "write" /\ (moves = 0 => folder = "dir") /\ fileOp[r] \in FileOps /\ FileOpOK(fileOp[r], moves, folder)
  BY <1>1, FileKnown DEF FileOpOK, Space!At, FileWalked
<1>3. CASE folder = "missing" \/ Space!Leaf = "link"
  <2>1. UNCHANGED Space!Tree /\ \E code \in {"PATH_NOT_FOUND", "PATH_SYMLINK_REFUSED"} : Space!Refuse(r, code)
    <3>1. CASE folder = "missing"
      BY <3>1 DEF Space!OpenWrite, Space!Leaf
    <3>2. CASE folder # "missing" /\ Space!Leaf = "link"
      BY <3>2 DEF Space!OpenWrite
    <3>3. QED
      BY <1>3, <3>1, <3>2
  <2>2. QED
    BY <1>1, <2>1, FileRefused DEF FileCodes
<1>4. CASE folder # "missing" /\ Space!Leaf # "link"
  <2> DEFINE new == [fileOp[r] EXCEPT !.at = "opened", !.file = Space!Target]
  <2>1. /\ fileOp' = [fileOp EXCEPT ![r] = new] /\ UNCHANGED <<folder, inside>>
        /\ leaf' = [leaf EXCEPT ![Space!Target] = "file"] /\ bytes' = [bytes EXCEPT ![Space!Target] = Space!Empty]
    BY <1>4 DEF Space!OpenWrite, FileInv
  <2>2. /\ new \in FileOps /\ new.at = "opened" /\ new.kind = "write" /\ new.data = fileOp[r].data
        /\ new.file = Space!Target /\ new.code = fileOp[r].code
    BY <1>2, FileLeafIs DEF FileOps, FileWalked
  <2> HIDE DEF new
  <2>3. new # Space!Idle /\ fileOp[r] # Space!Idle
    BY <1>1, <2>2 DEF Space!Idle, Space!At
  <2>4. FileOpOK(new, moves', folder')
    BY <1>1, <1>2, <2>1, <2>2, <2>3, FileLeafIs DEF FileOpOK, FileWalked, FileKinds
  <2>5. FileTreeOK'
    BY <1>1, <2>1, FileLeafIs, FileHereIs DEF FileInv, FileTreeOK, FileContents, Space!Empty, Space!Foreign, Space!Sent, Space!Begun
  <2>6. FileAlone(r) => FileTold(new, leaf'[Space!Here], bytes'[Space!Here])
    <3>1. FileAlone(r) => leaf'[Space!Here] = "file"
      BY <1>2, <2>1, FileLeafIs, FileHereIs DEF FileAlone, FileInv, FileTreeOK
    <3>2. QED
      BY <2>2, <3>1 DEF FileTold
  <2>7. QED
    BY <1>1, <2>1, <2>3, <2>4, <2>5, <2>6, FileOpMoves
<1>5. QED
  BY <1>3, <1>4

LEMMA FileRecheckStep ==
  ASSUME FileInv, NEW r \in Workers, Space!Recheck(r)
  PROVE  FileInv'
<1>1. ~Space!At(r, "idle") /\ Space!At(r, "opened") /\ UNCHANGED <<Space!Tree, moves>>
  BY DEF Space!Recheck, Space!At
<1>2. fileOp[r].kind \in {"read", "write"} /\ (moves = 0 => folder = "dir")
  BY <1>1, FileKnown DEF FileOpOK, Space!At, FileWalked
<1>3. CASE ~Space!StillUnder(fileOp[r].file)
  BY <1>1, <1>3, FileRefused DEF Space!Recheck, FileCodes
<1>4. CASE Space!StillUnder(fileOp[r].file) /\ fileOp[r].kind = "read"
  <2>1. Space!Goto(r, "get") /\ fileOp[r].file = Space!Here
    BY <1>4 DEF Space!Recheck, Space!StillUnder
  <2>2. QED
    BY <1>1, <1>2, <1>4, <2>1, FileGoing, FileTreeStays DEF FileWalked, FileKinds, Space!Tree
<1>5. CASE Space!StillUnder(fileOp[r].file) /\ fileOp[r].kind = "write"
  <2>1. Space!Goto(r, "put") /\ fileOp[r].file = Space!Here
    BY <1>5 DEF Space!Recheck, Space!StillUnder
  <2>2. FileAlone(r) => leaf'[Space!Here] = "file"
    BY <1>1, <1>5, FileKnown DEF FileTold, Space!At, Space!Tree
  <2>3. QED
    BY <1>1, <1>2, <1>5, <2>1, <2>2, FileGoing, FileTreeStays DEF FileWalked, FileKinds, Space!Tree
<1>6. QED
  BY <1>2, <1>3, <1>4, <1>5

LEMMA FileGetStep ==
  ASSUME FileInv, NEW r \in Workers, Space!Get(r)
  PROVE  FileInv'
<1>1. ~Space!At(r, "idle") /\ Space!At(r, "get") /\ UNCHANGED <<Space!Tree, moves>> /\ Space!Succeed(r, bytes[fileOp[r].file])
  BY DEF Space!Get, Space!At
<1>2. fileOp[r].kind = "read" /\ fileOp[r].file = Space!Here
  BY <1>1, FileKnown DEF FileOpOK, Space!At
<1>3. bytes[Space!Here] \in FileContents /\ bytes[Space!Here] # Space!Foreign /\ "ok" \in FileCodes
  BY FileHereIs DEF FileInv, FileTreeOK, FileCodes
<1>4. QED
  BY <1>1, <1>2, <1>3, FileSucceeds, FileTreeStays DEF Space!Tree

LEMMA FilePutStep ==
  ASSUME FileInv, NEW r \in Workers, NEW short \in BOOLEAN, Space!Put(r, short)
  PROVE  FileInv'
<1>1. /\ ~Space!At(r, "idle") /\ Space!At(r, "put") /\ moves' = moves /\ Space!Succeed(r, Space!Empty)
      /\ UNCHANGED <<folder, inside, leaf>>
  BY DEF Space!Put, Space!At
<1>2. fileOp[r].kind = "write" /\ fileOp[r].file = Space!Here /\ (FileAlone(r) => leaf[Space!Here] = "file")
  BY <1>1, FileKnown DEF FileOpOK, Space!At, FileTold
<1>3. \E b \in {Space!Begun, Space!Sent} : bytes' = [bytes EXCEPT ![Space!Here] = b]
  BY <1>2 DEF Space!Put
<1>4. bytes'[Space!Here] \in {Space!Sent, Space!Begun} /\ FileTreeOK'
  BY <1>1, <1>3, FileHereIs DEF FileInv, FileTreeOK, FileContents, Space!Foreign, Space!Sent, Space!Begun
<1>5. "ok" \in FileCodes /\ Space!Empty \in FileContents /\ Space!Empty # Space!Foreign
  BY DEF FileCodes, FileContents, Space!Empty, Space!Foreign
<1>6. QED
  BY <1>1, <1>2, <1>4, <1>5, FileSucceeds

LEMMA FileUnlinkStep ==
  ASSUME FileInv, NEW r \in Workers, Space!Unlink(r)
  PROVE  FileInv'
<1>1. ~Space!At(r, "idle") /\ Space!At(r, "delete") /\ UNCHANGED <<folder, inside, moves>>
  BY DEF Space!Unlink, Space!At
<1>2. fileOp[r].kind = "delete" /\ (moves = 0 => folder = "dir")
  BY <1>1, FileKnown DEF FileOpOK, Space!At, FileWalked, FileKinds
<1>3. CASE Space!Leaf = "link"
  BY <1>1, <1>3, FileRefused DEF Space!Unlink, FileCodes, Space!Tree
<1>4. CASE Space!Leaf # "link"
  <2>1. Space!Succeed(r, Space!Empty)
    BY <1>4, FileLeafIs DEF Space!Unlink
  <2>2. \/ Space!Leaf = "missing" /\ UNCHANGED <<leaf, bytes>>
        \/ leaf' = [leaf EXCEPT ![Space!Target] = "missing"] /\ bytes' = [bytes EXCEPT ![Space!Target] = Space!Empty]
    BY <1>4, FileLeafIs DEF Space!Unlink
  <2>3. FileAlone(r) => leaf'[Space!Here] = "missing"
    BY <1>2, <2>2, FileLeafIs, FileHereIs DEF FileAlone, FileInv, FileTreeOK
  <2>4. FileTreeOK'
    BY <1>1, <2>2, FileLeafIs, FileHereIs DEF FileInv, FileTreeOK, FileContents, Space!Empty, Space!Foreign, Space!Sent, Space!Begun
  <2>5. "ok" \in FileCodes /\ Space!Empty \in FileContents /\ Space!Empty # Space!Foreign
    BY DEF FileCodes, FileContents, Space!Empty, Space!Foreign
  <2>6. QED
    BY <1>1, <1>2, <2>1, <2>3, <2>4, <2>5, FileSucceeds
<1>5. QED
  BY <1>3, <1>4

LEMMA FileStep == FileInv /\ [Space!Next]_(Space!fsVars) => FileInv'
<1> SUFFICES ASSUME FileInv, [Space!Next]_(Space!fsVars) PROVE FileInv'
  OBVIOUS
<1>1. ASSUME NEW name \in {"dir", "link", "missing"}, Space!MoveFolder(name) PROVE FileInv'
  <2>1. FileTreeOK'
    BY <1>1 DEF Space!MoveFolder, Space!Move, FileInv, FileTreeOK
  <2>2. QED
    BY <1>1, <2>1, FileOthersMove DEF Space!MoveFolder, Space!Move
<1>2. ASSUME NEW kind \in {"file", "link", "missing"}, Space!ReplaceLeaf(kind) PROVE FileInv'
  <2>1. /\ moves' = moves + 1 /\ leaf' = [leaf EXCEPT ![Space!Here] = kind] /\ UNCHANGED <<folder, inside>>
        /\ \E b \in {Space!Local, Space!Empty} : bytes' = [bytes EXCEPT ![Space!Here] = b]
    BY <1>2 DEF Space!ReplaceLeaf, Space!Move
  <2>2. FileTreeOK'
    BY <2>1, FileHereIs DEF FileInv, FileTreeOK, FileContents, Space!Local, Space!Empty, Space!Foreign, Space!Sent, Space!Begun
  <2>3. QED
    BY <1>2, <2>2, FileOthersMove DEF Space!ReplaceLeaf, Space!Move
<1>3. CASE UNCHANGED Space!fsVars
  BY <1>3 DEF Space!fsVars, FileInv, FileTreeOK, FileAlone, Space!At
<1>4. QED
  BY <1>1, <1>2, <1>3, FileBeginStep, FileWalkFolderStep, FileWalkLeafStep, FileStatStep, FileOpenReadStep, FileMakeParentStep,
     FileOpenWriteStep, FileRecheckStep, FileGetStep, FilePutStep, FileUnlinkStep DEF Space!Next, FileKinds

LEMMA FileIsSound == FileInv => Space!FilesAreSound
<1> SUFFICES ASSUME FileInv PROVE Space!FilesAreSound
  OBVIOUS
<1>1. \A r \in Workers : Space!At(r, "done") => fileOp[r].data # Space!Foreign
  BY FileKnown DEF FileOpOK, Space!At
<1>2. Space!BytesStayInside
  BY <1>1 DEF Space!BytesStayInside, FileInv, FileTreeOK
<1>3. ASSUME NEW r \in Workers, FileAlone(r), Space!At(r, "done"), fileOp[r].code = "ok"
      PROVE  /\ fileOp[r].kind = "write" => leaf[Space!Here] = "file" /\ bytes[Space!Here] \in {Space!Sent, Space!Begun}
             /\ fileOp[r].kind = "delete" => leaf[Space!Here] = "missing"
             /\ fileOp[r].kind = "stat" => leaf[Space!Here] = "file"
  BY <1>3, FileKnown DEF FileTold, Space!At
<1>4. Space!AloneIsTold
  BY <1>3 DEF Space!AloneIsTold, FileAlone
<1>5. QED
  BY <1>2, <1>4 DEF Space!FilesAreSound

LEMMA FileAlways == SystemSpec => [](part = "files" => FileInv)
<1> DEFINE Inv == part = "files" => FileInv
<1>1. SystemInit => Inv
  BY FileStarts DEF SystemInit
<1>2. Inv /\ [SystemNext]_systemVars => Inv'
  <2>1. ASSUME [SystemNext]_systemVars PROVE part' = part /\ (part = "files" => [Space!Next]_(Space!fsVars))
    BY <2>1 DEF SystemNext, systemVars, spaceVars, Space!fsVars
  <2>2. QED
    BY <2>1, FileStep
<1>3. QED
  BY <1>1, <1>2, PTL DEF SystemSpec

(* What a caller is told of a service is so, and only services of the       *)
(* allowlist are touched; what is read and written lies under the root, and *)
(* one who is alone is told what he did (the backends' service_control,     *)
(* and the file operations of the gateway).                                 *)
THEOREM ControlAlwaysHonest == SystemSpec => []ControlIsHonest
<1>1. (part = "services" => ServiceInv) /\ (part = "files" => FileInv) => ControlIsHonest
  BY ServiceIsSound, FileIsSound DEF ControlIsHonest
<1>2. QED
  BY <1>1, ServiceAlways, FileAlways, PTL

=============================================================================
