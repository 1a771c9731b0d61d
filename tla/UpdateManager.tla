--------------------------- MODULE UpdateManager ----------------------------
(***************************************************************************)
(* Transactional updates of the install tree (update/manager.py, class     *)
(* UpdateManager): verify, back up, stop the service, replace the tree,    *)
(* save the state, start, check health, and the rollback to the last       *)
(* backup; with hooks that fail or answer nothing, I/O errors at any file, *)
(* and the death of the updater at any step.                               *)
(*                                                                         *)
(* A file of the tree is known by the version it came with.                *)
(***************************************************************************)
EXTENDS Naturals, Sequences, FiniteSets

CONSTANTS
    Versions,    \* released versions
    First,       \* the version installed to begin with
    Files,       \* names of install members
    Has,         \* the members of each version
    MaxUpdates,  \* bound: apply() and rollback() calls
    MaxErrors,   \* bound: I/O errors and failed hooks
    MaxCrashes   \* bound: deaths of the updater

ASSUME UpdateAssumption ==
    /\ First \in Versions
    /\ Has \in [Versions -> SUBSET Files]
    /\ MaxUpdates \in Nat
    /\ MaxErrors \in Nat
    /\ MaxCrashes \in Nat

Gone == "gone"        \* no such member
Partial == "partial"  \* half copied
Tree == [Files -> Versions \cup {Gone, Partial}]
TreeOf(v) == [f \in Files |-> IF f \in Has[v] THEN v ELSE Gone]
Empty == [f \in Files |-> Gone]
Dir(v) == "backup-" \o v   \* a version is a string, as in the code
Dirs == {Dir(v) : v \in Versions}

\* A version names its directory, and is none of the marks of this model.
ASSUME NamesAssumption ==
    /\ \A v, w \in Versions : Dir(v) = Dir(w) => v = w
    /\ Gone \notin Versions
Unreadable == [version |-> First, backups |-> <<>>, readable |-> FALSE]

VARIABLES
    tree,     \* install_dir
    backup,   \* what each backup directory holds
    state,    \* _state of the running manager
    saved,    \* update_state.json
    service,  \* "up" or "down"
    pc,       \* the stage the updater is in
    job,      \* kind of call, version it installs, version it found
    todo,     \* members the current loop has yet to treat
    result,   \* history: what the last call reported
    spoiled,  \* history: an exception or a crash cut some call short
    calls, errors, crashes

task == <<pc, job, todo>>
counters == <<calls, errors, crashes>>
vars == <<tree, backup, state, saved, service, task, result, spoiled, counters>>

NoJob == [kind |-> "none", to |-> First, from |-> First]

Init ==
    /\ tree = TreeOf(First)
    /\ backup = [d \in Dirs |-> Empty]
    /\ state = [version |-> First, backups |-> <<>>, readable |-> TRUE]
    /\ saved = state
    /\ service = "up"
    /\ pc = "idle"
    /\ job = NoJob
    /\ todo = {}
    /\ result = "none"
    /\ spoiled = FALSE
    /\ calls = 0 /\ errors = 0 /\ crashes = 0

Present(t) == {f \in Files : t[f] # Gone}

\* What a loop removes from t: the members whose names are not listed.
Lacking(t, names) == Present(t) \ names

\* Mutated form of Last: the oldest backup on record.
Oldest == state.backups[1]

Last == state.backups[Len(state.backups)]

\* rollback() reads the version off the name of the directory.
VersionOf(dir) == CHOOSE v \in Versions : Dir(v) = dir

\* The state each stage saves when its loop is over.
Saving == pc \in {"backup", "copy", "undo-copy"} /\ todo = {}
Noted ==
    CASE pc = "backup"    -> [state EXCEPT !.backups = Append(@, Dir(job.from))]
      [] pc = "copy"      -> [state EXCEPT !.version = job.to]
      [] pc = "undo-copy" -> [state EXCEPT !.version = VersionOf(Last)]

End(r) == pc' = "idle" /\ result' = r /\ job' = NoJob /\ todo' = {}

-----------------------------------------------------------------------------
(* apply() and its transactional form                                      *)

Call == pc = "idle" /\ calls < MaxUpdates /\ calls' = calls + 1

\* The package does not verify, or hooks or permissions are missing.
Refuse ==
    /\ Call
    /\ End("refused")
    /\ UNCHANGED <<tree, backup, state, saved, service, spoiled, errors, crashes>>

\* Mutated form of Backed: only what the package replaces.
BackedReplaced(v) == Present(tree) \cap Has[v]

\* backup_current copies every member.
Backed(v) == Present(tree)

\* backup_current first removes an earlier backup of this version.
Begin(v, kind) ==
    /\ Call
    /\ pc' = "backup"
    /\ job' = [kind |-> kind, to |-> v, from |-> state.version]
    /\ backup' = [backup EXCEPT ![Dir(state.version)] = Empty]
    /\ todo' = Backed(v)
    /\ result' = "none"
    /\ UNCHANGED <<tree, state, saved, service, spoiled, errors, crashes>>

BackupOne(f) ==
    /\ pc = "backup"
    /\ f \in todo
    /\ backup' = [backup EXCEPT ![Dir(job.from)][f] = tree[f]]
    /\ todo' = todo \ {f}
    /\ UNCHANGED <<tree, state, saved, service, pc, job, result, spoiled, counters>>

\* The finished backup goes on record.
Register ==
    /\ pc = "backup"
    /\ Saving
    /\ state' = Noted
    /\ saved' = Noted
    /\ IF job.kind = "plain" THEN pc' = "remove" /\ todo' = Lacking(tree, Has[job.to])
                             ELSE pc' = "stop" /\ todo' = {}
    /\ UNCHANGED <<tree, backup, service, job, result, spoiled, counters>>

\* A hook answers None, a conclusive yes or no, something vague, or raises.
Answers == {"none", "yes", "no", "vague", "raised"}

\* _hook_succeeded
Succeeded(answer) == answer \in {"yes", "none"}

\* Mutated form of Undone: what the backup lacks stays.
UndoneWithOrphans(t) == {}

\* rollback() removes what the last backup lacks, then copies all it has.
Undone(t) == Lacking(t, Present(backup[Last]))

StartUndo(t) == pc' = "undo-remove" /\ todo' = Undone(t)

\* An error costs one of the budget; a success costs nothing.
Mishap(bad) == errors' = errors + (IF bad THEN 1 ELSE 0) /\ errors' <= MaxErrors

Stop(answer) ==
    /\ pc = "stop"
    /\ Mishap(~Succeeded(answer))
    /\ \/ Succeeded(answer) /\ service' = "down" /\ pc' = "remove" /\ todo' = Lacking(tree, Has[job.to])
       \/ ~Succeeded(answer) /\ service' \in {"up", "down"} /\ StartUndo(tree)
    /\ UNCHANGED <<tree, backup, state, saved, job, result, spoiled, calls, crashes>>

RemoveOne(f) ==
    /\ pc \in {"remove", "undo-remove"}
    /\ f \in todo
    /\ tree' = [tree EXCEPT ![f] = Gone]
    /\ todo' = todo \ {f}
    /\ UNCHANGED <<backup, state, saved, service, pc, job, result, spoiled, counters>>

Removed ==
    /\ todo = {}
    /\ \/ pc = "remove" /\ pc' = "copy" /\ todo' = Has[job.to]
       \/ pc = "undo-remove" /\ pc' = "undo-copy" /\ todo' = Present(backup[Last])
    /\ UNCHANGED <<tree, backup, state, saved, service, job, result, spoiled, counters>>

CopyOne(f) ==
    /\ f \in todo
    /\ \/ pc = "copy" /\ tree' = [tree EXCEPT ![f] = job.to]
       \/ pc = "undo-copy" /\ tree' = [tree EXCEPT ![f] = backup[Last][f]]
    /\ todo' = todo \ {f}
    /\ UNCHANGED <<backup, state, saved, service, pc, job, result, spoiled, counters>>

Commit ==
    /\ pc = "copy"
    /\ Saving
    /\ state' = Noted
    /\ saved' = Noted
    /\ IF job.kind = "plain" THEN End("ok") ELSE pc' = "start" /\ UNCHANGED <<job, todo, result>>
    /\ UNCHANGED <<tree, backup, service, spoiled, counters>>

Start(answer) ==
    /\ pc = "start"
    /\ Mishap(~Succeeded(answer))
    /\ \/ Succeeded(answer) /\ service' = "up" /\ pc' = "health" /\ UNCHANGED todo
       \/ ~Succeeded(answer) /\ service' \in {"up", "down"} /\ StartUndo(tree)
    /\ UNCHANGED <<tree, backup, state, saved, job, result, spoiled, calls, crashes>>

CheckHealth(answer) ==
    /\ pc = "health"
    /\ Mishap(~Succeeded(answer))
    /\ \/ Succeeded(answer) /\ End("ok")
       \/ ~Succeeded(answer) /\ StartUndo(tree) /\ UNCHANGED <<job, result>>
    /\ UNCHANGED <<tree, backup, state, saved, service, spoiled, calls, crashes>>

-----------------------------------------------------------------------------
(* Rollback, errors and crashes                                            *)

\* rollback() called by itself.
Rollback ==
    /\ Call
    /\ state.backups # <<>>
    /\ StartUndo(tree)
    /\ job' = [kind |-> "rollback", to |-> First, from |-> state.version]
    /\ result' = "none"
    /\ UNCHANGED <<tree, backup, state, saved, service, spoiled, errors, crashes>>

Undo ==
    /\ pc = "undo-copy"
    /\ Saving
    /\ state' = Noted
    /\ saved' = Noted
    /\ End("rolled back")
    /\ UNCHANGED <<tree, backup, service, spoiled, counters>>

\* What an error or a death leaves on the disk: the member in hand may be
\* half treated; a state file caught inside write_text cannot be read.
CutShort ==
    /\ \/ UNCHANGED <<tree, backup>>
       \/ \E f \in todo, left \in {Gone, Partial} :
             IF pc = "backup"
               THEN backup' = [backup EXCEPT ![Dir(job.from)][f] = left] /\ UNCHANGED tree
               ELSE tree' = [tree EXCEPT ![f] = left] /\ UNCHANGED backup
    /\ saved' \in IF Saving THEN {saved, Unreadable} ELSE {saved}

\* An I/O error while the tree is replaced is caught by the transaction ...
ReplaceFails ==
    /\ pc \in {"remove", "copy"}
    /\ job.kind = "transaction"
    /\ Mishap(TRUE)
    /\ CutShort
    /\ StartUndo(tree')
    /\ state' = IF Saving THEN Noted ELSE state
    /\ UNCHANGED <<service, job, result, spoiled, calls, crashes>>

\* ... and leaves the caller with an exception everywhere else.
Raise ==
    /\ \/ pc \in {"backup", "undo-remove", "undo-copy"}
       \/ pc \in {"remove", "copy"} /\ job.kind = "plain"
    /\ Mishap(TRUE)
    /\ CutShort
    /\ state' = IF Saving THEN Noted ELSE state
    /\ spoiled' = TRUE
    /\ End("raised")
    /\ UNCHANGED <<service, calls, crashes>>

\* The updater dies, before the backup with nothing to undo.
Crash ==
    /\ pc \notin {"idle", "dead"}
    /\ crashes < MaxCrashes
    /\ crashes' = crashes + 1
    /\ pc' = "dead"
    /\ CutShort
    /\ job' = IF pc = "backup" THEN NoJob ELSE job
    /\ UNCHANGED <<state, service, todo, result, spoiled, calls, errors>>

\* A new manager reads update_state.json; it cannot if that is unreadable.
Reopen ==
    /\ pc = "dead"
    /\ saved.readable
    /\ state' = saved
    /\ spoiled' = TRUE
    /\ End("crashed")
    /\ UNCHANGED <<tree, backup, saved, service, counters>>

Next ==
    \/ Refuse \/ Register \/ Removed \/ Commit
    \/ Rollback \/ Undo \/ ReplaceFails \/ Raise \/ Crash \/ Reopen
    \/ \E v \in Versions, kind \in {"plain", "transaction"} : Begin(v, kind)
    \/ \E f \in Files : BackupOne(f) \/ RemoveOne(f) \/ CopyOne(f)
    \/ \E answer \in Answers : Stop(answer) \/ Start(answer) \/ CheckHealth(answer)

Spec == Init /\ [][Next]_vars

-----------------------------------------------------------------------------
(* Properties                                                              *)

TypeOK ==
    /\ tree \in Tree
    /\ backup \in [Dirs -> Tree]
    /\ {state, saved} \subseteq [version : Versions, backups : Seq(Dirs), readable : BOOLEAN]
    /\ service \in {"up", "down"}
    /\ pc \in {"idle", "dead", "backup", "stop", "remove", "copy", "start", "health",
               "undo-remove", "undo-copy"}
    /\ job \in [kind : {"none", "plain", "transaction", "rollback"}, to : Versions, from : Versions]
    /\ todo \subseteq Files
    /\ result \in {"none", "ok", "refused", "rolled back", "raised", "crashed"}
    /\ spoiled \in BOOLEAN
    /\ calls \in 0..MaxUpdates /\ errors \in 0..MaxErrors /\ crashes \in 0..MaxCrashes

(* All or nothing: as long as no exception or crash has cut a call short,   *)
(* between calls the tree is exactly that of the version on record, in     *)
(* memory and on the disk, whatever hooks and files failed along the way   *)
(* (manager.py:326-343, 451-490; "zero orphans" of N032).                  *)
AllOrNothing ==
    pc = "idle" /\ ~spoiled => tree = TreeOf(state.version) /\ saved = state

(* A transaction that reports success leaves its version, running; one that *)
(* was rolled back, even after earlier updates, the version it found       *)
(* (manager.py:228-239, 397-400).                                          *)
OutcomeIsHonest ==
    [][job.kind = "transaction" /\ pc' = "idle" /\ ~spoiled' =>
          /\ result' = "ok" => state'.version = job.to /\ service' = "up"
          /\ result' = "rolled back" => state'.version = job.from]_vars

(* From the backup on, a transaction that began on a sound tree can be      *)
(* undone at every step, the one at which it dies included: the last       *)
(* backup on record, in memory and on the disk if that can be read, is     *)
(* complete (manager.py:122-139, 284).                                     *)
UndoAlwaysPossible ==
    /\ job.kind = "transaction"
    /\ pc # "backup"
    /\ ~spoiled
    => /\ backup[Dir(job.from)] = TreeOf(job.from)
       /\ \A s \in {state, saved} : s.readable => /\ s.backups # <<>>
                                              /\ s.backups[Len(s.backups)] = Dir(job.from)

=============================================================================
