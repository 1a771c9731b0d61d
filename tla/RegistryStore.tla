--------------------------- MODULE RegistryStore ----------------------------
(***************************************************************************)
(* Persistence of the API registry (apps/api_registry/store.py): every     *)
(* mutation of PersistentApiRegistry is followed, outside the registry     *)
(* lock, by save_registry (snapshot, tmp file, current file to .bak, tmp   *)
(* to current), and a start loads the current file or else the backup.     *)
(*                                                                         *)
(* The registry is the set of changes applied to it.  Names refer to       *)
(* inodes, because a writer keeps its inode when the name is moved.        *)
(***************************************************************************)
EXTENDS Naturals, FiniteSets

CONSTANTS
    Threads,     \* request threads that change the registry
    MaxSavers,   \* bound: threads between a change and its answer
    MaxChanges   \* bound: changes in a behaviour

ASSUME StoreAssumption ==
    /\ IsFiniteSet(Threads)
    /\ MaxSavers \in Nat
    /\ MaxChanges \in Nat

Changes == 1..MaxChanges
Inodes == 1..(3 + Cardinality(Threads))  \* enough: three names, one descriptor per thread
None == 0
Names == {"primary", "bak", "tmp"}

VARIABLES
    mem,      \* the registry of the running process
    inode,    \* inode of each name, or None
    content,  \* changes recorded in each inode
    torn,     \* inodes that hold no readable registry
    saver,    \* step, snapshot and open inode of each thread
    next,     \* the next change
    acked     \* history: changes whose caller got an answer

storeVars == <<mem, inode, content, torn, saver, next, acked>>
disk == <<inode, content, torn>>

Idle == [step |-> "idle", change |-> 0, snap |-> {}, fd |-> None]

StoreInit ==
    /\ mem = {}
    /\ inode = [n \in Names |-> None]
    /\ content = [i \in Inodes |-> {}]
    /\ torn = {}
    /\ saver = [t \in Threads |-> Idle]
    /\ next = 1
    /\ acked = {}

Readable(n) == inode[n] # None /\ inode[n] \notin torn

(* load_registry: the current file, the backup if it is missing or bad, an  *)
(* empty registry if both are.                                             *)
Load ==
    CASE Readable("primary") -> content[inode["primary"]]
      [] ~Readable("primary") /\ Readable("bak") -> content[inode["bak"]]
      [] OTHER -> {}

At(t, s) == saver[t].step = s
StepTo(t, s) == saver' = [saver EXCEPT ![t].step = s]

-----------------------------------------------------------------------------
Saving == {t \in Threads : ~At(t, "idle")}

\* register or set_status changes the map under the registry lock ...
Change(t) ==
    /\ At(t, "idle")
    /\ Cardinality(Saving) < MaxSavers
    /\ next \in Changes
    /\ mem' = mem \cup {next}
    /\ next' = next + 1
    /\ saver' = [saver EXCEPT ![t] = [Idle EXCEPT !.step = "list", !.change = next]]
    /\ UNCHANGED <<disk, acked>>

\* ... and save_registry lists it again.
List(t) ==
    /\ At(t, "list")
    /\ saver' = [saver EXCEPT ![t].snap = mem, ![t].step = "open"]
    /\ UNCHANGED <<mem, disk, next, acked>>

InUse == {inode[n] : n \in Names} \cup {saver[t].fd : t \in Threads}

\* tmp.write_text opens with truncation: the existing inode or a new one.
OpenTmp(t) ==
    /\ At(t, "open")
    /\ \E i \in Inodes :
          /\ IF inode["tmp"] # None THEN i = inode["tmp"] ELSE i \notin InUse
          /\ inode' = [inode EXCEPT !["tmp"] = i]
          /\ torn' = torn \cup {i}
          /\ content' = [content EXCEPT ![i] = {}]
          /\ saver' = [saver EXCEPT ![t].fd = i, ![t].step = "write"]
    /\ UNCHANGED <<mem, next, acked>>

\* Over what another writer left, a shorter text keeps the other's tail.
WriteTmp(t) ==
    LET i == saver[t].fd IN
    /\ At(t, "write")
    /\ content' = [content EXCEPT ![i] = saver[t].snap]
    /\ torn' = torn \ {i} \/ (i \notin torn /\ torn' = torn \cup {i})
    /\ saver' = [saver EXCEPT ![t].fd = None, ![t].step = "backup"]
    /\ UNCHANGED <<mem, inode, next, acked>>

\* Mutated form of BackUp: the current file is removed, not kept.
BackUpRemoves(names) == [names EXCEPT !["primary"] = None]

\* path.replace(bak)
BackUp(names) == [names EXCEPT !["bak"] = names["primary"], !["primary"] = None]

\* The move to .bak is skipped without a current file, and its errors are
\* ignored.
MoveToBak(t) ==
    /\ At(t, "backup")
    /\ \/ inode["primary"] # None /\ inode' = BackUp(inode)
       \/ UNCHANGED inode
    /\ StepTo(t, "publish")
    /\ UNCHANGED <<mem, content, torn, next, acked>>

Renamed(names) == [names EXCEPT !["primary"] = names["tmp"], !["tmp"] = None]

\* tmp.replace(path) raises if another thread has moved the tmp file.
Publish(t) ==
    /\ At(t, "publish")
    /\ \/ /\ inode["tmp"] # None
          /\ inode' = Renamed(inode)
          /\ StepTo(t, "answer")
       \/ /\ inode["tmp"] = None
          /\ UNCHANGED inode
          /\ saver' = [saver EXCEPT ![t] = Idle]
    /\ UNCHANGED <<mem, content, torn, next, acked>>

\* Any other I/O error ends the save, and the caller gets the exception.
SaveFails(t) ==
    /\ saver[t].step \in {"open", "write", "publish"}
    /\ saver' = [saver EXCEPT ![t] = Idle]
    /\ UNCHANGED <<mem, disk, next, acked>>

Answer(t) ==
    /\ At(t, "answer")
    /\ acked' = acked \cup {saver[t].change}
    /\ saver' = [saver EXCEPT ![t] = Idle]
    /\ UNCHANGED <<mem, disk, next>>

\* Mutated forms of Loaded: the backup is never looked at; an unreadable
\* store is published as a registry of its own.
LoadedPrimaryOnly == IF Readable("primary") THEN content[inode["primary"]] ELSE {}
LoadedGarbage == IF Readable("primary") \/ inode["bak"] = None THEN Load ELSE {None}

Loaded == Load

\* The process dies at any step and starts again.
Restart ==
    /\ mem' = Loaded
    /\ saver' = [t \in Threads |-> Idle]
    /\ UNCHANGED <<disk, next, acked>>

StoreNext ==
    \/ Restart
    \/ \E t \in Threads :
          Change(t) \/ List(t) \/ OpenTmp(t) \/ WriteTmp(t) \/ MoveToBak(t) \/ Publish(t)
          \/ SaveFails(t) \/ Answer(t)

StoreSpec == StoreInit /\ [][StoreNext]_storeVars

-----------------------------------------------------------------------------
(* Properties                                                              *)

StoreTypeOK ==
    /\ mem \subseteq Changes
    /\ inode \in [Names -> Inodes \cup {None}]
    /\ content \in [Inodes -> SUBSET Changes]
    /\ torn \subseteq Inodes
    /\ saver \in [Threads -> [step : {"idle", "list", "open", "write", "backup", "publish",
                                      "answer"},
                              change : Changes \cup {0}, snap : SUBSET Changes,
                              fd : Inodes \cup {None}]]
    /\ next \in 1..(MaxChanges + 1)
    /\ acked \subseteq Changes

(* Whenever the process dies, a change whose caller was answered is found   *)
(* again (store.py:106-112: "a crash mid-write leaves the previous primary  *)
(* (or bak) intact").  It holds as long as one thread saves at a time.      *)
AcknowledgedSurvives == acked \subseteq Load

(* Seen from a restart, the six steps of a save are one: the store          *)
(* implements the durable set, with Load for what is durable.              *)
Durable == INSTANCE DurableSet WITH durable <- Load
SavesAtomically == Durable!Spec

=============================================================================
