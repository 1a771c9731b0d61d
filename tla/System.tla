------------------------------ MODULE System --------------------------------
(***************************************************************************)
(* What works on the machine itself, each part on its own: `part` says     *)
(* which of them a behaviour is about.  The update manager is extended,    *)
(* and the others are instances.                                           *)
(***************************************************************************)
EXTENDS UpdateManager

CONSTANTS
    Workers,                                  \* threads of the server
    Numbers, Strangers, MaxBirths, MaxHunts,    \* of ProcessTree
    Keys, MaxCommands,                        \* of ReleasePipeline
    Payloads, Names, ReleaseKeys, MaxEvents, MaxFaults,  \* of UpdateDiscovery
    ServiceNames, MaxControls, MaxSeen,       \* of ServiceControl
    MaxFileOps, MaxMoves                      \* of FileSpace

VARIABLES
    part,
    procs, reg, call, births, launched, wrong, called,
    platform, sources, disk, sums, docs, builds, commands, fresh,
    channel, host, active, installed, get, staging, sidecar, accepted, older, events, faults,
    manager, allowlist, units, instance, control, controls, seen,
    folder, inside, leaf, bytes, fileOp, fileOps, moves

\* A number does not change hands while a call uses it.
Procs == INSTANCE ProcessTree WITH
    Callers <- Workers, Pids <- Numbers, MayRecycle <- FALSE, Foreign <- Strangers, MaxCalls <- MaxHunts
procVars == <<procs, reg, call, births, launched, wrong, called>>

Release == INSTANCE ReleasePipeline WITH tree <- sources
releaseVars == <<platform, sources, disk, sums, docs, builds, commands, fresh>>

\* One run of the updater at a time.
Found == INSTANCE UpdateDiscovery WITH Downloaders <- {"updater"}
foundVars == <<channel, host, active, installed, get, staging, sidecar, accepted, older, events, faults>>

\* The state of a service of the operating system, and who asks for changes.
Services == INSTANCE ServiceControl WITH
    Clients <- Workers, Services <- ServiceNames, MaxCalls <- MaxControls, MaxEvents <- MaxSeen,
    backend <- manager, state <- units, job <- control, calls <- controls, events <- seen
serviceVars == <<manager, allowlist, units, instance, control, controls, seen>>

Space == INSTANCE FileSpace WITH
    Requests <- Workers, MaxCalls <- MaxFileOps,
    home <- inside, op <- fileOp, calls <- fileOps
spaceVars == <<folder, inside, leaf, bytes, fileOp, fileOps, moves>>

systemVars == <<part, vars, procVars, releaseVars, foundVars, serviceVars, spaceVars>>

SystemInit ==
    /\ part \in {"update", "processes", "release", "discovery", "services", "files"}
    /\ Init /\ Procs!Init /\ Found!Init /\ Services!Init /\ Space!Init
    /\ part # "services" => manager = "none" /\ allowlist = {} /\ \A s \in DOMAIN units : units[s] = "running"
    /\ part # "files" => folder = "dir" /\ \A d \in DOMAIN leaf : leaf[d] = "file"
    /\ Release!Init /\ (part # "release" => platform = "linux")
    /\ part # "discovery" => host = [n \in Names |-> CHOOSE p \in Payloads : TRUE]

SystemNext ==
    \/ /\ part = "update" /\ Next
       /\ UNCHANGED <<part, procVars, releaseVars, foundVars, serviceVars, spaceVars>>
    \/ /\ part = "processes" /\ Procs!Next
       /\ UNCHANGED <<part, vars, releaseVars, foundVars, serviceVars, spaceVars>>
    \/ /\ part = "release" /\ Release!Next
       /\ UNCHANGED <<part, vars, procVars, foundVars, serviceVars, spaceVars>>
    \/ /\ part = "discovery" /\ Found!Next
       /\ UNCHANGED <<part, vars, procVars, releaseVars, serviceVars, spaceVars>>
    \/ /\ part = "services" /\ Services!Next
       /\ UNCHANGED <<part, vars, procVars, releaseVars, foundVars, spaceVars>>
    \/ /\ part = "files" /\ Space!Next
       /\ UNCHANGED <<part, vars, procVars, releaseVars, foundVars, serviceVars>>

SystemSpec == SystemInit /\ [][SystemNext]_systemVars

\* Processes: a teardown kills what was meant, all of it, and nothing else is
\* taken for a process this server started.
TeardownsAreSound == part = "processes" => Procs!TeardownsAreSound

\* Releases and downloads: what is released was built together and says no more
\* of its signatures than is so; what is staged was verified.
SuppliesAreSound ==
    /\ part = "release" => Release!ReleasesAreSound
    /\ part = "discovery" => Found!DownloadsAreSound

\* Services: what is said of one is so, and only listed ones are touched.
\* Files: what is read and written lies under the root, and one who is alone
\* is told what he did.
ControlIsHonest ==
    /\ part = "services" => Services!ControlIsHonest
    /\ part = "files" => Space!FilesAreSound

=============================================================================
