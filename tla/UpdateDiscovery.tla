-------------------------- MODULE UpdateDiscovery ---------------------------
(***************************************************************************)
(* Finding a release on its channel and downloading it to the staging      *)
(* directory (update/discovery.py, UpdateManager.discover_and_stage).      *)
(* The channel, the host, the keystore and the installed version change    *)
(* beside it, files fail to be written or removed, and the updater dies    *)
(* between any two steps.  A payload stands for its bytes and their hash.  *)
(***************************************************************************)
EXTENDS Naturals, FiniteSets

CONSTANTS
    Downloaders, \* runs of the updater that may overlap
    Payloads, Names,
    ReleaseKeys, \* Ed25519 keys of the trust keystore
    MaxEvents,   \* bound: releases published and changes beside the updater
    MaxFaults    \* bound: failing file operations and deaths

VARIABLES
    channel,   \* what the channel offers now
    host,      \* name -> the payload the host serves
    active,    \* keys that are not revoked
    installed, \* UpdateManager.version
    get,       \* what each run is doing
    staging,   \* name -> the file
    sidecar,   \* checksums.txt of the staging directory
    accepted,  \* history: payloads whose hash and signature were right
    older,     \* history: a release was taken that is no newer
    events, faults

udVars == <<channel, host, active, installed, get, staging, sidecar, accepted, older,
            events, faults>>

Nothing == "nothing"
Torn == "torn"
Unsigned == [by |-> "nobody", over |-> Nothing]
Signatures == [by : ReleaseKeys, over : Payloads] \cup {Unsigned}
NoRelease == [version |-> 0, name |-> Nothing, hash |-> Nothing, signature |-> Unsigned]
Idle == [at |-> "idle", release |-> NoRelease, actual |-> Nothing]

At(t, place) == get[t].at = place
Goto(t, place) == get' = [get EXCEPT ![t].at = place]
Stop(t) == get' = [get EXCEPT ![t] = Idle]
MayFail(fails) == fails => faults < MaxFaults
Count(fails) == faults' = faults + (IF fails THEN 1 ELSE 0)

Init ==
    /\ channel = NoRelease /\ host \in [Names -> Payloads]
    /\ active = ReleaseKeys /\ installed = 1
    /\ get = [t \in Downloaders |-> Idle]
    /\ staging = [n \in Names |-> Nothing] /\ sidecar = [n \in {} |-> Nothing]
    /\ accepted = {} /\ older = FALSE /\ events = 0 /\ faults = 0

-----------------------------------------------------------------------------
(* Beside the updater                                                      *)

Event ==
    /\ events < MaxEvents /\ events' = events + 1
    /\ UNCHANGED <<get, staging, sidecar, accepted, older, faults>>

\* A release names any hash and signature; version 0 does not parse.
Publish(v, n, p, s) ==
    /\ Event /\ channel' = [version |-> v, name |-> n, hash |-> p, signature |-> s]
    /\ UNCHANGED <<host, active, installed>>

Serve(n, p) ==
    /\ Event /\ host' = [host EXCEPT ![n] = p]
    /\ UNCHANGED <<channel, active, installed>>

RevokeKey(k) ==
    /\ Event /\ k \in active /\ active' = active \ {k}
    /\ UNCHANGED <<channel, host, installed>>

Install ==
    /\ Event /\ installed' = installed + 1
    /\ UNCHANGED <<channel, host, active>>

-----------------------------------------------------------------------------
(* The updater                                                             *)

\* discover_release: the channel as it is now; a fetch that fails ends the run.
Discover(t) ==
    /\ At(t, "idle") /\ channel.version > 0
    /\ get' = [get EXCEPT ![t] = [at |-> "version", release |-> channel, actual |-> Nothing]]
    /\ UNCHANGED <<channel, host, active, installed, staging, sidecar, accepted, older, events, faults>>

\* Mutated form of Newer: the installed version is taken again.
NewerOrSame(version, current) == version >= current

Newer(version, current) == version > current

\* A release that is no newer is refused, unless a downgrade is asked for.
CheckVersion(t, allowDowngrade) ==
    LET v == get[t].release.version IN
    /\ At(t, "version")
    /\ IF allowDowngrade \/ Newer(v, installed)
       THEN Goto(t, "fetch") /\ older' = (older \/ ~(allowDowngrade \/ v > installed))
       ELSE Stop(t) /\ older' = older
    /\ UNCHANGED <<channel, host, active, installed, staging, sidecar, accepted, events, faults>>

\* The payload is written over what was staged under its name; what it was
\* hashed to is remembered.
Fetch(t, fails) ==
    LET n == get[t].release.name IN
    /\ At(t, "fetch") /\ MayFail(fails) /\ Count(fails)
    /\ staging' = [staging EXCEPT ![n] = IF fails THEN Torn ELSE host[n]]
    /\ IF fails THEN Stop(t) ELSE get' = [get EXCEPT ![t].at = "hash", ![t].actual = host[n]]
    /\ UNCHANGED <<channel, host, active, installed, sidecar, accepted, older, events>>

\* A file that is refused is removed; a failure of that is ignored.
Refuse(t, fails) ==
    /\ MayFail(fails) /\ Count(fails)
    /\ staging' = IF fails THEN staging ELSE [staging EXCEPT ![get[t].release.name] = Nothing]
    /\ Stop(t)

CheckHash(t, fails) ==
    /\ At(t, "hash")
    /\ IF get[t].actual = get[t].release.hash
       THEN ~fails /\ Goto(t, "signature") /\ UNCHANGED <<staging, faults>>
       ELSE Refuse(t, fails)
    /\ UNCHANGED <<channel, host, active, installed, sidecar, accepted, older, events>>

\* Mutated form of SignatureHolds: the key may be revoked.
SignatureHoldsRevoked(signature, hash) == signature # Unsigned /\ signature.over = hash

\* verify_release_signature: by a key of the keystore that is active now, over
\* the hash of the file.
SignatureHolds(signature, hash) ==
    signature # Unsigned /\ signature.over = hash /\ signature.by \in active

Takes(t) == SignatureHolds(get[t].release.signature, get[t].actual)

CheckSignature(t, fails) ==
    LET s == get[t].release.signature IN
    /\ At(t, "signature")
    /\ IF Takes(t)
       THEN /\ ~fails /\ Goto(t, "sidecar") /\ UNCHANGED <<staging, faults>>
            /\ accepted' = IF s.by \in active /\ s.over = get[t].actual /\ get[t].actual = get[t].release.hash
                           THEN accepted \cup {get[t].actual} ELSE accepted
       ELSE Refuse(t, fails) /\ accepted' = accepted
    /\ UNCHANGED <<channel, host, active, installed, sidecar, older, events>>

\* The new manifest lists this artifact only, hashed once more.
Sidecar(t, fails) ==
    LET n == get[t].release.name IN
    /\ At(t, "sidecar") /\ MayFail(fails) /\ Count(fails)
    /\ sidecar' = IF fails THEN sidecar ELSE [m \in {n} |-> staging[n]]
    /\ Stop(t)
    /\ UNCHANGED <<channel, host, active, installed, staging, accepted, older, events>>

Die(t) ==
    /\ ~At(t, "idle") /\ MayFail(TRUE) /\ Count(TRUE) /\ Stop(t)
    /\ UNCHANGED <<channel, host, active, installed, staging, sidecar, accepted, older, events>>

Next ==
    \/ \E v \in 1..3, n \in Names, p \in Payloads, s \in Signatures : Publish(v, n, p, s)
    \/ \E n \in Names, p \in Payloads : Serve(n, p)
    \/ \E k \in ReleaseKeys : RevokeKey(k)
    \/ Install
    \/ \E t \in Downloaders :
        \/ Discover(t) \/ Die(t)
        \/ \E allow \in BOOLEAN : CheckVersion(t, allow)
        \/ \E fails \in BOOLEAN : Fetch(t, fails) \/ CheckHash(t, fails) \/ CheckSignature(t, fails) \/ Sidecar(t, fails)

Spec == Init /\ [][Next]_udVars

-----------------------------------------------------------------------------
(* Properties                                                              *)

Staged == Payloads \cup {Torn, Nothing}

TypeOK ==
    /\ active \subseteq ReleaseKeys /\ accepted \subseteq Payloads
    /\ staging \in [Names -> Staged] /\ DOMAIN sidecar \subseteq Names
    /\ \A t \in Downloaders : get[t].actual \in Payloads \cup {Nothing}

(***************************************************************************)
(* A staged file that its manifest vouches for had the hash of a release   *)
(* and the signature of a key that was active when it was checked, also    *)
(* after failures and deaths of other runs in the same directory           *)
(* (download_verified).  Two runs at once break it: the second file is     *)
(* hashed into the manifest of the first.                                  *)
(***************************************************************************)
StagedIsVerified ==
    \A n \in DOMAIN sidecar : staging[n] = sidecar[n] /\ staging[n] # Nothing => staging[n] \in accepted

(***************************************************************************)
(* Without failing file operations nothing stays in the staging directory  *)
(* that was not verified once the run is over.                             *)
(***************************************************************************)
NothingUnverifiedStays ==
    faults = 0 /\ (\A t \in Downloaders : At(t, "idle")) =>
        \A n \in Names : staging[n] \in accepted \cup {Nothing}

(***************************************************************************)
(* What is staged was verified, and was newer than what was installed when *)
(* the release was looked at, if no downgrade was asked for.               *)
(***************************************************************************)
DownloadsAreSound == StagedIsVerified /\ NothingUnverifiedStays /\ ~older

=============================================================================
