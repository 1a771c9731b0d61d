-------------------------- MODULE ReleasePipeline ---------------------------
(***************************************************************************)
(* Building, packaging, signing, attesting and checking a release          *)
(* (scripts/build_installer.py, sign_windows_artifacts.py,                 *)
(* linux_package_formats.py, installer/release_attestation.py,             *)
(* update/checksum_manifest.py).  The commands are run one at a time in    *)
(* any order, and each may stop half way.  The bytes of a file are the     *)
(* build of the server it holds, the version it says and its Authenticode  *)
(* signature; equal bytes have equal hashes and no others do.              *)
(***************************************************************************)
EXTENDS Naturals, Sequences, FiniteSets

CONSTANTS
    MaxCommands, \* bound: commands run and changes of the sources
    Keys         \* Ed25519 keys of a release, positive numbers

NoServer == 0  \* what a package of something else holds
NoKey == 0

VARIABLES
    platform, \* where the commands run
    tree,     \* the sources: version, and whether validate() passes
    disk,     \* the artifacts
    sums,     \* the checksum manifests
    docs,     \* RELEASE_ATTESTATION.json of each folder
    builds, commands,
    fresh     \* history: folders attested since an artifact last changed

rpVars == <<platform, tree, disk, sums, docs, builds, commands, fresh>>

Artifacts == {"app", "setup", "zip", "deb", "appimage"}
Packages == <<"zip", "deb", "appimage">>  \* also tar.gz with zip and rpm with deb
Folders == {"dist", "output"}
FolderOf(f) == IF f = "setup" THEN "output" ELSE "dist"
Manifests == {"dist/checksums.txt", "output/checksums.txt", "dist/checksums-linux.txt"}
Attestation == "RELEASE_ATTESTATION.json"

Absent == [holds |-> NoServer, says |-> 0, sig |-> "absent"]
Unwritten == [f \in {} |-> Absent]
NoDoc == [key |-> NoKey, entries |-> Unwritten]
Present == {f \in Artifacts : disk[f] # Absent}

Init ==
    /\ platform \in {"linux", "win32"}
    /\ tree = [version |-> 1, valid |-> TRUE]
    /\ disk = [f \in Artifacts |-> Absent]
    /\ sums = [m \in Manifests |-> Unwritten]
    /\ docs = [d \in Folders |-> NoDoc]
    /\ builds = 0 /\ commands = 0 /\ fresh = {}

-----------------------------------------------------------------------------
(* Building and packaging                                                  *)

\* validate(): what the sources, the templates and the scripts must agree on.
Validates == tree.valid

\* The sources change: another version, templates that no longer agree.
Edit(v, ok) ==
    /\ tree' = [version |-> v, valid |-> ok]
    /\ UNCHANGED <<platform, disk, sums, docs, builds, fresh>>

\* Somebody deletes the binary, or a failing PyInstaller does.
Clean ==
    /\ disk' = [disk EXCEPT !["app"] = Absent]
    /\ fresh' = {}
    /\ UNCHANGED <<platform, tree, sums, docs, builds>>

\* The manifest of some artifacts: their hashes as they are on the disk now.
Lines(d, files) == [f \in files |-> d[f]]

Built == [holds |-> builds + 1, says |-> tree.version, sig |-> "none"]

BuildPortable ==
    /\ Validates
    /\ disk' = [disk EXCEPT !["app"] = Built]
    /\ sums' = [sums EXCEPT !["dist/checksums.txt"] = Lines(disk', {"app"})]
    /\ builds' = builds + 1 /\ fresh' = {}
    /\ UNCHANGED <<platform, tree, docs>>

\* Inno Setup wraps the EXE: only on Windows, and not without it.
BuildInstaller ==
    /\ Validates /\ platform = "win32" /\ disk["app"] # Absent
    /\ disk' = [disk EXCEPT !["setup"] = [disk["app"] EXCEPT !.says = tree.version, !.sig = "none"]]
    /\ sums' = [sums EXCEPT !["output/checksums.txt"] = Lines(disk', {"setup"})]
    /\ fresh' = {}
    /\ UNCHANGED <<platform, tree, docs, builds>>

\* dist/winos-api, or else the first file of such a name that is not an
\* archive: a package an earlier call has left there is taken for the binary.
FoundBinary(d) ==
    LET candidates == IF d["app"] # Absent THEN {"app"} ELSE {f \in {"deb", "appimage"} : d[f] # Absent}
    IN IF "appimage" \in candidates THEN {"appimage"} ELSE candidates

Packed(d, binary) ==
    [holds |-> IF binary = "app" THEN d["app"].holds ELSE NoServer, says |-> tree.version, sig |-> "none"]

\* The formats in their order; the run may end after any of them.  appimagetool
\* is missing, or it fails when the old image is already gone.
Formats == {{"zip"}, {"zip", "deb"}, {"appimage"}, {"zip", "deb", "appimage"}}
Done(formats, n) == {Packages[i] : i \in 1..n} \cap formats
Repacked(d, binary, done, lost) ==
    [f \in Artifacts |-> IF f \in done THEN Packed(d, binary) ELSE IF f \in lost THEN Absent ELSE d[f]]

\* Mutated form of LinuxSums: a packaging that failed lists what there is.
LinuxSumsAnyway(old, d, done, formats, binary) ==
    [old EXCEPT !["dist/checksums-linux.txt"] = Lines(d, {f \in formats : d[f] # Absent} \cup {binary})]

\* checksums() at the end of package_linux.
LinuxSums(old, d, done, formats, binary) ==
    IF done = formats THEN [old EXCEPT !["dist/checksums-linux.txt"] = Lines(d, done \cup {binary})]
    ELSE old

PackageLinux(formats, n, lost) ==
    \E binary \in FoundBinary(disk) :
        LET done == Done(formats, n) IN
        /\ Validates /\ platform = "linux"
        /\ lost \subseteq (formats \cap {"appimage"}) \ done
        /\ disk' = Repacked(disk, binary, done, lost)
        /\ sums' = LinuxSums(sums, disk', done, formats, binary)
        /\ fresh' = {}
        /\ UNCHANGED <<platform, tree, docs, builds>>

-----------------------------------------------------------------------------
(* Checksums                                                               *)

\* The default inputs of `checksums`: all but texts in both folders, flat.
\* Two files of one name refuse the manifest: two attestations are that.
Attested == {d \in Folders : docs[d] # NoDoc}
Collide == Cardinality(Attested) > 1

Checksums ==
    /\ ~Collide
    /\ sums' = [sums EXCEPT !["dist/checksums.txt"] =
        [f \in Present \cup (IF Attested = {} THEN {} ELSE {Attestation}) |->
            IF f \in Artifacts THEN disk[f] ELSE docs[CHOOSE d \in Attested : TRUE]]]
    /\ UNCHANGED <<platform, tree, disk, docs, builds, fresh>>

\* verify_checksum_manifest: every label is there and has its hash.
ChecksumsVerify(m, seen) ==
    /\ sums[m] # Unwritten
    /\ \A f \in DOMAIN sums[m] :
        IF f = Attestation THEN \E d \in Attested : docs[d] = sums[m][f]
        ELSE f \in seen /\ disk[f] = sums[m][f]

-----------------------------------------------------------------------------
(* Signing and attesting                                                   *)

Collected == Present \cap (IF platform = "win32" THEN {"app", "setup"} ELSE {"zip", "deb", "appimage"})
Executables == IF platform = "win32" THEN {"app", "setup"} ELSE {}

\* Signed in the order of the paths: with require_signature the first failure
\* of signtool ends the run, otherwise the others are still signed.
Sealed(paths, failing, require) ==
    LET exes == paths \cap Executables
    IN IF require /\ "app" \in failing \cap exes THEN {} ELSE exes \ failing

Sign(d, sealed, cert) == [f \in Artifacts |-> IF f \in sealed THEN [d[f] EXCEPT !.sig = cert] ELSE d[f]]

\* Mutated form of Entry: the files are hashed before they are signed.
EntryBefore(before, after, f, sealed, cert, key) ==
    [hash |-> before[f], verified |-> f \in sealed /\ cert = "trusted",
     status |-> IF f \in sealed THEN "authenticode" ELSE IF key # NoKey THEN "attested" ELSE "unsigned"]

\* artifact_entry and the evidence of sign_pe.
Entry(before, after, f, sealed, cert, key) ==
    [hash |-> after[f],
     status |-> IF f \in sealed THEN "authenticode" ELSE IF key # NoKey THEN "attested" ELSE "unsigned",
     verified |-> f \in sealed /\ cert = "trusted"]

Stops(paths, sealed, failing, require, keyOk) ==
    \/ ~keyOk
    \/ require /\ (sealed = {} \/ failing \cap paths \cap Executables # {})

\* build_attestation and write_attestation in every folder of the paths.
SignArtifacts(paths, cert, failing, key, keyOk, require) ==
    LET sealed == IF cert = "none" THEN {} ELSE Sealed(paths, failing, require)
        doc == [key |-> key,
                entries |-> [f \in paths |-> Entry(disk, disk', f, sealed, cert, key)]]
    IN  /\ paths # {} /\ failing \subseteq paths /\ (cert = "none" => failing = {})
        /\ keyOk \/ key = NoKey
        /\ disk' = Sign(disk, sealed, cert)
        /\ IF Stops(paths, sealed, failing, require, keyOk)
           THEN /\ docs' = docs
                /\ fresh' = IF disk' = disk THEN fresh ELSE {}
           ELSE /\ docs' = [d \in Folders |-> IF \E f \in paths : FolderOf(f) = d THEN doc ELSE docs[d]]
                /\ fresh' = {FolderOf(f) : f \in paths}
        /\ UNCHANGED <<platform, tree, sums, builds>>

\* try_signtool_verify of one file on a host.
PeVerify(f, host) ==
    IF host = "signtool" THEN IF disk[f].sig = "trusted" THEN "ok" ELSE "failed"
    ELSE IF host = "no PE" THEN "unavailable"
    ELSE IF disk[f].sig \in {"trusted", "untrusted"} THEN "present" ELSE "failed"

\* Mutated form of AuthenticodePasses: only what claims a signature is asked for one.
AuthenticodePassesUnclaimed(e, f, host, requireAuth) ==
    e.status = "authenticode" =>
        /\ PeVerify(f, host) # "failed"
        /\ ~(requireAuth /\ PeVerify(f, host) = "unavailable")

AuthenticodePasses(e, f, host, requireAuth) ==
    IF e.status = "authenticode"
    THEN /\ PeVerify(f, host) # "failed"
         /\ ~(requireAuth /\ PeVerify(f, host) = "unavailable")
    ELSE ~requireAuth

\* verify_release_artifacts; without a pinned key the one in the document counts.
Verifies(doc, seen, pinned, requireSig, requireAuth, host) ==
    /\ doc # NoDoc
    /\ requireSig => doc.key # NoKey
    /\ doc.key # NoKey => pinned \in {NoKey, doc.key}
    /\ \A f \in DOMAIN doc.entries :
        /\ f \in seen /\ disk[f] = doc.entries[f].hash
        /\ AuthenticodePasses(doc.entries[f], f, host, requireAuth)

Command ==
    \/ Edit(tree.version + 1, tree.valid) \/ Edit(tree.version, ~tree.valid)
    \/ Clean \/ BuildPortable \/ BuildInstaller \/ Checksums
    \/ \E formats \in Formats, n \in 0..Len(Packages), lost \in SUBSET {"appimage"} :
        PackageLinux(formats, n, lost)
    \/ \E paths \in {Collected} \cup {{f} : f \in Present}, cert \in {"none", "trusted", "untrusted"},
          failing \in SUBSET Executables, key \in Keys \cup {NoKey}, keyOk, require \in BOOLEAN :
        SignArtifacts(paths, cert, failing, key, keyOk, require)

Next == commands < MaxCommands /\ commands' = commands + 1 /\ Command

Spec == Init /\ [][Next]_rpVars

-----------------------------------------------------------------------------
(* Properties                                                              *)

TypeOK ==
    /\ fresh \subseteq Folders /\ commands \in 0..MaxCommands
    /\ \A f \in Artifacts : disk[f].holds \in 0..builds /\ disk[f].says \in 0..tree.version
    /\ \A d \in Folders : DOMAIN docs[d].entries \subseteq Artifacts

(***************************************************************************)
(* An attestation verifies over the artifacts it was written for as long   *)
(* as none of them has changed, with its key pinned or without (the        *)
(* hashes are those of the signed files, run in sign_windows_artifacts).   *)
(***************************************************************************)
AttestedVerifies ==
    \A d \in fresh : Verifies(docs[d], Artifacts, docs[d].key, docs[d].key # NoKey, FALSE, "presence")

(***************************************************************************)
(* What verifies with require_authenticode bears a signature now, a        *)
(* trusted one where signtool looks at it, and was attested as such.       *)
(***************************************************************************)
AuthenticodeIsReal ==
    \A d \in Folders, host \in {"signtool", "presence", "no PE"} :
        Verifies(docs[d], Artifacts, NoKey, FALSE, TRUE, host) =>
            \A f \in DOMAIN docs[d].entries :
                /\ disk[f].sig \in {"trusted", "untrusted"}
                /\ host = "signtool" => disk[f].sig = "trusted"

(***************************************************************************)
(* The Linux packages that a manifest lists beside the binary hold this    *)
(* binary and say one version, whenever the manifest verifies and however  *)
(* earlier packagings ended (package_linux).                               *)
(***************************************************************************)
OnePackaging ==
    LET m == "dist/checksums-linux.txt"
    IN ChecksumsVerify(m, Artifacts) /\ "app" \in DOMAIN sums[m] =>
        \A f, g \in DOMAIN sums[m] \ {"app"} :
            disk[f].holds = disk["app"].holds /\ disk[f].says = disk[g].says

(***************************************************************************)
(* What is released is what was built together, and says no more about     *)
(* its signatures than is so.                                              *)
(***************************************************************************)
ReleasesAreSound == AttestedVerifies /\ AuthenticodeIsReal /\ OnePackaging

=============================================================================
