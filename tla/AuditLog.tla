------------------------------ MODULE AuditLog ------------------------------
(***************************************************************************)
(* The audit log (core/security/audit.py): JSON lines, each with the HMAC  *)
(* of the line before it, in one file that is moved to ".1" when it is     *)
(* full.  A logger keeps the last HMAC and the number of lines in memory   *)
(* and learns them from the file when it is built.  The threads of a       *)
(* process share one logger, whose lock covers a whole write; processes    *)
(* (the server, and winos-api diagnose --before-restart) share the file.   *)
(*                                                                         *)
(* An entry is a number, which is also its HMAC: two entries never have    *)
(* the same one.  Readers take no lock and change nothing: what they meet  *)
(* is the file of any state.                                               *)
(***************************************************************************)
EXTENDS Integers, Sequences

CONSTANTS
    Procs,       \* processes that build a logger on the file
    MaxEntries,  \* max_entries: lines in a file before it is rotated
    MaxIds,      \* bound: entries in a behaviour
    MaxFaults    \* bound: I/O errors and deaths in the middle of a write

ASSUME AuditAssumption ==
    /\ MaxEntries \in Nat \ {0}
    /\ MaxIds \in Nat
    /\ MaxFaults \in Nat

Genesis == 0
Ids == 1..MaxIds
Macs == Ids \cup {Genesis}
Steps == {"idle", "unlink", "replace", "append", "rest", "sync"}

(* A line: what it says of itself and of the line before, the entries that  *)
(* have bytes in it, and whether it parses, does not, or is not even UTF-8. *)
Lines == [mac : Ids, prev : Macs, ids : SUBSET Ids, text : {"json", "cut", "bytes"}]

VARIABLES
    file,     \* lines of audit.jsonl
    ended,    \* the last of them has its newline
    old,      \* lines of audit.jsonl.1
    exists,   \* audit.jsonl is there
    log,      \* logger of each process: status, step, prev, count, entry
    next,     \* the next entry
    acked,    \* history: entries whose log() call returned
    damaged,  \* history: the file had a fault, or two writers at once
    faults    \* faults so far

vars == <<file, ended, old, exists, log, next, acked, damaged, faults>>

Loggers == [status : {"off", "ok", "unavailable", "unbuilt"}, step : Steps,
            prev : Macs, count : Nat, entry : Ids \cup {0}]

Fresh(status, prev, count) ==
    [status |-> status, step |-> "idle", prev |-> prev, count |-> count, entry |-> 0]

Off == Fresh("off", Genesis, 0)

Init ==
    /\ file = <<>> /\ ended = TRUE /\ old = <<>> /\ exists = FALSE
    /\ log = [p \in Procs |-> Off]
    /\ next = 1
    /\ acked = {}
    /\ damaged = FALSE
    /\ faults = 0

-----------------------------------------------------------------------------
MacBefore(lines, i) == IF i = 1 THEN Genesis ELSE lines[i - 1].mac

Linked(lines, i) == lines[i].text = "json" /\ lines[i].prev = MacBefore(lines, i)

Verifies(lines) == \A i \in 1..Len(lines) : Linked(lines, i)

(* entries_checked: the lines before the first that does not verify.       *)
Checked(lines) ==
    CHOOSE n \in 0..Len(lines) :
        /\ \A i \in 1..n : Linked(lines, i)
        /\ n < Len(lines) => ~Linked(lines, n + 1)

(* The HMAC of the last line that parses, whether or not the lines before   *)
(* it verify.                                                              *)
LastHmac(lines) ==
    LET readable == {i \in 1..Len(lines) : lines[i].text = "json"} IN
    IF readable = {} THEN Genesis
    ELSE lines[CHOOSE i \in readable : \A j \in readable : j <= i].mac

Undecodable(lines) == \E i \in 1..Len(lines) : lines[i].text = "bytes"

At(p, s) == log[p].step = s
Goto(p, s) == log' = [log EXCEPT ![p].step = s]
Rivals(p) == {q \in Procs \ {p} : log[q].status = "ok"}
Faulty == faults < MaxFaults /\ faults' = faults + 1

-----------------------------------------------------------------------------
(* Building a logger                                                       *)

\* Mutated form of Bootstrapped: the entries are counted from one too few.
BootstrappedShort(lines) ==
    Fresh("ok", LastHmac(lines), Checked(lines) - 1)

\* Verified or not, the chain goes on from the last readable line, unless a
\* line cannot be decoded: then the constructor raises, at every call.
Bootstrapped(lines) ==
    IF Undecodable(lines) THEN Fresh("unbuilt", Genesis, 0)
    ELSE Fresh("ok", LastHmac(lines), Checked(lines))

Start(p) ==
    /\ log[p].status = "off"
    /\ log' = [log EXCEPT ![p] = Bootstrapped(file)]
    /\ UNCHANGED <<file, ended, old, exists, next, acked, damaged, faults>>

\* Both readers of the file swallow an OSError: the chain starts anew.
StartUnread(p) ==
    /\ log[p].status = "off"
    /\ exists
    /\ Faulty
    /\ log' = [log EXCEPT ![p] = Fresh("ok", Genesis, 0)]
    /\ damaged' = (damaged \/ file # <<>>)
    /\ UNCHANGED <<file, ended, old, exists, next, acked>>

StartWithoutParent(p) ==
    /\ log[p].status = "off"
    /\ Faulty
    /\ log' = [log EXCEPT ![p] = Fresh("unavailable", Genesis, 0)]
    /\ UNCHANGED <<file, ended, old, exists, next, acked, damaged>>

Exit(p) ==
    /\ log[p].status # "off"
    /\ At(p, "idle")
    /\ log' = [log EXCEPT ![p] = Off]
    /\ UNCHANGED <<file, ended, old, exists, next, acked, damaged, faults>>

-----------------------------------------------------------------------------
(* log(), one call at a time in a process                                  *)

\* Mutated form of Full: one entry too many.
FullLate(p) == log[p].count > MaxEntries

Full(p) == log[p].count >= MaxEntries

\* A file that exists is rotated when it has the number of entries, and may
\* be for its size or its age.
Enter(p) ==
    /\ log[p].status = "ok"
    /\ At(p, "idle")
    /\ next \in Ids
    /\ \/ exists /\ Goto(p, "unlink")
       \/ (exists => ~Full(p)) /\ Goto(p, "append")
    /\ UNCHANGED <<file, ended, old, exists, next, acked, damaged, faults>>

UnlinkOld(p) ==
    /\ At(p, "unlink")
    /\ old' = <<>>
    /\ Goto(p, "replace")
    /\ UNCHANGED <<file, ended, exists, next, acked, damaged, faults>>

\* os.replace fails on a file that another process has open (Windows).
MoveAway(p) ==
    /\ At(p, "replace")
    /\ exists
    /\ \A q \in Rivals(p) : log[q].step \notin {"rest", "sync"}
    /\ old' = file
    /\ file' = <<>> /\ ended' = TRUE /\ exists' = FALSE
    /\ log' = [log EXCEPT ![p].prev = Genesis, ![p].count = 0, ![p].step = "append"]
    /\ damaged' = (Rivals(p) # {})
    /\ UNCHANGED <<next, acked, faults>>

Entry(p, text) == [mac |-> next, prev |-> log[p].prev, ids |-> {next}, text |-> text]

Spoilt(line, more) ==
    [line EXCEPT !.ids = @ \cup more.ids, !.text = IF @ = "bytes" THEN @ ELSE "cut"]

\* Mutated form of Added: the file is opened with "w".
AddedTo(lines, line) == <<line>>

\* Bytes at the end of the file: a line of their own after a newline, the
\* rest of a spoilt line without one.
Added(lines, line) ==
    IF ended THEN Append(lines, line)
    ELSE [lines EXCEPT ![Len(lines)] = Spoilt(@, line)]

Put(p, text, step) ==
    /\ At(p, "append")
    /\ next \in Ids
    /\ file' = Added(file, Entry(p, text))
    /\ exists' = TRUE
    /\ next' = next + 1
    /\ log' = [log EXCEPT ![p].entry = next, ![p].step = step]
    /\ damaged' = (damaged \/ Rivals(p) # {})
    /\ UNCHANGED <<old, acked, faults>>

WriteLine(p) == Put(p, "json", "sync") /\ ended' = TRUE

\* A line longer than the buffer goes to the file in pieces.
WritePart(p) == Put(p, "cut", "rest") /\ ended' = FALSE

MyPart(p) == ~ended /\ file[Len(file)].ids = {log[p].entry}

WriteRest(p) ==
    /\ At(p, "rest")
    /\ \/ MyPart(p) /\ file' = [file EXCEPT ![Len(file)].text = "json"]
       \/ ~MyPart(p) /\ file' = Added(file, [mac |-> log[p].entry, prev |-> log[p].prev,
                                             ids |-> {log[p].entry}, text |-> "cut"])
    /\ ended' = TRUE
    /\ Goto(p, "sync")
    /\ damaged' = (damaged \/ Rivals(p) # {})
    /\ UNCHANGED <<old, exists, next, acked, faults>>

\* fsync; only then the logger moves on.
Done(p) ==
    /\ At(p, "sync")
    /\ log' = [log EXCEPT ![p].prev = log[p].entry, ![p].count = @ + 1, ![p].step = "idle"]
    /\ acked' = acked \cup {log[p].entry}
    /\ UNCHANGED <<file, ended, old, exists, next, damaged, faults>>

(* How a write that stops short leaves the file: a line in pieces may lack  *)
(* only its newline, or end inside a character.                            *)
StopsShort(p) ==
    LET n == Len(file) IN
    IF At(p, "rest") /\ ~ended
    THEN \E text \in {"json", "cut", "bytes"} :
            /\ text = "json" => file[n].text = "cut" /\ MyPart(p)
            /\ file[n].text = "bytes" => text = "bytes"
            /\ file' = [file EXCEPT ![n].text = text]
    ELSE UNCHANGED file

\* Mutated form of AfterError: the next call tries again.
AfterErrorOk == "ok"

\* _mark_unavailable: for the life of the logger.
AfterError == "unavailable"

\* An OSError at any step; an append may have created the file.
Fail(p) ==
    /\ ~At(p, "idle")
    /\ Faulty
    /\ StopsShort(p)
    /\ log' = [log EXCEPT ![p].status = AfterError, ![p].step = "idle"]
    /\ exists' \in {exists, exists \/ At(p, "append")}
    /\ damaged' = (damaged \/ At(p, "rest"))
    /\ UNCHANGED <<ended, old, next, acked>>

\* The process dies in the middle of a call.
Die(p) ==
    /\ ~At(p, "idle")
    /\ Faulty
    /\ StopsShort(p)
    /\ log' = [log EXCEPT ![p] = Off]
    /\ exists' \in {exists, exists \/ At(p, "append")}
    /\ damaged' = (damaged \/ At(p, "rest"))
    /\ UNCHANGED <<ended, old, next, acked>>

Next ==
    \E p \in Procs :
        \/ Start(p) \/ StartUnread(p) \/ StartWithoutParent(p) \/ Exit(p)
        \/ Enter(p) \/ UnlinkOld(p) \/ MoveAway(p)
        \/ WriteLine(p) \/ WritePart(p) \/ WriteRest(p) \/ Done(p)
        \/ Fail(p) \/ Die(p)

Spec == Init /\ [][Next]_vars

-----------------------------------------------------------------------------
(* Properties                                                              *)

TypeOK ==
    /\ file \in Seq(Lines) /\ old \in Seq(Lines)
    /\ ended \in BOOLEAN /\ exists \in BOOLEAN /\ damaged \in BOOLEAN
    /\ log \in [Procs -> Loggers]
    /\ next \in 1..(MaxIds + 1)
    /\ acked \subseteq Ids
    /\ faults \in 0..MaxFaults

(* Whoever reads the file between two writes finds a chain that verifies,   *)
(* across rotations, restarts, I/O errors and lines whose fsync failed,     *)
(* unless a write stopped inside a line, a start could not read the file,  *)
(* or two loggers wrote at once; a rotation by a lone logger ends even that *)
(* (audit.py:194-209, 265-339).                                            *)
ChainVerifies == ~damaged /\ ended => Verifies(file)

(* A file that nothing damaged never has more than max_entries lines,       *)
(* however often the logger was built again (audit.py:322-339).            *)
FileBounded == ~damaged => Len(file) <= MaxEntries

Kept(e) ==
    \/ \E i \in 1..Len(file) : e \in file[i].ids
    \/ \E i \in 1..Len(old) : e \in old[i].ids

(* Retention drops from the old end only: while an acknowledged entry has   *)
(* bytes in one of the two files, so has every later one, also with two     *)
(* writers and after faults (audit.py:290-339).                            *)
RetentionKeepsNewest == \A e, f \in acked : e < f /\ Kept(e) => Kept(f)

=============================================================================
