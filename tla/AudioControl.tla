---------------------------- MODULE AudioControl ----------------------------
(***************************************************************************)
(* Volume and mute of the default output (os/audio/service.py,             *)
(* backends/windows_audio.py, backends/linux_audio.py).  On Windows a      *)
(* change is a conversation with the device: read what is there, set, read *)
(* back, and put the old values back when that went wrong.  Nothing holds  *)
(* a lock meanwhile; each step looks up anew which output is the default.  *)
(***************************************************************************)
EXTENDS Naturals

CONSTANTS
    Callers,   \* requests under way
    Outputs,   \* audio outputs of the machine
    MaxCalls,  \* bound: changes asked for
    MaxEvents  \* bound: failures, and changes made by the user

VARIABLES
    backend, \* "windows" or "linux"
    level,   \* output -> [volume, muted]
    default, \* the default output, or "none"
    call,    \* caller -> its change
    calls, events

auVars == <<backend, level, default, call, calls, events>>

Volumes == {0, 1, 2}
None == "none"
Idle == [at |-> "idle"]

Init ==
    /\ backend \in {"windows", "linux"}
    /\ level = [o \in Outputs |-> [volume |-> 0, muted |-> FALSE]]
    /\ default \in Outputs
    /\ call = [c \in Callers |-> Idle]
    /\ calls = 0 /\ events = 0

Event(happens) == (happens => events < MaxEvents) /\ events' = events + (IF happens THEN 1 ELSE 0)

\* Who is under way, but for `who`, does not have the output to himself.
Disturb(a, who) ==
    [c \in Callers |-> IF c \in who \/ a[c].at = "idle" THEN a[c] ELSE [a[c] EXCEPT !.alone = FALSE]]

\* The user turns a knob, mutes, plugs in or unplugs.
UserActs ==
    /\ Event(TRUE) /\ call' = Disturb(call, {})
    /\ \/ \E o \in Outputs : level' = [level EXCEPT ![o].volume = 2] /\ default' = default
       \/ \E o \in Outputs : level' = [level EXCEPT ![o].muted = ~@] /\ default' = default
       \/ default' \in (Outputs \cup {None}) \ {default} /\ level' = level
    /\ UNCHANGED <<backend, calls>>

-----------------------------------------------------------------------------

Unread == [volume |-> 0, muted |-> FALSE]

\* What is no integer in 0..100, or no truth value, is refused before the
\* device is touched.
Begin(c, field, value, valid) ==
    /\ call[c].at \in {"idle", "done"} /\ calls < MaxCalls /\ calls' = calls + 1
    /\ call' = [call EXCEPT ![c] =
        [at |-> IF ~valid THEN "done" ELSE IF backend = "windows" THEN "capture" ELSE "set",
         field |-> field, value |-> value, valid |-> valid, prior |-> Unread,
         ok |-> FALSE, verified |-> FALSE, restored |-> FALSE, alone |-> TRUE]]
    /\ UNCHANGED <<backend, level, default, events>>

\* _capture_prior: without a device or a reading nothing is changed.
Capture(c, fails) ==
    /\ call[c].at = "capture" /\ Event(fails)
    /\ call' = [call EXCEPT ![c] =
        IF fails \/ default = None THEN [@ EXCEPT !.at = "done"]
        ELSE [@ EXCEPT !.at = "set", !.prior = level[default], !.alone = TRUE]]
    /\ UNCHANGED <<backend, level, default, calls>>

\* The device takes the value, takes something near it, or raises before or
\* after it took the value.
Outcomes == {"taken", "near", "raised", "raised late"}

Near(field, value) == IF field = "muted" THEN ~value ELSE (value + 1) % 3

Written(field, value, how) ==
    IF how = "raised" \/ default = None THEN level
    ELSE [level EXCEPT ![default][field] = IF how = "near" THEN Near(field, value) ELSE value]

Raises(how) == default = None \/ how \in {"raised", "raised late"}

\* Mutated form of AfterSet: a set that raised is not undone.
AfterSetGivesUp(c, how) ==
    IF backend = "linux" THEN [call[c] EXCEPT !.at = "done", !.ok = ~Raises(how)]
    ELSE [call[c] EXCEPT !.at = IF Raises(how) THEN "done" ELSE "check",
                         !.restored = Raises(how)]

\* On Linux the exit code is the answer.  On Windows a set that raised may
\* have touched the device.
AfterSet(c, how) ==
    IF backend = "linux" THEN [call[c] EXCEPT !.at = "done", !.ok = ~Raises(how)]
    ELSE [call[c] EXCEPT !.at = IF Raises(how) THEN "restore volume" ELSE "check"]

Set(c, how) ==
    /\ call[c].at = "set" /\ Event(how # "taken")
    /\ level' = Written(call[c].field, call[c].value, how)
    /\ call' = Disturb([call EXCEPT ![c] = AfterSet(c, how)], {c})
    /\ UNCHANGED <<backend, default, calls>>

\* Mutated form of Agrees: that the set did not raise is enough.
AgreesUnread(c) == default # None

Agrees(c) == default # None /\ level[default][call[c].field] = call[c].value

\* The readback decides.
Check(c, fails) ==
    /\ call[c].at = "check" /\ Event(fails)
    /\ call' = [call EXCEPT ![c] =
        IF ~fails /\ Agrees(c) THEN [@ EXCEPT !.at = "done", !.ok = TRUE, !.verified = TRUE, !.alone = TRUE]
        ELSE [@ EXCEPT !.at = "restore volume"]]
    /\ UNCHANGED <<backend, level, default, calls>>

\* Mutated form of NextRestored: the volume is all there is to put back.
NextRestoredVolume(c) == [at |-> "done", restored |-> TRUE]

\* _attempt_restore: volume first, then mute; restored when neither raised.
NextRestored(c) ==
    IF call[c].at = "restore volume" THEN [at |-> "restore mute", restored |-> FALSE]
                                     ELSE [at |-> "done", restored |-> TRUE]

Restore(c, raises) ==
    LET field == IF call[c].at = "restore volume" THEN "volume" ELSE "muted"
        fails == raises \/ default = None
        next == IF fails THEN [at |-> "done", restored |-> FALSE] ELSE NextRestored(c)
    IN  /\ call[c].at \in {"restore volume", "restore mute"} /\ Event(raises)
        /\ level' = Written(field, call[c].prior[field], IF fails THEN "raised" ELSE "taken")
        /\ call' = Disturb([call EXCEPT ![c].at = next.at, ![c].restored = next.restored], {c})
        /\ UNCHANGED <<backend, default, calls>>

Next ==
    \/ UserActs
    \/ \E c \in Callers :
        \/ \E valid \in BOOLEAN : Begin(c, "volume", 1, valid)
        \/ \E muted \in BOOLEAN : Begin(c, "muted", muted, TRUE)
        \/ \E bad \in BOOLEAN : Capture(c, bad) \/ Check(c, bad) \/ Restore(c, bad)
        \/ \E how \in Outcomes : Set(c, how)

Spec == Init /\ [][Next]_auVars

-----------------------------------------------------------------------------
(* Properties                                                              *)

TypeOK ==
    /\ level \in [Outputs -> [volume : Volumes, muted : BOOLEAN]] /\ default \in Outputs \cup {None}
    /\ \A c \in Callers : call[c].at \in {"idle", "capture", "set", "check", "restore volume", "restore mute", "done"}

Done(c) == call[c].at = "done"

(***************************************************************************)
(* A change that is reported verified is what the default output has, as   *)
(* long as nobody touched it since ("ambiguous / unverified is not         *)
(* success").                                                              *)
(***************************************************************************)
VerifiedIsHeard ==
    \A c \in Callers : Done(c) /\ call[c].verified /\ call[c].alone =>
        default # None /\ level[default][call[c].field] = call[c].value

(***************************************************************************)
(* A change that failed and is reported restored leaves volume and mute as *)
(* they were before it, when nobody else touched the output between its    *)
(* first reading and now ("prior volume+mute are restored when possible"). *)
(***************************************************************************)
RestoredIsAsBefore ==
    \A c \in Callers : Done(c) /\ call[c].restored /\ call[c].alone =>
        ~call[c].ok /\ default # None /\ level[default] = call[c].prior

(***************************************************************************)
(* Without a failure and without interference a valid change succeeds on   *)
(* Windows: nothing else makes the readback disagree.                      *)
(***************************************************************************)
FailuresHaveReasons ==
    backend = "windows" /\ events = 0 =>
        \A c \in Callers : Done(c) /\ call[c].alone => call[c].ok \/ ~call[c].valid

(***************************************************************************)
(* The answers say what happened to the sound.                             *)
(***************************************************************************)
AnswersMatchTheSound == VerifiedIsHeard /\ RestoredIsAsBefore /\ FailuresHaveReasons

=============================================================================
