----------------------------- MODULE AiSettings -----------------------------
(***************************************************************************)
(* The settings of the AI provider, their file, the shared HTTP client and *)
(* the bridge of the reasoner (apps/ai, api/rest/ai.py).  The settings are *)
(* behind one lock, which a PUT holds while it resolves a name, writes the *)
(* file and closes the client; the client is behind another, which its     *)
(* creation holds while it reads the settings.  What a request says and    *)
(* what a model answers is left out; names and providers are external.     *)
(***************************************************************************)
EXTENDS Naturals, Sequences

CONSTANTS
    Threads,      \* worker threads of the server
    EnvSettings,  \* the settings of the environment: [remote, key, url]
    MaxSettings,  \* bound: settings ever made
    MaxCalls      \* bound: calls

Free == "nobody"
Default == "default"  \* no base_url: the provider's own
NoKey == 0

VARIABLES
    made,      \* every settings object made so far; the others are indices of it
    runtime,   \* _runtime
    file,      \* the settings file, 0 when there is none
    client,    \* _client by the settings it was made from, 0 when None
    llm,       \* _llm of the reasoner, 0 for NullLLM
    closed,    \* shared clients that are closed
    settingsLock, clientLock,
    call,      \* what each thread is doing
    late,      \* history: a shared client sent a request with settings of the past
    calls

aiVars == <<made, runtime, file, client, llm, closed, settingsLock, clientLock, call, late, calls>>

Ready == [at |-> "idle", kind |-> "none", next |-> EnvSettings, client |-> 0]
At(t, place) == call[t].at = place
Goto(t, place) == call' = [call EXCEPT ![t].at = place]

RemoteReady(s) == s.remote /\ s.key # NoKey

Init ==
    /\ made = <<EnvSettings>> /\ runtime = 1 /\ file = 0
    /\ client = 0 /\ closed = {}
    /\ llm = 0
    /\ settingsLock = Free /\ clientLock = Free
    /\ call = [t \in Threads |-> Ready]
    /\ late = FALSE /\ calls = 0

-----------------------------------------------------------------------------
(* PUT /ai/settings                                                        *)

Begin(t, kind, place) ==
    /\ At(t, "idle") /\ calls < MaxCalls
    /\ calls' = calls + 1
    /\ call' = [call EXCEPT ![t] = [Ready EXCEPT !.kind = kind, !.at = place]]
    /\ UNCHANGED <<made, runtime, file, client, llm, closed, settingsLock, clientLock, late>>

\* What a PUT may ask for: each field is kept, cleared or given a new value.
Change(s, remote, key, url) ==
    [remote |-> remote,
     key |-> CASE key = "keep" -> s.key [] key = "clear" -> NoKey [] key = "new" -> Len(made) + 1,
     url |-> IF url = "keep" THEN s.url ELSE url]

\* validate_ai_base_url: https on its own port, nobody's credentials, and an
\* address, or a name that resolves to addresses, none of them private.
Urls == [https : BOOLEAN, credentials : BOOLEAN, port : {"none", "443", "other"},
         metadata : BOOLEAN, name : BOOLEAN, addresses : SUBSET {"public", "private"}]
Usable(u) ==
    /\ u.https /\ ~u.credentials /\ u.port # "other" /\ ~u.metadata
    /\ "private" \notin u.addresses /\ u.addresses # {}
Verdicts == {Usable(u) : u \in Urls}

\* A base_url that is set is validated, also when the PUT does not change it.
Update(t, remote, key, url, valid) ==
    LET s == Change(made[runtime], remote, key, url) IN
    /\ At(t, "update") /\ settingsLock = Free
    /\ Len(made) < MaxSettings
    /\ s.url = Default => valid
    /\ settingsLock' = IF valid THEN t ELSE Free
    /\ call' = [call EXCEPT ![t] = 
                   IF valid THEN [@ EXCEPT !.at = "write", !.next = s] ELSE [@ EXCEPT !.at = "answer"]]
    /\ UNCHANGED <<made, runtime, file, client, llm, closed, clientLock, late, calls>>

\* Mutated form of Applied: the settings count before they are written.
AppliedFirst(t) == made' = Append(made, call[t].next) /\ runtime' = Len(made')

Applied(t) == UNCHANGED <<made, runtime>>

\* _secure_write: the file is replaced as a whole, or left as it was.
WriteFails(t) ==
    /\ At(t, "write")
    /\ Applied(t)
    /\ settingsLock' = Free
    /\ Goto(t, "answer")
    /\ UNCHANGED <<file, client, llm, closed, clientLock, late, calls>>

Write(t) ==
    /\ At(t, "write")
    /\ made' = Append(made, call[t].next)
    /\ file' = Len(made')
    /\ Goto(t, "apply")
    /\ UNCHANGED <<runtime, client, llm, closed, settingsLock, clientLock, late, calls>>

Apply(t) ==
    /\ At(t, "apply")
    /\ runtime' = file
    /\ Goto(t, "reset")
    /\ UNCHANGED <<made, file, client, llm, closed, settingsLock, clientLock, late, calls>>

\* Mutated form of Closing: the client is dropped but not closed.
ClosingNothing == closed

Closing == closed \cup ({client} \ {0})

\* reset_ai_client, the settings lock still held.
Reset(t) ==
    /\ At(t, "reset") /\ clientLock = Free
    /\ closed' = Closing /\ client' = 0
    /\ settingsLock' = Free
    /\ call' = [call EXCEPT ![t] = [Ready EXCEPT !.kind = "put", !.at = "sync"]]
    /\ UNCHANGED <<made, runtime, file, llm, clientLock, late, calls>>

\* sync_llm_bridge, and the look at the settings of any other caller.
LookAtSettings(t) ==
    /\ At(t, "sync") /\ settingsLock = Free
    /\ IF RemoteReady(made[runtime])
       THEN Goto(t, "client") /\ UNCHANGED llm
       ELSE /\ Goto(t, "answer")
            /\ llm' = IF call[t].kind = "put" THEN 0 ELSE llm
    /\ UNCHANGED <<made, runtime, file, client, closed, settingsLock, clientLock, late, calls>>

-----------------------------------------------------------------------------
(* get_ai_client and the requests                                          *)

TakeClientLock(t) ==
    /\ At(t, "client") /\ clientLock = Free
    /\ clientLock' = t
    /\ Goto(t, "create")
    /\ UNCHANGED <<made, runtime, file, client, llm, closed, settingsLock, late, calls>>

\* The shared client, or one made from the settings of now, whose lock is
\* taken inside.  A test makes one of its own.
Current == IF client # 0 THEN client ELSE runtime

GetClient(t) ==
    LET shared == call[t].kind # "test"
        c == IF shared THEN Current ELSE runtime
    IN
    /\ At(t, "create")
    /\ (shared /\ client # 0) \/ settingsLock = Free
    /\ client' = IF shared THEN c ELSE client
    /\ clientLock' = Free
    /\ call' = [call EXCEPT ![t].at = CASE call[t].kind = "put" -> "bridge"
                                         [] call[t].kind = "reason" -> "bridge"
                                         [] OTHER -> "send",
                            ![t].client = c]
    /\ UNCHANGED <<made, runtime, file, llm, closed, settingsLock, late, calls>>

\* set_llm, by a PUT or by _ensure_llm; neither is under a lock.
Bridge(t) ==
    /\ At(t, "bridge")
    /\ llm' = call[t].client
    /\ Goto(t, IF call[t].kind = "put" THEN "answer" ELSE "send")
    /\ UNCHANGED <<made, runtime, file, client, closed, settingsLock, clientLock, late, calls>>

\* _ensure_llm keeps what it has, an old client too.
EnsureLlm(t) ==
    /\ At(t, "ensure")
    /\ call' = [call EXCEPT ![t].at = IF llm = 0 THEN "sync" ELSE "send", ![t].client = llm]
    /\ UNCHANGED <<made, runtime, file, client, llm, closed, settingsLock, clientLock, late, calls>>

\* _post_json: a client that was closed meanwhile sends nothing.
Open(t) == call[t].kind = "test" \/ call[t].client \notin closed

Send(t) ==
    /\ At(t, "send")
    /\ late' = (late \/ (/\ call[t].kind # "test" /\ Open(t)
                         /\ call[t].client # runtime /\ settingsLock = Free))
    /\ Goto(t, "answer")
    /\ UNCHANGED <<made, runtime, file, client, llm, closed, settingsLock, clientLock, calls>>

Answer(t) ==
    /\ At(t, "answer")
    /\ call' = [call EXCEPT ![t] = Ready]
    /\ UNCHANGED <<made, runtime, file, client, llm, closed, settingsLock, clientLock, late, calls>>

-----------------------------------------------------------------------------
(* Restart                                                                 *)

\* Mutated form of Merged: a key of the environment fills an empty one.
MergedOver(s, resolves) == [s EXCEPT !.key = IF @ = NoKey THEN EnvSettings.key ELSE @]

\* _merge: a file that is there decides each field; a base_url that does not
\* resolve any more is dropped, which leaves the provider's own.
Merged(s, resolves) == [s EXCEPT !.url = IF resolves THEN @ ELSE Default]

\* The server dies and starts again, with the settings of the file.
Restart(resolves) ==
    LET s == IF file = 0 THEN EnvSettings ELSE Merged(made[file], resolves) IN
    /\ Len(made) < MaxSettings
    /\ made' = Append(made, s) /\ runtime' = Len(made) + 1
    /\ client' = IF RemoteReady(s) THEN runtime' ELSE 0
    /\ llm' = client' /\ closed' = {}
    /\ settingsLock' = Free /\ clientLock' = Free
    /\ call' = [t \in Threads |-> Ready]
    /\ UNCHANGED <<file, late, calls>>

Next ==
    \/ \E t \in Threads :
        \/ Begin(t, "put", "update") \/ Begin(t, "test", "client")
        \/ Begin(t, "plan", "sync") \/ Begin(t, "reason", "ensure")
        \/ \E remote \in BOOLEAN, valid \in Verdicts, key \in {"keep", "clear", "new"},
              url \in {"keep", Default, "custom"} :
              Update(t, remote, key, url, valid)
        \/ WriteFails(t) \/ Write(t) \/ Apply(t) \/ Reset(t) \/ LookAtSettings(t)
        \/ TakeClientLock(t) \/ GetClient(t) \/ Bridge(t) \/ EnsureLlm(t) \/ Send(t) \/ Answer(t)
    \/ \E resolves \in Verdicts : Restart(resolves)

Spec == Init /\ [][Next]_aiVars

-----------------------------------------------------------------------------
(* Properties                                                              *)

TypeOK ==
    /\ {runtime} \cup closed \subseteq DOMAIN made /\ {file, client, llm} \subseteq 0..Len(made)
    /\ {settingsLock, clientLock} \subseteq Threads \cup {Free}
    /\ \A t \in Threads : call[t].client \in 0..Len(made)

(***************************************************************************)
(* While no PUT is at work the settings in force are those of the file,    *)
(* whichever write failed and wherever the server died: a key that was     *)
(* cleared stays cleared, and only a base_url may have been dropped        *)
(* (update_ai_settings applies after the write; _merge).                   *)
(***************************************************************************)
FileIsRuntime ==
    settingsLock = Free /\ file # 0 =>
        /\ made[runtime].key = made[file].key /\ made[runtime].remote = made[file].remote
        /\ made[runtime].url \in {made[file].url, Default}

(***************************************************************************)
(* Once a PUT is through, the shared client sends nothing with the key or  *)
(* to the URL it replaced, whoever still holds the old client              *)
(* (reset_ai_client under the settings lock, _post_json).                  *)
(***************************************************************************)
OldSettingsAreSilent == ~late

(***************************************************************************)
(* No thread waits for a lock whose holder waits for the lock it holds     *)
(* (lock_order.md: acquire low to high only).                              *)
(***************************************************************************)
NoCircularWait ==
    \A t, u \in Threads :
        ~( /\ settingsLock = t /\ At(t, "reset") /\ clientLock = u
           /\ At(u, "create") /\ (client = 0 \/ call[u].kind = "test"))

(***************************************************************************)
(* What the file says is in force, and what it replaced is not used.       *)
(***************************************************************************)
SettingsAreFaithful == FileIsRuntime /\ OldSettingsAreSilent

=============================================================================
