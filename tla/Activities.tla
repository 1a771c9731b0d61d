---------------------------- MODULE Activities ------------------------------
(***************************************************************************)
(* Components that share no state with one another, each on its own:       *)
(* `part` says which of them a behaviour is about.                         *)
(***************************************************************************)
EXTENDS Naturals, Sequences, FiniteSets

CONSTANTS
    Workers,                                         \* threads of the server
    HookEvents, Destinations, MaxAttempts, MaxPublishes, MaxChanges,  \* of Webhooks
    Principals, Admins,                              \* callers, and those of role ADMIN
    MaxWorkflows, MaxSteps, MaxRequests,             \* of Workflows
    EnvSettings, MaxSettings, MaxCalls,              \* of AiSettings
    Apis, AppOf, ActionOf, PathOf, Bound, Given, MaxLooks,  \* of Exposure
    Windows, MaxInputs, MaxFaults,                   \* of DesktopInput
    Outputs, MaxAsks, MaxEvents                      \* of AudioControl

VARIABLES
    part,
    dests, delivered, fan, acked, publishes, changes,
    wfs, recording, request, active, made,
    settings, runtime, file, client, llm, closed, settingsLock, clientLock, aiCall, late, calls,
    home, recs, store, stale, scopes, snapshot, known, told, ran, steps,
    seat, held, open, win, act, stuck, want, inputs, faults,
    sound, level, default, change, asks, events

Hook == INSTANCE Webhooks WITH Publishers <- Workers, Events <- HookEvents

Flow == INSTANCE Workflows

Ai == INSTANCE AiSettings WITH Threads <- Workers, made <- settings, call <- aiCall

View == INSTANCE Exposure WITH MaxSteps <- MaxLooks, file <- store

Desk == INSTANCE DesktopInput WITH
    Hands <- Workers, MaxCalls <- MaxInputs, backend <- seat, calls <- inputs

Sound == INSTANCE AudioControl WITH
    Callers <- Workers, MaxCalls <- MaxAsks, backend <- sound, call <- change, calls <- asks

hookVars == <<dests, delivered, fan, acked, publishes, changes>>
flowVars == <<wfs, recording, request, active, made>>
aiVars == <<settings, runtime, file, client, llm, closed, settingsLock, clientLock, aiCall,
            late, calls>>
viewVars == <<home, recs, store, stale, scopes, snapshot, known, told, ran, steps>>
deskVars == <<seat, held, open, win, act, stuck, want, inputs, faults>>
soundVars == <<sound, level, default, change, asks, events>>
activityVars == <<part, hookVars, flowVars, aiVars, viewVars, deskVars, soundVars>>

\* The delivery need not look at a URL again that passed when it was registered.
ASSUME PassesAgain == Hook!PassesAgain

\* The environment names a remote, a key and a URL; a record is one of finitely
\* many, and its status one of the ranked; the marks of this model are no
\* thread, no record and no output; and a workflow has a number of steps.
ASSUME ActivitiesAssumption ==
    /\ EnvSettings \in [remote : BOOLEAN, key : Nat, url : {"default", "custom"}]
    /\ "nobody" \notin Workers
    /\ IsFiniteSet(Apis) /\ "action" \notin Apis
    /\ Given \subseteq {"DISABLED", "ERROR", "RESTRICTED", "UNSUPPORTED", "PARTIAL", "VERIFIED"}
    /\ "none" \notin Outputs
    /\ MaxSteps \in Nat

ActivitiesInit ==
    /\ part \in {"webhooks", "workflows", "ai", "exposure", "desktop", "audio"}
    /\ Hook!Init /\ Flow!Init /\ Ai!Init /\ View!Init /\ Desk!Init /\ Sound!Init
    /\ part # "exposure" => home = "server"
    /\ part # "desktop" => seat = "linux"
    /\ part # "audio" => sound = "linux" /\ default = CHOOSE o \in Outputs : TRUE

ActivitiesNext ==
    \/ /\ part = "webhooks" /\ Hook!Next
       /\ UNCHANGED <<part, flowVars, aiVars, viewVars, deskVars, soundVars>>
    \/ /\ part = "workflows" /\ Flow!Next
       /\ UNCHANGED <<part, hookVars, aiVars, viewVars, deskVars, soundVars>>
    \/ /\ part = "ai" /\ Ai!Next
       /\ UNCHANGED <<part, hookVars, flowVars, viewVars, deskVars, soundVars>>
    \/ /\ part = "exposure" /\ View!Next
       /\ UNCHANGED <<part, hookVars, flowVars, aiVars, deskVars, soundVars>>
    \/ /\ part = "desktop" /\ Desk!Next
       /\ UNCHANGED <<part, hookVars, flowVars, aiVars, viewVars, soundVars>>
    \/ /\ part = "audio" /\ Sound!Next
       /\ UNCHANGED <<part, hookVars, flowVars, aiVars, viewVars, deskVars>>

ActivitiesSpec == ActivitiesInit /\ [][ActivitiesNext]_activityVars

\* Webhooks: posts are signed for their URL, only what was accepted is marked
\* and is not posted again, and no destination is left out.
DeliveriesAreSound == part = "webhooks" => Hook!DeliveriesAreSound

\* Workflows: a replay says what it did and stops where it failed; what a
\* caller sees is what it may play, and the agent only plans.
ReplaysAreSound == part = "workflows" => Flow!ReplaysAreSound

\* AI settings: what the file says is in force, and what it replaced is not used.
SettingsAreFaithful == part = "ai" => Ai!SettingsAreFaithful

\* Exposure: what one surface shows the others show or run, what is withheld
\* is not run, and a client of MCP hears of a change of its lists.
SurfacesAgree == part = "exposure" => View!SurfacesAgree

\* Desktop and sound: what callers are told is so, and both are left usable.
DesktopIsHonest ==
    /\ part = "desktop" => Desk!DesktopIsSound
    /\ part = "audio" => Sound!AnswersMatchTheSound

=============================================================================
