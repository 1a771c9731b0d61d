--------------------------- MODULE ServiceControl ---------------------------
(***************************************************************************)
(* Starting, stopping and restarting services of the system                *)
(* (os/services, backends/windows_services.py, linux_services.py).  Calls  *)
(* overlap with each other and with what the services do by themselves:    *)
(* they come up late or not at all, end, are paused, and are started by    *)
(* others.  The allowlist is read from the environment in every call.      *)
(***************************************************************************)
EXTENDS Naturals

CONSTANTS
    Clients, Services,
    MaxCalls,  \* bound: calls of the API
    MaxEvents  \* bound: what others do to a service or to the allowlist

VARIABLES
    backend,   \* which backend the server runs on
    allowlist, \* WINOS_SERVICE_ALLOWLIST as it is now
    state,     \* service -> its state in the service manager
    instance,  \* service -> how often it was started
    job,       \* client -> its call
    calls, events

scVars == <<backend, allowlist, state, instance, job, calls, events>>

Pending == {"starting", "stopping"}
States == Pending \cup {"stopped", "running", "paused"}
Goal(action) == IF action = "stop" THEN "stopped" ELSE "running"
Idle == [at |-> "idle"]

Init ==
    /\ backend \in {"windows", "linux", "none"}
    /\ allowlist \in SUBSET Services
    /\ state \in [Services -> {"stopped", "running"}]
    /\ instance = [s \in Services |-> 1]
    /\ job = [c \in Clients |-> Idle]
    /\ calls = 0 /\ events = 0

Goto(c, place) == job' = [job EXCEPT ![c].at = place]

\* The answer of a call; phase is where a restart ended.
Answer(c, ok, code) == job' = [job EXCEPT ![c].at = "done", ![c].ok = ok, ![c].code = code]

-----------------------------------------------------------------------------
(* The services                                                            *)

Become(s, next) == state' = [state EXCEPT ![s] = next] /\ instance' = instance

\* A pending service comes up or fails to, is down or will not stop.
Settle(s) ==
    /\ \/ state[s] = "starting" /\ (Become(s, "running") \/ Become(s, "stopped"))
       \/ state[s] = "stopping" /\ (Become(s, "stopped") \/ Become(s, "running"))
    /\ UNCHANGED <<backend, allowlist, job, calls, events>>

Launched(s) ==
    /\ state' = [state EXCEPT ![s] = "starting"]
    /\ instance' = [instance EXCEPT ![s] = @ + 1]

\* It ends, is paused or resumed, or somebody else starts it.
Others(s) ==
    /\ events < MaxEvents /\ events' = events + 1
    /\ \/ state[s] = "running" /\ (Become(s, "stopped") \/ Become(s, "paused"))
       \/ state[s] = "paused" /\ Become(s, "running")
       \/ state[s] = "stopped" /\ Launched(s)
    /\ UNCHANGED <<backend, allowlist, job, calls>>

SetAllowlist(names) ==
    /\ events < MaxEvents /\ events' = events + 1
    /\ allowlist' = names
    /\ UNCHANGED <<backend, state, instance, job, calls>>

-----------------------------------------------------------------------------
(* The call                                                                *)

\* Mutated form of Allowed: an allowlist that is not set allows everything.
AllowedUnset(s) == allowlist = {} \/ s \in allowlist

Allowed(s) == s \in allowlist

\* control(): what the backend cannot do is said before what is not allowed.
Begin(c, s, action) ==
    /\ calls < MaxCalls /\ calls' = calls + 1
    /\ job[c].at \in {"idle", "done"}
    /\ job' = [job EXCEPT ![c] =
        [at |-> IF backend = "none" \/ ~Allowed(s) THEN "done" ELSE "open",
         ok |-> FALSE,
         code |-> IF backend = "none" THEN "unsupported" ELSE IF Allowed(s) THEN "none" ELSE "not allowed",
         service |-> s, action |-> action,
         phase |-> IF action = "restart" THEN "stop" ELSE action,
         listed |-> s \in allowlist,   \* history: what the list said
         before |-> instance[s],       \* history: the instance then
         sent |-> FALSE,               \* history: something was sent to the service
         started |-> FALSE]]           \* history: it was started by this call
    /\ UNCHANGED <<backend, allowlist, state, instance, events>>

\* The service may be missing, or closed to this user.
OpenService(c, outcome) ==
    /\ job[c].at = "open" /\ backend = "windows"
    /\ IF outcome = "ok" THEN Goto(c, "look") ELSE Answer(c, FALSE, outcome)
    /\ UNCHANGED <<backend, allowlist, state, instance, calls, events>>

\* A transition is refused that crosses one under way; a restart of a service
\* that is down begins with the start.
Conflicts(action, now) ==
    CASE action = "start" -> now = "stopping"
      [] action = "stop" -> now = "starting"
      [] action = "restart" -> now \in Pending

Look(c) ==
    LET now == state[job[c].service] IN
    /\ job[c].at = "look"
    /\ IF Conflicts(job[c].action, now) THEN Answer(c, FALSE, "conflict")
       ELSE job' = [job EXCEPT ![c].at = "send",
                               ![c].phase = IF job[c].action = "restart" /\ now = "stopped" THEN "start" ELSE @]
    /\ UNCHANGED <<backend, allowlist, state, instance, calls, events>>

\* Mutated form of Refusal: a start that is denied is told as a denial.
RefusalDenied(phase) == IF phase = "start" THEN "permission_denied" ELSE "stop_failed"

Refusal(phase) == IF phase = "start" THEN "start_failed" ELSE "stop_failed"

\* StartService or ControlService(STOP): that there is nothing to do is no
\* error, a stop of a pending service is.
Send(c, fails) ==
    LET s == job[c].service
        start == job[c].phase = "start"
        acts == IF start THEN state[s] = "stopped" ELSE state[s] \in {"running", "paused"}
        refused == fails \/ (~start /\ state[s] \in Pending)
    IN  /\ job[c].at = "send"
        /\ IF refused THEN Answer(c, FALSE, Refusal(job[c].phase))
           ELSE job' = [job EXCEPT ![c].at = "wait", ![c].sent = @ \/ acts, ![c].started = @ \/ (start /\ acts)]
        /\ IF refused \/ ~acts THEN UNCHANGED <<state, instance>>
           ELSE IF start THEN Launched(s) ELSE Become(s, "stopping")
        /\ UNCHANGED <<backend, allowlist, calls, events>>

\* Mutated form of Reached: a stop is done when the service is on its way.
ReachedNearly(phase, now) == now = Goal(phase) \/ (phase = "stop" /\ now = "stopping")

Reached(phase, now) == now = Goal(phase)

\* Mutated form of AfterStop: a restart goes on after a stop that failed.
AfterStopAnyway(action, phase, reached) == action = "restart" /\ phase = "stop"

\* _restart: the start follows only a stop that was seen.
AfterStop(action, phase, reached) == action = "restart" /\ phase = "stop" /\ reached

TooLate(phase, now) == IF now \in Pending THEN "timeout" ELSE Refusal(phase)

\* _wait_terminal: ask until the state is reached or the time is over, and then
\* once more; only what was seen counts.
Poll(c, late) ==
    LET phase == job[c].phase
        now == state[job[c].service]
    IN  /\ job[c].at = "wait" /\ (late \/ Reached(phase, now))
        /\ IF AfterStop(job[c].action, phase, Reached(phase, now))
           THEN job' = [job EXCEPT ![c].at = "send", ![c].phase = "start"]
           ELSE IF Reached(phase, now) THEN Answer(c, TRUE, "none")
           ELSE Answer(c, FALSE, TooLate(phase, now))
        /\ UNCHANGED <<backend, allowlist, state, instance, calls, events>>

\* systemctl does a whole job, or part of it when its time is over.
Systemctl(c, outcome) ==
    LET s == job[c].service
        action == job[c].action
        down == action # "start" /\ state[s] # "stopped"
        up == action = "restart" \/ (action = "start" /\ state[s] = "stopped")
    IN  /\ job[c].at = "open" /\ backend = "linux" /\ state[s] \notin Pending
        /\ CASE outcome \in {"permission_denied", "not_found"} -> UNCHANGED <<state, instance>>
             [] outcome = "none" ->
                /\ state' = [state EXCEPT ![s] = IF up THEN "running" ELSE IF down THEN "stopped" ELSE @]
                /\ instance' = [instance EXCEPT ![s] = IF up THEN @ + 1 ELSE @]
             [] outcome = "failed" -> Become(s, IF up THEN "stopped" ELSE state[s])
             [] outcome = "timeout" ->
                IF down THEN Become(s, "stopping") ELSE IF up THEN Launched(s) ELSE UNCHANGED <<state, instance>>
        /\ job' = [job EXCEPT ![c].at = "done", ![c].ok = outcome = "none", ![c].code = outcome,
                              ![c].sent = outcome \notin {"permission_denied", "not_found"},
                              ![c].started = up /\ outcome \in {"none", "timeout"} /\ ~(down /\ outcome = "timeout")]
        /\ UNCHANGED <<backend, allowlist, calls, events>>

\* The answer of the route and what the audit log says of it.
Http(c) ==
    CASE job[c].code = "unsupported" -> 501
      [] job[c].code \in {"not allowed", "permission_denied"} -> 403
      [] job[c].code = "not_found" -> 404
      [] job[c].code = "conflict" -> 409
      [] job[c].code = "timeout" -> 504
      [] OTHER -> 200
AuditOutcome(c) == IF Http(c) \in {403, 501} THEN "denied" ELSE "success"

Next ==
    \/ \E s \in Services : Settle(s) \/ Others(s)
    \/ \E names \in SUBSET Services : SetAllowlist(names)
    \/ \E c \in Clients :
        \/ \E s \in Services, action \in {"start", "stop", "restart"} : Begin(c, s, action)
        \/ \E outcome \in {"ok", "not_found", "permission_denied", "open_failed"} : OpenService(c, outcome)
        \/ Look(c)
        \/ \E fails \in BOOLEAN : Send(c, fails)
        \/ \E late \in BOOLEAN : Poll(c, late)
        \/ \E outcome \in {"none", "permission_denied", "not_found", "failed", "timeout"} : Systemctl(c, outcome)

Spec == Init /\ [][Next]_scVars

-----------------------------------------------------------------------------
(* Properties                                                              *)

TypeOK ==
    /\ state \in [Services -> States] /\ allowlist \subseteq Services
    /\ \A c \in Clients : job[c].at \in {"idle", "open", "look", "send", "wait", "done"}
    /\ calls \in 0..MaxCalls /\ events \in 0..MaxEvents

Done(c) == job[c].at = "done"

(***************************************************************************)
(* After a restart that was answered with success the instance that ran    *)
(* when the call came in runs no more, whatever other callers and the      *)
(* service itself did meanwhile (_restart).                                *)
(***************************************************************************)
RestartIsNew ==
    \A c \in Clients :
        Done(c) /\ job[c].ok /\ job[c].action = "restart" => instance[job[c].service] > job[c].before

(***************************************************************************)
(* A restart whose stop was not seen to succeed starts nothing ("Partial   *)
(* failure is never reported as ok").                                      *)
(***************************************************************************)
AbortedRestartStartsNothing ==
    backend = "windows" => \A c \in Clients :
        Done(c) /\ job[c].action = "restart" /\ job[c].phase = "stop" => ~job[c].ok /\ ~job[c].started

(***************************************************************************)
(* Nothing was sent to a service by a call that the audit log calls        *)
(* denied, and none to one that was not listed when the call came in.      *)
(***************************************************************************)
DenialsTouchNothing ==
    \A c \in Clients :
        /\ Done(c) /\ AuditOutcome(c) = "denied" => ~job[c].sent
        /\ job[c].at # "idle" /\ job[c].sent => job[c].listed

(***************************************************************************)
(* What a caller and the audit log are told of a service is what was done. *)
(***************************************************************************)
ControlIsHonest == RestartIsNew /\ AbortedRestartStartsNothing /\ DenialsTouchNothing

=============================================================================
