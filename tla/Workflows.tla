----------------------------- MODULE Workflows ------------------------------
(***************************************************************************)
(* Recording, generation and replay of workflows, and the agent that may   *)
(* act on its own plan (apps/workflows, api/rest/workflows.py,             *)
(* apps/planner, apps/agent).                                              *)
(*                                                                         *)
(* There is one recording for the whole process.  play walks over the      *)
(* list of steps itself, so that steps recorded meanwhile are played too.  *)
(* A step of a workflow is known by who recorded it.  What an invocation   *)
(* does belongs to AdapterEngine; here it succeeds, answers something      *)
(* else, or raises.                                                        *)
(***************************************************************************)
EXTENDS Naturals, Sequences, FiniteSets

CONSTANTS
    Principals,    \* callers, each with one request at a time
    Admins,        \* those of role ADMIN
    MaxWorkflows,  \* bound: workflows
    MaxSteps,      \* bound: steps of a workflow
    MaxRequests    \* bound: requests

Nobody == "nobody"
Generator == "generator"

VARIABLES
    wfs,        \* _workflows: [owner, steps, rollback, plan]
    recording,  \* _recording: an index of wfs, 0 when None
    request,    \* what each caller is doing
    active,     \* callers whose key and session are not revoked
    made        \* requests made

wfVars == <<wfs, recording, request, active, made>>

Waiting == [at |-> "idle", wf |-> 0, had |-> 0, log |-> <<>>, ok |-> FALSE]
At(t, place) == request[t].at = place

Init ==
    /\ wfs = <<>> /\ recording = 0
    /\ request = [t \in Principals |-> Waiting]
    /\ active = Principals
    /\ made = 0

\* require_permission, and ensure_app_access: a revoked caller gets nothing.
Ask(t) ==
    /\ At(t, "idle") /\ made < MaxRequests
    /\ t \in active
    /\ made' = made + 1

-----------------------------------------------------------------------------
(* Recording                                                               *)

New(owner, steps, rollback) == [owner |-> owner, steps |-> steps, rollback |-> rollback]

\* start_recording takes the place of the recording there is.
StartRecording(t) ==
    /\ Ask(t) /\ Len(wfs) < MaxWorkflows
    /\ wfs' = Append(wfs, New(t, <<>>, 0))
    /\ recording' = Len(wfs) + 1
    /\ UNCHANGED <<request, active>>

\* record_step looks at the recording twice, and finds none the second time
\* when it was stopped in between: the request fails.
BeginStep(t) ==
    /\ Ask(t)
    /\ recording # 0
    /\ request' = [request EXCEPT ![t] = [Waiting EXCEPT !.at = "append"]]
    /\ UNCHANGED <<wfs, recording, active>>

AppendStep(t) ==
    /\ At(t, "append")
    /\ IF recording = 0 THEN UNCHANGED wfs
       ELSE /\ Len(wfs[recording].steps) < MaxSteps
            /\ wfs' = [wfs EXCEPT ![recording].steps = Append(@, t)]
    /\ request' = [request EXCEPT ![t] = Waiting]
    /\ UNCHANGED <<recording, active, made>>

StopRecording(t) ==
    /\ Ask(t)
    /\ recording # 0
    /\ recording' = 0
    /\ UNCHANGED <<wfs, request, active>>

-----------------------------------------------------------------------------
(* Generation, planning and the agent                                      *)

\* generate_workflow: a known pattern gives a sure plan of medium risk with a
\* rollback, one matching control a less sure one of its own risk, and
\* nothing found an unsure, empty one.
Plans == {[sure |-> TRUE,  risk |-> "medium", length |-> MaxSteps, rollback |-> 1],
          [sure |-> FALSE, risk |-> "low",    length |-> 1, rollback |-> 0],
          [sure |-> FALSE, risk |-> "medium", length |-> 1, rollback |-> 0],
          [sure |-> FALSE, risk |-> "low",    length |-> 0, rollback |-> 0]}

Generated(p) == New(Nobody, [i \in 1..p.length |-> Generator], p.rollback)

\* The workflow is published before the route binds it to its owner.
Generate(t, p) ==
    /\ Ask(t) /\ Len(wfs) < MaxWorkflows
    /\ wfs' = Append(wfs, Generated(p))
    /\ request' = [request EXCEPT ![t] = [Waiting EXCEPT !.at = "own", !.wf = Len(wfs) + 1]]
    /\ UNCHANGED <<recording, active>>

Own(t) ==
    /\ At(t, "own")
    /\ wfs' = [wfs EXCEPT ![request[t].wf].owner = t]
    /\ request' = [request EXCEPT ![t] = Waiting]
    /\ UNCHANGED <<recording, active, made>>

\* evaluate: the plan must have steps, need no confirmation, be sure, of low
\* risk and allowed; the plan asks for confirmation unless it is all that.
NeedsConfirmation(p) == p.risk \in {"medium", "high"} \/ ~p.sure

\* Mutated form of MayAct: the risk is not looked at.
MayActIfSure(p, allowed) == p.length > 0 /\ p.sure /\ allowed

MayAct(p, allowed) ==
    p.length > 0 /\ ~NeedsConfirmation(p) /\ p.sure /\ p.risk = "low" /\ allowed

\* ComputerAgent.run leaves the generated workflow without an owner, and goes
\* through its steps if the gate lets it.
RunAgent(t, p, allowed) ==
    /\ Ask(t) /\ Len(wfs) < MaxWorkflows
    /\ wfs' = Append(wfs, Generated(p))
    /\ request' = IF MayAct(p, allowed)
                  THEN [request EXCEPT ![t] = [Waiting EXCEPT !.at = "agent", !.wf = Len(wfs) + 1]]
                  ELSE request
    /\ UNCHANGED <<recording, active>>

-----------------------------------------------------------------------------
(* Replay                                                                  *)

\* list_workflows
Listed(t, w) == t \in Admins \/ wfs[w].owner \in {Nobody, t}

\* Mutated form of Owns: the administrator is not an exception.
OwnsStrictly(t, w) == wfs[w].owner \in {Nobody, t}

\* ensure_resource_owner
Owns(t, w) == t \in Admins \/ wfs[w].owner \in {Nobody, t}

StartPlay(t, w) ==
    /\ Ask(t)
    /\ Owns(t, w)
    /\ request' = [request EXCEPT ![t] = [Waiting EXCEPT !.at = "main", !.wf = w,
                                            !.had = Len(wfs[w].steps)]]
    /\ UNCHANGED <<wfs, recording, active>>

\* Mutated form of Succeeded: an answer that does not say ok counts.
SucceededUnlessRaised(answer) == answer # "raises"

\* _step_succeeded: only True, or ok without a denial or an error.
Answers == {"ok", "denied", "no word", "raises"}
Succeeded(answer) == answer = "ok"

\* How far the loop over the steps of a part has come.
Position(part, log) ==
    IF log # <<>> /\ log[Len(log)].part = part THEN log[Len(log)].nr ELSE 0

\* Mutated form of Stops: a failed step does not end the replay.
StopsOnDenial(answer) == answer = "denied"

Stops(answer) == ~Succeeded(answer)

\* One step: the gate (assert_active) and then the invocation.  A denial is a
\* failed step.
Step(t, part, answer) ==
    LET r == request[t]
        w == wfs[r.wf]
        nr == Position(part, r.log) + 1
    IN
    /\ At(t, part)
    /\ nr <= IF part = "main" THEN Len(w.steps) ELSE w.rollback
    /\ t \notin active => answer = "denied"
    /\ request' = [request EXCEPT ![t] =
         [r EXCEPT !.log = Append(r.log, [part |-> part, nr |-> nr, answer |-> answer]),
                   !.at = IF ~Stops(answer) THEN part
                          ELSE IF part = "main" /\ w.rollback > 0 THEN "back" ELSE "done"]]
    /\ UNCHANGED <<wfs, recording, active, made>>

\* The end of the list, as long as it is now.
Exhausted(t, part) ==
    LET r == request[t] IN
    /\ At(t, part)
    /\ Position(part, r.log) = IF part = "main" THEN Len(wfs[r.wf].steps) ELSE wfs[r.wf].rollback
    /\ request' = [request EXCEPT ![t].at = "done", ![t].ok = (part = "main")]
    /\ UNCHANGED <<wfs, recording, active, made>>

Answer(t) ==
    /\ At(t, "done")
    /\ request' = [request EXCEPT ![t] = Waiting]
    /\ UNCHANGED <<wfs, recording, active, made>>

\* The key or the session of the caller is revoked (AccessControl).
Revoke(t) ==
    /\ t \in active \ Admins
    /\ active' = active \ {t}
    /\ UNCHANGED <<wfs, recording, request, made>>

Next ==
    \E t \in Principals :
        \/ StartRecording(t) \/ BeginStep(t) \/ AppendStep(t) \/ StopRecording(t)
        \/ \E p \in Plans : Generate(t, p)
        \/ \E p \in Plans, allowed \in BOOLEAN : RunAgent(t, p, allowed)
        \/ Own(t)
        \/ \E w \in DOMAIN wfs : StartPlay(t, w)
        \/ \E part \in {"main", "back"} : Exhausted(t, part) \/ \E a \in Answers : Step(t, part, a)
        \/ Answer(t) \/ Revoke(t)

Spec == Init /\ [][Next]_wfVars

-----------------------------------------------------------------------------
(* Properties                                                              *)

TypeOK ==
    /\ \A w \in DOMAIN wfs : /\ wfs[w].owner \in Principals \cup {Nobody}
                             /\ wfs[w].steps \in Seq(Principals \cup {Generator})
                             /\ Len(wfs[w].steps) <= MaxSteps
    /\ recording \in 0..Len(wfs) /\ active \subseteq Principals
    /\ \A t \in Principals : request[t].wf \in 0..Len(wfs)

(***************************************************************************)
(* A replay that answers ok has had every step the workflow had when it    *)
(* began answer ok, whatever was recorded meanwhile and whoever was        *)
(* revoked (play, _step_succeeded).                                        *)
(***************************************************************************)
OkMeansPlayed ==
    \A t \in Principals : At(t, "done") /\ request[t].ok =>
        /\ Len(request[t].log) >= request[t].had
        /\ \A i \in DOMAIN request[t].log : request[t].log[i] =
              [part |-> "main", nr |-> i, answer |-> "ok"]

(***************************************************************************)
(* Nothing is pressed after the first failure but the steps of the         *)
(* rollback, in order, and these only until one of them fails (play).      *)
(***************************************************************************)
FailureIsTheEnd ==
    \A t \in Principals :
        LET log == request[t].log
            Follows(e, f) ==
                \/ e.answer = "ok" /\ f.part = e.part /\ f.nr = e.nr + 1
                \/ e.answer # "ok" /\ e.part = "main" /\ f.part = "back" /\ f.nr = 1
        IN /\ log # <<>> => log[1].part = "main" /\ log[1].nr = 1
           /\ \A i \in 1 .. Len(log) - 1 : Follows(log[i], log[i + 1])

(***************************************************************************)
(* A caller is shown exactly the workflows it may play (list_workflows and *)
(* ensure_resource_owner decide it each on their own).                     *)
(***************************************************************************)
ListedIsPlayable == \A t \in Principals, w \in DOMAIN wfs : Listed(t, w) <=> Owns(t, w)

(***************************************************************************)
(* With the plans the generator makes the agent never acts on its own: the *)
(* sure ones are of medium risk, the others not sure enough for the gate   *)
(* (agent/gate.py, agent/computer.py).                                     *)
(***************************************************************************)
AgentOnlyPlans == \A t \in Principals : ~At(t, "agent")

(***************************************************************************)
(* A replay says what it did and stops where it failed; what a caller sees *)
(* is what it may play, and the agent only plans.                          *)
(***************************************************************************)
ReplaysAreSound == OkMeansPlayed /\ FailureIsTheEnd /\ ListedIsPlayable /\ AgentOnlyPlans

=============================================================================
