------------------------------ MODULE Exposure ------------------------------
(***************************************************************************)
(* The surfaces on which the records of the API registry are shown and by  *)
(* which they are run: the catalog, the OpenAPI and SDK export, the tools  *)
(* and resources of an MCP session, the execution gateway.  ApiRegistry    *)
(* has the life of one record; here any handler may have given a record    *)
(* any status.  The MCP server is a process of its own with a registry     *)
(* that it read from the file when it started (main), or it is called in   *)
(* the process of the REST server (handle_request).                        *)
(***************************************************************************)
EXTENDS Naturals, FiniteSets

CONSTANTS
    Apis,       \* records, by id
    AppOf,      \* application_id of each, NoApp for one without
    ActionOf,   \* the action that capability and path name
    Bound,      \* records whose path and method are a route of the server
    PathOf,     \* path and method
    Principals,
    Admins,
    Given,      \* bound: statuses that the handlers give here
    MaxSteps    \* bound: changes and requests

NoApp == "no app"
Apps == {AppOf[a] : a \in Apis} \ {NoApp}
Rank == [DISABLED |-> 0, ERROR |-> 1, RESTRICTED |-> 2, UNSUPPORTED |-> 3, PARTIAL |-> 4, VERIFIED |-> 5]
Statuses == DOMAIN Rank
Missing == "missing"
Kinds == {"tools", "resources"}

VARIABLES
    home,      \* where the MCP server runs: "server" or a process of its "own"
    recs,      \* per process, the status of each record
    file,      \* the store
    stale,     \* records whose verification is older than the maximum age
    scopes,    \* app_scopes of each principal, in the process of the server
    snapshot,  \* _last_tool_snapshot and _last_resource_snapshot
    known,     \* history: the lists the client of the session was last given
    told,      \* history: kinds of which it was told that they have changed
    ran,       \* history: the record and its status at the last run
    steps

exVars == <<home, recs, file, stale, scopes, snapshot, known, told, ran, steps>>

None == {Missing}  \* no list yet
Quiet == [record |-> Missing, status |-> Missing, others |-> {}]
Mcp == IF home = "server" THEN "server" ELSE "mcp"
Step == steps < MaxSteps /\ steps' = steps + 1

Init ==
    /\ home \in {"server", "own"}
    /\ recs = [x \in {"server", "mcp"} |-> [a \in Apis |-> Missing]]
    /\ file = [a \in Apis |-> Missing]
    /\ stale = {}
    /\ scopes = [p \in Principals |-> {}]
    /\ snapshot = [k \in Kinds |-> None] /\ known = [k \in Kinds |-> None]
    /\ told = {} /\ ran = Quiet /\ steps = 0

-----------------------------------------------------------------------------
(* What is shown                                                           *)

\* visible_app_ids: administrators and principals without scopes see all, the
\* others the records of their applications.  The overlay of the scopes is in
\* the memory of the server alone.
ScopesOf(x, p) == IF x = "server" THEN scopes[p] ELSE {}
Unrestricted(x, p) == p \in Admins \/ ScopesOf(x, p) = {}
Visible(x, p, a) == Unrestricted(x, p) \/ AppOf[a] \in ScopesOf(x, p)

Present(x) == {a \in Apis : recs[x][a] # Missing}
Catalog(x, p) == {a \in Present(x) : Visible(x, p, a)}

\* _is_mcp_publishable: the age of the verification is not looked at.
Publishable(x, a) == recs[x][a] = "VERIFIED"

\* Mutated form of Listed: what was withdrawn is listed to administrators.
ListedToAdmins(x, p) == {a \in Catalog(x, p) : Publishable(x, a) \/ p \in Admins}

Listed(x, p) == {a \in Catalog(x, p) : Publishable(x, a)}
Readable(x, p, a) == a \in Present(x) /\ Visible(x, p, a) /\ Publishable(x, a)

\* authorize_verified_status at the export and at the gateway.
Fresh(x, a) == recs[x][a] = "VERIFIED" /\ a \notin stale

\* Mutated form of Exportable: the age is not looked at again.
ExportableStale(x, a) == recs[x][a] = "VERIFIED"

Exportable(x, a) == Fresh(x, a)

\* The export hides no record without an application; two records with the
\* same path and method make it fail as a whole.
ExportSet(x, p) ==
    {a \in Present(x) : Exportable(x, a) /\ (Visible(x, p, a) \/ AppOf[a] = NoApp) /\ a \in Bound}
Exported(x, p) ==
    IF \A a, b \in ExportSet(x, p) : PathOf[a] = PathOf[b] => a = b THEN ExportSet(x, p) ELSE {}

-----------------------------------------------------------------------------
(* The gateway                                                             *)

\* _status_blocks_execution
Executable(x, a) == Fresh(x, a) \/ recs[x][a] = "PARTIAL"

\* find_api_for_action: the most restrictive of the records for the action.
Records(x, app, action) == {a \in Present(x) : AppOf[a] = app /\ ActionOf[a] = action}
Decisive(x, S) == {a \in S : \A b \in S : Rank[recs[x][a]] <= Rank[recs[x][b]]}

\* authorize_execution by the id of a record, and by an application and an
\* action, for which there may be no record at all.
MayRun(x, a) == a \in Present(x) /\ Executable(x, a) /\ AppOf[a] # NoApp
MayRunAction(x, app, action) ==
    LET S == Records(x, app, action) IN \A a \in Decisive(x, S) : Executable(x, a)

-----------------------------------------------------------------------------
(* Changes of the registry                                                 *)

\* A handler of the server gives a record a status and saves the registry; a
\* verification that makes it VERIFIED is new.
Change(a, s) ==
    /\ Step
    /\ recs' = [recs EXCEPT !["server"][a] = s]
    /\ file' = recs'["server"]
    /\ stale' = IF s = "VERIFIED" THEN stale \ {a} ELSE stale
    /\ UNCHANGED <<home, scopes, snapshot, known, told, ran>>

Age(a) ==
    /\ Step /\ a \notin stale /\ recs["server"][a] = "VERIFIED"
    /\ stale' = stale \cup {a}
    /\ UNCHANGED <<home, recs, file, scopes, snapshot, known, told, ran>>

SetScopes(p, S) ==
    /\ Step /\ p \notin Admins
    /\ scopes' = [scopes EXCEPT ![p] = S]
    /\ UNCHANGED <<home, recs, file, stale, snapshot, known, told, ran>>

\* demote_verified_apis_for_app, by a verification in the MCP process.
Demote(app) ==
    /\ Step
    /\ recs' = [recs EXCEPT ![Mcp] = [a \in Apis |->
                   IF AppOf[a] = app /\ @[a] = "VERIFIED" THEN "DISABLED" ELSE @[a]]]
    /\ recs' # recs /\ file' = recs'[Mcp]
    /\ UNCHANGED <<home, stale, scopes, snapshot, known, told, ran>>

\* A new session: the process reads the store.
StartSession ==
    /\ Step
    /\ recs' = IF home = "own" THEN [recs EXCEPT !["mcp"] = file] ELSE recs
    /\ snapshot' = [k \in Kinds |-> None] /\ known' = [k \in Kinds |-> None]
    /\ told' = {}
    /\ UNCHANGED <<home, file, stale, scopes, ran>>

-----------------------------------------------------------------------------
(* The MCP session                                                         *)

\* Mutated form of Changed: the snapshot is kept by the kind that is asked for.
ChangedOfKind(now, kind) == {k \in Kinds \cap {kind} : snapshot[k] # None /\ snapshot[k] # now}

\* _maybe_emit_list_changed: both lists are compared at each request, and the
\* notifications are written before the answer.
Changed(now, kind) == {k \in Kinds : snapshot[k] # None /\ snapshot[k] # now}

\* The client is given the lists in `given` with the answer.
Compare(p, kind, given) ==
    LET now == Listed(Mcp, p) IN
    /\ snapshot' = [k \in Kinds |-> now]
    /\ told' = (told \cup Changed(now, kind)) \ given
    /\ known' = [k \in Kinds |-> IF k \in given THEN now ELSE known[k]]

\* tools/list and resources/list
List(p, kind) ==
    /\ Step /\ Compare(p, kind, {kind})
    /\ UNCHANGED <<home, recs, file, stale, scopes, ran>>

\* resources/read
Read(p) ==
    /\ Step /\ Compare(p, "resources", {})
    /\ UNCHANGED <<home, recs, file, stale, scopes, ran>>

\* tools/call of a tool of the registry: the lists are not compared, and the
\* scopes are not looked at.
Call(a) ==
    /\ Step /\ Publishable(Mcp, a) /\ MayRun(Mcp, a)
    /\ ran' = [record |-> a, status |-> recs[Mcp][a],
               others |-> {recs[Mcp][b] : b \in Records(Mcp, AppOf[a], ActionOf[a])}]
    /\ UNCHANGED <<home, recs, file, stale, scopes, snapshot, known, told>>

\* Mutated form of Deciding: any of the records for the action decides.
DecidingAny(x, app, action) == \E a \in Records(x, app, action) : Executable(x, a)

Deciding(x, app, action) == MayRunAction(x, app, action)

\* The action itself, invoked over REST or MCP (invoke_action).
Invoke(x, app, action) ==
    /\ Step /\ Deciding(x, app, action)
    /\ ran' = [record |-> "action", status |-> Missing,
               others |-> {recs[x][b] : b \in Records(x, app, action)}]
    /\ UNCHANGED <<home, recs, file, stale, scopes, snapshot, known, told>>

Next ==
    \/ \E a \in Apis, s \in Given : Change(a, s)
    \/ \E a \in Apis : Age(a)
    \/ \E p \in Principals, S \in SUBSET Apps : SetScopes(p, S)
    \/ \E app \in Apps : Demote(app)
    \/ StartSession
    \/ \E p \in Principals, k \in Kinds : List(p, k)
    \/ \E p \in Principals : Read(p)
    \/ \E a \in Apis : Call(a)
    \/ \E x \in {"server", Mcp}, a \in Apis : AppOf[a] # NoApp /\ Invoke(x, AppOf[a], ActionOf[a])

Spec == Init /\ [][Next]_exVars

-----------------------------------------------------------------------------
(* Properties                                                              *)

TypeOK ==
    /\ recs \in [{"server", "mcp"} -> [Apis -> Statuses \cup {Missing}]]
    /\ file \in [Apis -> Statuses \cup {Missing}] /\ stale \subseteq Apis
    /\ scopes \in [Principals -> SUBSET Apps] /\ told \subseteq Kinds

(***************************************************************************)
(* What the export of the server shows of an application, the gateway of   *)
(* the server runs, under the path of the record unless another record of  *)
(* the same action is withheld, and the catalog and MCP show it too        *)
(* (openapi_export, gateway, catalog, mcp_tools each filter on their own). *)
(***************************************************************************)
ExportedIsRunnable ==
    \A p \in Principals : \A a \in Exported("server", p) : AppOf[a] # NoApp =>
        /\ MayRun("server", a)
        /\ a \in Listed("server", p)
        /\ Cardinality(Records("server", AppOf[a], ActionOf[a])) = 1
              => MayRunAction("server", AppOf[a], ActionOf[a])

(***************************************************************************)
(* A resource can be read exactly by those whose list has it.              *)
(***************************************************************************)
ReadIsListed ==
    \A x \in {"server", Mcp}, p \in Principals, a \in Apis : Readable(x, p, a) <=> a \in Listed(x, p)

(***************************************************************************)
(* The client of a session has the list that was last compared, or was     *)
(* told since that its list has changed, also when scopes changed, when it *)
(* asked for the other list, and when the request was for somebody else,   *)
(* who sees other records (_maybe_emit_list_changed).                      *)
(***************************************************************************)
ChangeIsTold ==
    \A k \in Kinds : known[k] \in {None, snapshot[k]} \/ k \in told

(***************************************************************************)
(* An action is not run when any record of it is withheld, whichever the   *)
(* other records of it say (find_api_for_action: the most restrictive).    *)
(***************************************************************************)
WithheldIsNotRun ==
    ran.record = "action" => ran.others \subseteq {"PARTIAL", "VERIFIED"}

(***************************************************************************)
(* The surfaces agree with one another, and a client hears of a change.    *)
(***************************************************************************)
SurfacesAgree == ExportedIsRunnable /\ ReadIsListed /\ ChangeIsTold /\ WithheldIsNotRun

=============================================================================
