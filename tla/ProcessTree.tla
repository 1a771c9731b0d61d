---------------------------- MODULE ProcessTree -----------------------------
(***************************************************************************)
(* Starting, terminating and restarting processes (os/processes) over the  *)
(* Linux backend with psutil, while processes fork, exit and get the       *)
(* numbers of others.  A process is known by its birth (create_time); its  *)
(* number is only what the calls name it by.  All run the same program, so *)
(* that a name tells nothing apart.  The gate (a read of the system    *)
(* and of the registry), the listing of a tree, a spawn, a kill and a      *)
(* record are one step each.                                               *)
(***************************************************************************)
EXTENDS Naturals, FiniteSets

CONSTANTS
    Callers,    \* threads of the server
    Pids,       \* process numbers in use
    MayRecycle, \* whether a number may change hands while a call uses it
    Foreign,    \* births of the processes that run as another user
    MaxBirths,  \* bound: processes ever born
    MaxCalls    \* bound: calls of the API

InitProcess == "init"  \* the parent of all that have lost theirs
Unknown == 0   \* a record whose create_time could not be read
AnyOne == 0    \* an expectation by name

VARIABLES
    procs,    \* pid -> the process that has the number
    reg,      \* ProcessRegistry: pid -> births, empty without a record
    call,     \* what each caller is doing
    births,   \* processes born so far
    launched, \* history: births of the processes the API started
    wrong,    \* history: a process was killed that nobody meant
    called

ptVars == <<procs, reg, call, births, launched, wrong, called>>

NoProcess == [born |-> 0, parent |-> "none", up |-> FALSE, held |-> FALSE]
Quiet == [at |-> "idle", kind |-> "none", pid |-> "none", expect |-> {}, todo |-> {},
          snap |-> {}, meant |-> {}, ok |-> FALSE, code |-> "none"]
At(t, place) == call[t].at = place
Free == {p \in Pids : procs[p] = NoProcess}
Alive(p) == procs[p].up

Init ==
    /\ procs = [p \in Pids |-> NoProcess]
    /\ reg = [p \in Pids |-> {}]
    /\ call = [t \in Callers |-> Quiet]
    /\ births = 0 /\ launched = {} /\ wrong = FALSE /\ called = 0

-----------------------------------------------------------------------------
(* The system: births, forks, exits                                        *)

\* A new process takes a free number, maybe one that another call uses.
Uses(t) == IF At(t, "idle") THEN {} ELSE {call[t].pid} \cup call[t].snap
Born(p, parent, held, others) ==
    /\ births < MaxBirths /\ births' = births + 1
    /\ procs' = [procs EXCEPT ![p] = [born |-> births', parent |-> parent, up |-> TRUE,
                                      held |-> held]]
    /\ MayRecycle \/ \A t \in others : p \notin Uses(t)

\* A process forks, also one that a teardown has listed already.
Fork(p, q) ==
    /\ p = InitProcess \/ (p \in Pids /\ Alive(p))
    /\ q \in Free
    /\ Born(q, p, FALSE, Callers)
    /\ UNCHANGED <<reg, call, launched, wrong, called>>

\* The children of a process that ends go to init.  A number is free when the
\* parent has waited for it; the API waits for its own only at a termination.
Dead(p, freed) ==
    [q \in Pids |->
        IF q = p THEN IF freed THEN NoProcess ELSE [procs[p] EXCEPT !.up = FALSE]
        ELSE IF procs[q].parent = p /\ procs[p].up THEN [procs[q] EXCEPT !.parent = InitProcess]
        ELSE procs[q]]

Exit(p) ==
    /\ procs[p] # NoProcess
    /\ Alive(p) \/ ~procs[p].held
    /\ procs' = Dead(p, ~procs[p].held)
    /\ UNCHANGED <<reg, call, births, launched, wrong, called>>

\* Processes below p, as psutil sees them.
Below(p) ==
    LET One(S) == S \cup {q \in Pids : procs[q].parent \in S}
    IN One(One(One({p}))) \ {p}

-----------------------------------------------------------------------------
(* start_process                                                           *)

Begin(t, c) ==
    /\ At(t, "idle") /\ called < MaxCalls
    /\ called' = called + 1
    /\ call' = [call EXCEPT ![t] = c]

Spawn(t, c, p) ==
    /\ p \in Free
    /\ Born(p, InitProcess, TRUE, Callers \ {t})
    /\ launched' = launched \cup {births'}
    /\ call' = [call EXCEPT ![t] = [c EXCEPT !.at = "record", !.pid = p]]

Start(t, p) ==
    /\ At(t, "idle") /\ called < MaxCalls /\ called' = called + 1
    /\ Spawn(t, [Quiet EXCEPT !.kind = "start"], p)
    /\ UNCHANGED <<reg, wrong>>
Relaunch(t, p) ==
    /\ At(t, "spawn")
    /\ Spawn(t, call[t], p)
    /\ UNCHANGED <<reg, wrong, called>>

Identity(p) == {procs[p].born}

\* What is recorded is read from the system after the spawn.
Record(t) ==
    LET p == call[t].pid IN
    /\ At(t, "record")
    /\ reg' = [reg EXCEPT ![p] = Identity(p)]
    /\ call' = [call EXCEPT ![t].at = "answer", ![t].ok = TRUE]
    /\ UNCHANGED <<procs, births, launched, wrong, called>>

-----------------------------------------------------------------------------
(* terminate_process and restart_process                                   *)

\* Without an expectation, with a create_time the caller has seen, or a name.
\* (A number that nothing ever had is NOT_FOUND.)
Terminate(t, p, expect) ==
    /\ procs[p] # NoProcess \/ reg[p] # {}
    /\ Begin(t, [Quiet EXCEPT !.at = "decide", !.kind = "terminate", !.pid = p, !.expect = expect])
    /\ UNCHANGED <<procs, reg, births, launched, wrong>>

Restart(t, p) ==
    /\ reg[p] # {}
    /\ Begin(t, [Quiet EXCEPT !.at = "decide", !.kind = "restart", !.pid = p])
    /\ UNCHANGED <<procs, reg, births, launched, wrong>>

\* Mutated form of SameProcess: the number is enough.
SameNumber(record, obs) == TRUE

\* same_process; without a create_time the program decides, and it is the same.
SameProcess(record, obs) == record \in {Unknown, obs}

Expected(expect, obs) == AnyOne \in expect \/ obs \in expect

\* A restart goes on after a teardown that failed with another code than these.
Blocking == {"IDENTITY_MISMATCH", "IDENTITY_REQUIRED", "PROTECTED", "RESIDUAL_CHILDREN"}
Ends(t, code, ok) ==
    call' = [call EXCEPT ![t].code = code, ![t].ok = ok,
                         ![t].at = IF call[t].kind = "restart" /\ (ok \/ code \notin Blocking)
                                   THEN "spawn" ELSE "answer"]
\* Mutated form of Forget: the record is replaced by what has the number now.
ForgetRefresh(p) == reg' = [reg EXCEPT ![p] = {procs[p].born}]

Forget(p) == reg' = [reg EXCEPT ![p] = {}]

\* The gate: the process recorded, or the one expected and of the same user.
\* Who is meant is the process recorded or expected, not the one found.
Goes(t, meant) ==
    call' = [call EXCEPT ![t].at = "snapshot",
                         ![t].meant = {<<call[t].pid, b>> : b \in meant}]

Decide(t) ==
    LET c == call[t]
        p == c.pid
        obs == procs[p].born
    IN
    /\ At(t, "decide")
    /\ \/ \E b \in reg[p] :
            \/ obs = 0 /\ Forget(p) /\ Ends(t, "NOT_FOUND", FALSE)
            \/ obs # 0 /\ ~SameProcess(b, obs) /\ Forget(p) /\ Ends(t, "IDENTITY_MISMATCH", FALSE)
            \/ obs # 0 /\ SameProcess(b, obs) /\ UNCHANGED reg /\ Goes(t, {b, IF b = Unknown THEN obs ELSE b})
       \/ /\ reg[p] = {}
          /\ UNCHANGED reg
          /\ \/ obs = 0 /\ Ends(t, "NOT_FOUND", FALSE)
             \/ obs # 0 /\ c.expect = {} /\ ~Expected(c.expect, obs) /\ Ends(t, "IDENTITY_REQUIRED", FALSE)
             \/ obs # 0 /\ c.expect # {} /\ ~Expected(c.expect, obs) /\ Ends(t, "IDENTITY_MISMATCH", FALSE)
             \/ obs # 0 /\ Expected(c.expect, obs) /\ procs[p].born \in Foreign /\ Ends(t, "PROTECTED", FALSE)
             \/ /\ obs # 0 /\ Expected(c.expect, obs) /\ procs[p].born \notin Foreign
                /\ Goes(t, IF AnyOne \in c.expect THEN {obs} ELSE c.expect)
    /\ UNCHANGED <<procs, births, launched, wrong, called>>

\* Mutated form of Descendants: only the direct children.
Children(p) == {q \in Pids : procs[q].parent = p}

\* descendant_pids, before anything is killed.
Descendants(p) == Below(p)

Snapshot(t) ==
    LET p == call[t].pid
        ds == Descendants(p)
    IN
    /\ At(t, "snapshot")
    /\ call' = [call EXCEPT ![t].at = "kill", ![t].snap = ds, ![t].todo = ds, 
                            ![t].meant = @ \cup {<<q, procs[q].born>> : q \in Below(p)}]
    /\ UNCHANGED <<procs, reg, births, launched, wrong, called>>

\* backend.terminate_process: gone already, killed and waited for, or refused
\* by the system.
Kill(t, p, fails) ==
    /\ wrong' = (wrong \/ (Alive(p) /\ <<p, procs[p].born>> \notin call[t].meant))
    /\ \/ procs[p] = NoProcess /\ ~fails /\ UNCHANGED procs
       \/ procs[p].born \in Foreign /\ fails /\ procs' = [procs EXCEPT ![p].held = FALSE]
       \/ procs[p] # NoProcess /\ procs[p].born \notin Foreign /\ ~fails /\ procs' = Dead(p, TRUE)

\* From the leaves up.
KillChild(t, q, fails) ==
    /\ At(t, "kill") /\ q \in call[t].todo
    /\ Below(q) \cap call[t].todo = {}
    /\ Kill(t, q, fails)
    /\ IF fails THEN UNCHANGED reg ELSE Forget(q)
    /\ call' = [call EXCEPT ![t].todo = @ \ {q}]
    /\ UNCHANGED <<births, launched, called>>

KillRoot(t, fails) ==
    /\ At(t, "kill") /\ call[t].todo = {}
    /\ Kill(t, call[t].pid, fails)
    /\ call' = [call EXCEPT ![t].at = "residual", ![t].ok = ~fails]
    /\ UNCHANGED <<reg, births, launched, called>>

\* residual_alive looks at the numbers of the snapshot.
ResidualAlive(t) == {q \in call[t].snap : Alive(q)}

Residual(t) ==
    LET c == call[t] IN
    /\ At(t, "residual")
    /\ \/ /\ ResidualAlive(t) # {}
          /\ Ends(t, "RESIDUAL_CHILDREN", FALSE)
          /\ IF procs[c.pid] = NoProcess THEN Forget(c.pid) ELSE UNCHANGED reg
       \/ /\ ResidualAlive(t) = {}
          /\ Ends(t, "none", c.ok)
          /\ IF c.ok THEN Forget(c.pid) ELSE UNCHANGED reg
    /\ UNCHANGED <<procs, births, launched, wrong, called>>

Answer(t) ==
    /\ At(t, "answer")
    /\ call' = [call EXCEPT ![t] = Quiet]
    /\ UNCHANGED <<procs, reg, births, launched, wrong, called>>

Next ==
    \/ \E t \in Callers :
        \/ \E p \in Pids : Start(t, p) \/ Relaunch(t, p)
        \/ Record(t)
        \/ \E p \in Pids, e \in {{}} \cup {{b} : b \in AnyOne..births} : Terminate(t, p, e)
        \/ \E p \in Pids : Restart(t, p)
        \/ Decide(t) \/ Snapshot(t) \/ Residual(t) \/ Answer(t)
        \/ \E q \in Pids, fails \in BOOLEAN : KillChild(t, q, fails)
        \/ \E fails \in BOOLEAN : KillRoot(t, fails)
    \/ \E p \in Pids \cup {InitProcess}, q \in Pids : Fork(p, q)
    \/ \E p \in Pids : Exit(p)

Spec == Init /\ [][Next]_ptVars

-----------------------------------------------------------------------------
(* Properties                                                              *)

TypeOK ==
    /\ \A p \in Pids : /\ procs[p].born \in 0..births /\ procs[p].parent \in Pids \cup {"none", InitProcess}
                       /\ reg[p] \subseteq 0..births /\ Cardinality(reg[p]) <= 1
    /\ \A t \in Callers : call[t].todo \subseteq call[t].snap /\ call[t].snap \subseteq Pids
    /\ launched \subseteq 1..births

(***************************************************************************)
(* Only the process that was recorded or expected is killed, and what was  *)
(* below it, also when numbers are given to other processes between two    *)
(* calls (identity.py).  With MayRecycle it fails: the numbers in the      *)
(* snapshot are killed without another look.                               *)
(***************************************************************************)
KillsAreIdentified == ~wrong

(***************************************************************************)
(* A termination that answers ok has left nothing alive of the tree it     *)
(* found, unless the tree grew meanwhile (tree.residual_alive).            *)
(***************************************************************************)
TeardownIsComplete ==
    \A t \in Callers : At(t, "answer") /\ call[t].kind = "terminate" /\ call[t].ok =>
        \A m \in call[t].meant : ~(Alive(m[1]) /\ procs[m[1]].born = m[2])

(***************************************************************************)
(* The registry knows only processes that the API started, or none in      *)
(* particular when one was killed between its spawn and its record         *)
(* (start_process reads the identity after the spawn).                     *)
(***************************************************************************)
RecordsAreOwn == \A p \in Pids : reg[p] \subseteq launched \cup {Unknown}

(***************************************************************************)
(* A teardown kills what was meant, all of it, and nothing else is taken   *)
(* for a process this server started.                                      *)
(***************************************************************************)
TeardownsAreSound == KillsAreIdentified /\ TeardownIsComplete /\ RecordsAreOwn

=============================================================================
