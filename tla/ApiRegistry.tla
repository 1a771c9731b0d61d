---------------------------- MODULE ApiRegistry -----------------------------
(***************************************************************************)
(* The life of API records: the registry and its evidence gate             *)
(* (apps/api_registry/model.py), the handlers that change it               *)
(* (api/rest/apis.py, apps/api_registry/api_test.py, trust_sync.py), the   *)
(* execution gateway (gateway.py) and the reload at a start (store.py).    *)
(*                                                                         *)
(* Handlers run in worker threads.  A call on the registry is one step     *)
(* (it holds the registry lock); a handler that reads a record and writes  *)
(* it back later is interleaved with all others in between.  Persistence   *)
(* is taken as atomic here; RegistryStore opens it up.                     *)
(***************************************************************************)
EXTENDS Naturals, FiniteSets

CONSTANTS
    Apis,        \* natural keys of the records, all of one application
    Workers,     \* request threads
    MaxInFlight, \* bound: handlers between their read and their write
    MaxAge,      \* verification_max_age_sec
    MaxTime,     \* bound: the clock
    MaxTests,    \* bound: verification ids minted
    Handlers     \* the handlers that are called

ASSUME RegistryAssumption ==
    /\ MaxInFlight \in Nat
    /\ MaxAge \in Nat
    /\ MaxTime \in Nat \ {0}
    /\ MaxTests \in Nat
    /\ Handlers \subseteq {"create", "test", "verify", "publish", "disable", "demote", "restart"}

Statuses == {"VERIFIED", "PARTIAL", "RESTRICTED", "UNSUPPORTED", "ERROR", "DISABLED"}
Ids == 1..MaxTests
Times == 0..MaxTime
NoProof == [id |-> 0, at |-> 0]          \* verification_id and last_verified_at of None
Proofs == {NoProof} \cup [id : Ids, at : Times]

Absent == [status |-> "absent", proof |-> NoProof]
Record(status, proof) == [status |-> status, proof |-> proof]
Candidate == Record("PARTIAL", NoProof)

VARIABLES
    recs,    \* _by_id
    issued,  \* _ISSUED_VERIFICATION_IDS, the proof ledger of the process
    now,     \* time.time()
    op,      \* what each worker is doing, with the record it has read
    minted,  \* history: the passing tests, by verification id
    settled  \* history: records withdrawn while nobody was about to write them

vars == <<recs, issued, now, op, minted, settled>>

Idle == [doing |-> "idle", api |-> {}, seen |-> Absent, clock |-> 0, update |-> FALSE]
Ops == [doing : {"idle", "test", "invoked", "publish", "demote"}, api : SUBSET Apis,
        seen : [status : Statuses \cup {"absent"}, proof : Proofs],
        clock : Times, update : BOOLEAN]

Init ==
    /\ recs = [a \in Apis |-> Absent]
    /\ issued = {}
    /\ now = 1
    /\ op = [w \in Workers |-> Idle]
    /\ minted = {}
    /\ settled = {}

-----------------------------------------------------------------------------
(* The gate                                                                *)

\* Mutated form of Authoritative: the age is not looked at.
AuthoritativeForever(proof, clock, ledger) == proof.id \in ledger

\* Evidence that allows VERIFIED: in the ledger, not future and not stale.
Authoritative(proof, clock, ledger) ==
    /\ proof.id \in ledger
    /\ proof.at <= clock
    /\ clock - proof.at <= MaxAge

\* Mutated form of Authorized: demotion to a label that is no status.
AuthorizedOrGenerated(status, proof, clock, ledger) ==
    IF status = "VERIFIED" /\ ~Authoritative(proof, clock, ledger) THEN "GENERATED" ELSE status

\* authorize_verified_status
Authorized(status, proof, clock, ledger) ==
    IF status = "VERIFIED" /\ ~Authoritative(proof, clock, ledger) THEN "PARTIAL" ELSE status

\* What registry.register() stores.
Registered(status, proof, ledger) == Record(Authorized(status, proof, now, ledger), proof)

\* Mutated form of Blocks: only staleness counts.
BlocksStale(rec, clock) == Authorized(rec.status, rec.proof, clock, issued) # rec.status

\* _status_blocks_execution
Blocks(rec, clock) ==
    \/ rec.status \notin {"PARTIAL", "VERIFIED"}
    \/ Authorized(rec.status, rec.proof, clock, issued) # rec.status

-----------------------------------------------------------------------------
(* Handlers                                                                *)

Enter(w, h) ==
    /\ h \in Handlers
    /\ op[w] = Idle
    /\ Cardinality({v \in Workers : op[v] # Idle}) < MaxInFlight

Leave(w) == op' = [op EXCEPT ![w] = Idle]

\* POST /apis: a candidate without evidence, whatever was there.
Create(w, a) ==
    /\ Enter(w, "create")
    /\ recs' = [recs EXCEPT ![a] = Registered("PARTIAL", NoProof, issued)]
    /\ settled' = settled \ {a}
    /\ UNCHANGED <<issued, now, op, minted>>

\* The withdrawal of a record is settled unless a publish, or a test that has
\* passed the gateway, still holds a copy of it.
Settle(a) ==
    settled' = IF \A w \in Workers : a \in op[w].api => op[w].doing \in {"test", "demote"}
               THEN settled \cup {a} ELSE settled

\* POST /apis/{id}/disable: set_status keeps the evidence.
Disable(w, a) ==
    /\ Enter(w, "disable")
    /\ recs[a] # Absent
    /\ recs' = [recs EXCEPT ![a].status = "DISABLED"]
    /\ Settle(a)
    /\ UNCHANGED <<issued, now, op, minted>>

\* POST /apis/{id}/test: run_api_test reads the record and the clock,
TestStart(w, a, update) ==
    /\ Enter(w, IF update THEN "test" ELSE "verify")
    /\ recs[a] # Absent
    /\ op' = [op EXCEPT ![w] = [doing |-> "test", api |-> {a}, seen |-> recs[a],
                                clock |-> now, update |-> update]]
    /\ UNCHANGED <<recs, issued, now, minted, settled>>

\* the gateway looks at the record of the moment and lets the action run,
TestInvoke(w) ==
    /\ op[w].doing = "test"
    /\ \A a \in op[w].api : ~Blocks(recs[a], op[w].clock)
    /\ op' = [op EXCEPT ![w].doing = "invoked"]
    /\ UNCHANGED <<recs, issued, now, minted, settled>>

TestBlocked(w) ==
    /\ op[w].doing = "test"
    /\ \E a \in op[w].api : Blocks(recs[a], op[w].clock)
    /\ Leave(w)
    /\ UNCHANGED <<recs, issued, now, minted, settled>>

\* the adapter is absent, the action fails or its effect is not observed,
TestFail(w) ==
    /\ op[w].doing \in {"test", "invoked"}
    /\ Leave(w)
    /\ UNCHANGED <<recs, issued, now, minted, settled>>

\* A verification without update leaves the status it read, or PARTIAL.
TargetStatus(o) ==
    IF o.update \/ o.seen.status = "VERIFIED" THEN "VERIFIED" ELSE "PARTIAL"

\* Mutated form of NewProof: the time of an earlier test is kept.
NewProofOldTime(o, id) ==
    [id |-> id, at |-> IF o.seen.proof = NoProof THEN o.clock ELSE o.seen.proof.at]

NewProof(o, id) == [id |-> id, at |-> o.clock]

\* or the effect is observed: a new id goes to the ledger and the record
\* read at the start is written back with it.
TestPass(w) ==
    LET o == op[w]
        id == Cardinality(minted) + 1
    IN
    /\ o.doing = "invoked"
    /\ id \in Ids
    /\ issued' = issued \cup {id}
    /\ minted' = minted \cup {[id |-> id, api |-> o.api, at |-> o.clock]}
    /\ \E a \in o.api :
          recs' = [recs EXCEPT ![a] = Registered(TargetStatus(o), NewProof(o, id), issued')]
    /\ Leave(w)
    /\ UNCHANGED <<now, settled>>

\* POST /apis/{id}/publish: every refusal leaves the registry alone, so only
\* a record that passes the checks is read for good ...
PublishStart(w, a) ==
    /\ Enter(w, "publish")
    /\ recs[a] # Absent
    /\ recs[a].status # "DISABLED"
    /\ Authoritative(recs[a].proof, now, issued)
    /\ op' = [op EXCEPT ![w] = [Idle EXCEPT !.doing = "publish", !.api = {a}, !.seen = recs[a]]]
    /\ UNCHANGED <<recs, issued, now, minted, settled>>

\* ... and written back as VERIFIED.
PublishWrite(w) ==
    /\ op[w].doing = "publish"
    /\ \E a \in op[w].api :
          recs' = [recs EXCEPT ![a] = Registered("VERIFIED", op[w].seen.proof, issued)]
    /\ Leave(w)
    /\ UNCHANGED <<issued, now, minted, settled>>

\* demote_verified_apis_for_app: the records listed as VERIFIED ...
DemoteStart(w) ==
    /\ Enter(w, "demote")
    /\ \E a \in Apis : recs[a].status = "VERIFIED"
    /\ op' = [op EXCEPT ![w] = [Idle EXCEPT !.doing = "demote",
                                  !.api = {a \in Apis : recs[a].status = "VERIFIED"}]]
    /\ UNCHANGED <<recs, issued, now, minted, settled>>

\* ... become DISABLED one after the other, without evidence.
DemoteOne(w) ==
    /\ op[w].doing = "demote"
    /\ \E a \in op[w].api :
          LET rest == op[w].api \ {a} IN
          /\ recs' = [recs EXCEPT ![a] = Registered("DISABLED", NoProof, issued)]
          /\ op' = [op EXCEPT ![w] = IF rest = {} THEN Idle ELSE [@ EXCEPT !.api = rest]]
          /\ Settle(a)
    /\ UNCHANGED <<issued, now, minted>>

Tick ==
    /\ now < MaxTime
    /\ now' = now + 1
    /\ UNCHANGED <<recs, issued, op, minted, settled>>

\* The ids found in the store go back to the ledger.
Reissued == {recs[a].proof.id : a \in Apis} \ {0}

(* The process stops and starts: load_registry registers every stored      *)
(* record again, so a stale VERIFIED comes back PARTIAL.                   *)
Restart ==
    /\ "restart" \in Handlers
    /\ issued' = Reissued
    /\ recs' = [a \in Apis |->
                  IF recs[a] = Absent THEN Absent
                  ELSE Registered(recs[a].status, recs[a].proof, issued')]
    /\ op' = [w \in Workers |-> Idle]
    /\ UNCHANGED <<now, minted, settled>>

Proceed(w) == TestInvoke(w) \/ TestBlocked(w) \/ TestPass(w) \/ PublishWrite(w) \/ DemoteOne(w)

Next ==
    \/ Tick
    \/ Restart
    \/ \E w \in Workers :
          \/ Proceed(w) \/ TestFail(w) \/ DemoteStart(w)
          \/ \E a \in Apis :
                \/ Create(w, a) \/ Disable(w, a) \/ PublishStart(w, a)
                \/ \E update \in BOOLEAN : TestStart(w, a, update)

Spec == Init /\ [][Next]_vars

-----------------------------------------------------------------------------
(* Properties                                                              *)

TypeOK ==
    /\ recs \in [Apis -> [status : Statuses \cup {"absent"}, proof : Proofs]]
    /\ issued \subseteq Ids
    /\ now \in Times
    /\ op \in [Workers -> Ops]
    /\ settled \subseteq Apis
    /\ minted \subseteq [id : Ids, api : SUBSET Apis, at : Times]

(* Evidence is never invented, moved or refreshed: what a record carries is *)
(* the id and time of a passed test of that very API, and the ledger knows *)
(* it, also after a restart (model.py:14-20, store.py:238-246).            *)
EvidenceIsGenuine ==
    \A a \in Apis : LET p == recs[a].proof IN
        p # NoProof => p.id \in issued /\ [id |-> p.id, api |-> {a}, at |-> p.at] \in minted

(* GENERATED is not VERIFIED: a record becomes VERIFIED only on a passed    *)
(* test of its own that is fresh at that moment, whichever handler writes  *)
(* and whatever has happened since it read (model.py:14-16, 265-305).      *)
VerifiedIsEarned ==
    [][\A a \in Apis :
          recs'[a].status = "VERIFIED" /\ recs'[a] # recs[a] =>
              \E m \in minted' : /\ m.api = {a} /\ m.id = recs'[a].proof.id
                                 /\ m.at <= now /\ now - m.at <= MaxAge]_vars

(* A record withdrawn by the operator or by a demotion, with no publish and *)
(* no admitted test of it under way, stays DISABLED until it is created    *)
(* anew: no handler that begins later gets it out, because the gateway and *)
(* the publish route look at the record again (apis.py:13-15, 502-512,     *)
(* gateway.py:194-203).                                                    *)
WithdrawalSticks == \A a \in settled : recs[a].status = "DISABLED"

=============================================================================
