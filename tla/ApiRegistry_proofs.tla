------------------------ MODULE ApiRegistry_proofs -------------------------
(* Theorems about ApiRegistry, for every value of its constants.            *)
EXTENDS ApiRegistry, TLAPS

-----------------------------------------------------------------------------
(* Types                                                                   *)

(* The gate returns the status asked for, or PARTIAL for a VERIFIED that is *)
(* not backed (authorize_verified_status).                                 *)
LEMMA AuthorizedProperties ==
  ASSUME NEW status, NEW proof, NEW clock, NEW ledger
  PROVE  /\ Authorized(status, proof, clock, ledger) \in {status, "PARTIAL"}
         /\ Authorized(status, proof, clock, ledger) = "VERIFIED"
               => Authoritative(proof, clock, ledger)
BY DEF Authorized

(* What register() stores is a record with the evidence it was given.       *)
LEMMA RegisteredProperties ==
  ASSUME NEW status \in Statuses, NEW proof \in Proofs, NEW ledger
  PROVE  /\ Registered(status, proof, ledger) \in [status : Statuses, proof : Proofs]
         /\ Registered(status, proof, ledger).proof = proof
         /\ Registered(status, proof, ledger).status = "VERIFIED"
               => Authoritative(proof, now, ledger)
BY AuthorizedProperties DEF Registered, Record, Statuses

LEMMA IdleType == Idle \in Ops
BY RegistryAssumption DEF Idle, Ops, Absent, Times, Proofs

LEMMA TypeInit == Init => TypeOK
BY IdleType, RegistryAssumption DEF Init, TypeOK, Absent, Times, Proofs

LEMMA TypeStep == TypeOK /\ [Next]_vars => TypeOK'
<1> SUFFICES ASSUME TypeOK, [Next]_vars
             PROVE  TypeOK'
  OBVIOUS
<1> USE DEF TypeOK
<1>1. CASE Tick
  BY <1>1, RegistryAssumption DEF Tick, Times
<1>2. CASE Restart
  <2>1. issued' \in SUBSET Ids
    BY <1>2 DEF Restart, Reissued, Proofs, NoProof
  <2>2. \A a \in Apis : recs'[a] \in [status : Statuses \cup {"absent"}, proof : Proofs]
    <3> TAKE a \in Apis
    <3>1. CASE recs[a] = Absent
      BY <1>2, <3>1 DEF Restart
    <3>2. CASE recs[a] # Absent
      <4>1. recs'[a] = Registered(recs[a].status, recs[a].proof, issued')
        BY <1>2, <3>2 DEF Restart
      <4>2. Registered(recs[a].status, recs[a].proof, issued').status
               \in {recs[a].status, "PARTIAL"}
        BY AuthorizedProperties DEF Registered, Record
      <4> QED
        BY <4>1, <4>2 DEF Registered, Record, Statuses
    <3> QED
      BY <3>1, <3>2
  <2> QED
    BY <1>2, <2>1, <2>2, IdleType DEF Restart
<1>3. ASSUME NEW w \in Workers, Proceed(w) \/ TestFail(w) \/ DemoteStart(w)
      PROVE  TypeOK'
  <2>1. CASE TestInvoke(w)
    <3>1. op[w] \in Ops
      BY DEF TypeOK
    <3>2. [op[w] EXCEPT !.doing = "invoked"] \in Ops
      BY <3>1 DEF Ops
    <3>3. op' = [op EXCEPT ![w] = [op[w] EXCEPT !.doing = "invoked"]]
      BY <2>1 DEF TestInvoke
    <3> QED
      BY <2>1, <3>2, <3>3 DEF TestInvoke, TypeOK
  <2>2. CASE TestBlocked(w)
    BY <2>2, IdleType DEF TestBlocked, Leave
  <2>3. CASE TestFail(w)
    BY <2>3, IdleType DEF TestFail, Leave
  <2>4. CASE TestPass(w)
    <3> DEFINE o == op[w]
               id == Cardinality(minted) + 1
    <3>1. /\ o \in Ops
          /\ id \in Ids
          /\ issued' = issued \cup {id}
          /\ minted' = minted \cup {[id |-> id, api |-> o.api, at |-> o.clock]}
          /\ op' = [op EXCEPT ![w] = Idle]
          /\ now' = now
      BY <2>4 DEF TestPass, Leave
    <3>2. PICK a \in o.api :
            recs' = [recs EXCEPT ![a] = Registered(TargetStatus(o), NewProof(o, id), issued')]
      BY <2>4 DEF TestPass
    <3> HIDE DEF o, id
    <3>3. TargetStatus(o) \in Statuses /\ NewProof(o, id) \in Proofs
      BY <3>1 DEF TargetStatus, NewProof, Statuses, Proofs, Ops
    <3>4. Registered(TargetStatus(o), NewProof(o, id), issued')
             \in [status : Statuses, proof : Proofs]
      BY <3>3, RegisteredProperties
    <3>5. recs' \in [Apis -> [status : Statuses \cup {"absent"}, proof : Proofs]]
      BY <3>2, <3>4
    <3> QED
      BY <2>4, <3>1, <3>5, IdleType DEF TestPass, Ops
  <2>5. CASE PublishWrite(w)
    <3>1. PICK a \in op[w].api :
            recs' = [recs EXCEPT ![a] = Registered("VERIFIED", op[w].seen.proof, issued)]
      BY <2>5 DEF PublishWrite
    <3>2. Registered("VERIFIED", op[w].seen.proof, issued) \in [status : Statuses, proof : Proofs]
      BY RegisteredProperties DEF Ops, Statuses
    <3>3. recs' \in [Apis -> [status : Statuses \cup {"absent"}, proof : Proofs]]
      BY <3>1, <3>2
    <3> QED
      BY <2>5, <3>3, IdleType DEF PublishWrite, Leave
  <2>6. CASE DemoteOne(w)
    <3>1. PICK a \in op[w].api :
            /\ recs' = [recs EXCEPT ![a] = Registered("DISABLED", NoProof, issued)]
            /\ op' = [op EXCEPT ![w] = IF op[w].api \ {a} = {} THEN Idle
                                       ELSE [@ EXCEPT !.api = op[w].api \ {a}]]
      BY <2>6 DEF DemoteOne
    <3>2. Registered("DISABLED", NoProof, issued) \in [status : Statuses, proof : Proofs]
      BY RegisteredProperties DEF Proofs, Statuses
    <3>3. recs' \in [Apis -> [status : Statuses \cup {"absent"}, proof : Proofs]]
      BY <3>1, <3>2
    <3>4. op' \in [Workers -> Ops]
      BY <3>1, IdleType DEF Ops
    <3>5. settled' \subseteq Apis
      BY <2>6, <3>1 DEF DemoteOne, Settle, Ops
    <3> QED
      BY <2>6, <3>3, <3>4, <3>5 DEF DemoteOne
  <2>7. CASE DemoteStart(w)
    <3>1. [Idle EXCEPT !.doing = "demote",
                       !.api = {a \in Apis : recs[a].status = "VERIFIED"}] \in Ops
      BY IdleType DEF Idle, Ops
    <3> QED
      BY <2>7, <3>1 DEF DemoteStart
  <2> QED
    BY <1>3, <2>1, <2>2, <2>3, <2>4, <2>5, <2>6, <2>7 DEF Proceed
<1>4. ASSUME NEW w \in Workers, NEW a \in Apis,
             Create(w, a) \/ Disable(w, a) \/ PublishStart(w, a)
      PROVE  TypeOK'
  <2>1. CASE Create(w, a)
    <3>1. Registered("PARTIAL", NoProof, issued) \in [status : Statuses, proof : Proofs]
      BY RegisteredProperties DEF Proofs, Statuses
    <3> QED
      BY <2>1, <3>1 DEF Create
  <2>2. CASE Disable(w, a)
    BY <2>2 DEF Disable, Settle, Statuses
  <2>3. CASE PublishStart(w, a)
    <3>1. [Idle EXCEPT !.doing = "publish", !.api = {a}, !.seen = recs[a]] \in Ops
      BY IdleType DEF Idle, Ops
    <3> QED
      BY <2>3, <3>1 DEF PublishStart
  <2> QED
    BY <1>4, <2>1, <2>2, <2>3
<1>5. ASSUME NEW w \in Workers, NEW a \in Apis, NEW update \in BOOLEAN, TestStart(w, a, update)
      PROVE  TypeOK'
  BY <1>5 DEF TestStart, Ops
<1>6. CASE UNCHANGED vars
  BY <1>6 DEF vars
<1> QED
  BY <1>1, <1>2, <1>3, <1>4, <1>5, <1>6 DEF Next

(* Every variable keeps its type: the registry never holds a status or an   *)
(* evidence that the model does not know.                                  *)
THEOREM RegistryTypeCorrect == Spec => []TypeOK
BY TypeInit, TypeStep, PTL DEF Spec

-----------------------------------------------------------------------------
(* Evidence                                                                *)

\* Evidence p of record a: on the ledger, and minted by a test of a.
Genuine(a, p) ==
    p # NoProof => p.id \in issued /\ [id |-> p.id, api |-> {a}, at |-> p.at] \in minted

(* EvidenceIsGenuine is not inductive by itself: a publish writes back the  *)
(* evidence it has read, and a test mints evidence for the one record it   *)
(* works on, so both must be known to hold it for that record.             *)
EvidenceInv ==
    /\ TypeOK
    /\ \A a \in Apis : Genuine(a, recs[a].proof)
    /\ \A w \in Workers :
          /\ op[w].doing \in {"test", "invoked"} => \E a \in Apis : op[w].api = {a}
          /\ op[w].doing = "publish" =>
                \E a \in Apis : op[w].api = {a} /\ Genuine(a, op[w].seen.proof)

\* What a step that mints nothing and forgets nothing keeps.
LEMMA GenuineKept ==
  ASSUME NEW a, NEW p, Genuine(a, p), issued \subseteq issued', minted \subseteq minted'
  PROVE  Genuine(a, p)'
BY DEF Genuine

\* What worker w may hold after a step.
Sound(w) ==
    \/ op[w].doing \in {"idle", "demote"}
    \/ op[w].doing \in {"test", "invoked"} /\ \E a \in Apis : op[w].api = {a}
    \/ op[w].doing = "publish" /\ \E a \in Apis : op[w].api = {a} /\ Genuine(a, op[w].seen.proof)

(* A step that forgets nothing keeps the invariant if the records and the   *)
(* workers it changes are sound.                                           *)
LEMMA EvidenceKept ==
  ASSUME EvidenceInv, TypeOK', issued \subseteq issued', minted \subseteq minted',
         \A a \in Apis : recs'[a].proof = recs[a].proof \/ Genuine(a, recs[a].proof)',
         \A w \in Workers : op'[w] = op[w] \/ Sound(w)'
  PROVE  EvidenceInv'
<1>1. \A a \in Apis : Genuine(a, recs[a].proof)'
  BY DEF EvidenceInv, Genuine
<1>2. ASSUME NEW w \in Workers, op'[w] = op[w]
      PROVE  /\ op'[w].doing \in {"test", "invoked"} => \E a \in Apis : op'[w].api = {a}
             /\ op'[w].doing = "publish" =>
                   \E a \in Apis : op'[w].api = {a} /\ Genuine(a, op[w].seen.proof)'
  BY <1>2 DEF EvidenceInv, Genuine
<1>3. ASSUME NEW w \in Workers, Sound(w)'
      PROVE  /\ op'[w].doing \in {"test", "invoked"} => \E a \in Apis : op'[w].api = {a}
             /\ op'[w].doing = "publish" =>
                   \E a \in Apis : op'[w].api = {a} /\ Genuine(a, op[w].seen.proof)'
  BY <1>3 DEF Sound
<1> QED
  BY <1>1, <1>2, <1>3 DEF EvidenceInv

LEMMA EvidenceInit == Init => EvidenceInv
BY TypeInit DEF Init, EvidenceInv, Genuine, Absent, Idle

LEMMA EvidenceNext == EvidenceInv /\ [Next]_vars => EvidenceInv'
<1> SUFFICES ASSUME EvidenceInv, [Next]_vars
             PROVE  EvidenceInv'
  OBVIOUS
<1>0. TypeOK /\ TypeOK'
  BY TypeStep DEF EvidenceInv
<1>1. CASE Tick
  BY <1>0, <1>1, EvidenceKept DEF Tick
<1>2. CASE Restart
  <2>1. ASSUME NEW a \in Apis
        PROVE  recs'[a].proof = recs[a].proof
    BY <1>2 DEF Restart, Registered, Record
  <2>2. ASSUME NEW a \in Apis, recs[a].proof # NoProof
        PROVE  recs[a].proof.id \in issued'
    BY <1>0, <1>2, <2>2 DEF Restart, Reissued, TypeOK, Proofs, Ids
  <2>3. \A a \in Apis : Genuine(a, recs[a].proof)'
    BY <1>2, <2>1, <2>2 DEF Restart, EvidenceInv, Genuine
  <2>4. \A w \in Workers : op'[w].doing = "idle"
    BY <1>2 DEF Restart, Idle
  <2> QED
    BY <1>0, <2>3, <2>4 DEF EvidenceInv
<1>3. ASSUME NEW w \in Workers, Proceed(w) \/ TestFail(w) \/ DemoteStart(w)
      PROVE  EvidenceInv'
  <2>1. CASE TestInvoke(w)
    <3>1. Sound(w)'
      BY <1>0, <2>1 DEF TestInvoke, Sound, EvidenceInv, TypeOK
    <3> QED
      BY <1>0, <2>1, <3>1, EvidenceKept DEF TestInvoke, TypeOK
  <2>2. CASE TestBlocked(w) \/ TestFail(w)
    <3>1. Sound(w)'
      BY <1>0, <2>2 DEF TestBlocked, TestFail, Leave, Sound, TypeOK, Idle
    <3> QED
      BY <1>0, <2>2, <3>1, EvidenceKept DEF TestBlocked, TestFail, Leave, TypeOK
  <2>3. CASE TestPass(w)
    <3> DEFINE o == op[w]
               id == Cardinality(minted) + 1
    <3>1. /\ o.doing = "invoked"
          /\ issued' = issued \cup {id}
          /\ minted' = minted \cup {[id |-> id, api |-> o.api, at |-> o.clock]}
          /\ op' = [op EXCEPT ![w] = Idle]
      BY <2>3 DEF TestPass, Leave
    <3>2. PICK a \in o.api :
            recs' = [recs EXCEPT ![a] = Registered(TargetStatus(o), NewProof(o, id), issued')]
      BY <2>3 DEF TestPass
    <3>3. o.api = {a} /\ a \in Apis
      BY <3>1, <3>2 DEF EvidenceInv
    <3> HIDE DEF o, id
    <3>4. recs'[a].proof = [id |-> id, at |-> o.clock]
      BY <1>0, <3>2, <3>3 DEF TypeOK, Registered, Record, NewProof
    <3>5. Genuine(a, recs[a].proof)'
      BY <3>1, <3>3, <3>4 DEF Genuine
    <3>6. \A b \in Apis \ {a} : recs'[b] = recs[b]
      BY <1>0, <3>2, <3>3 DEF TypeOK
    <3>7. \A v \in Workers : op'[v] = op[v] \/ Sound(v)'
      BY <1>0, <3>1 DEF TypeOK, Sound, Idle
    <3> QED
      BY <1>0, <3>1, <3>5, <3>6, <3>7, EvidenceKept
  <2>4. CASE PublishWrite(w)
    <3>1. PICK a \in Apis : op[w].api = {a} /\ Genuine(a, op[w].seen.proof)
      BY <2>4 DEF PublishWrite, EvidenceInv
    <3>2. /\ recs' = [recs EXCEPT ![a] = Registered("VERIFIED", op[w].seen.proof, issued)]
          /\ op' = [op EXCEPT ![w] = Idle]
          /\ issued' = issued /\ minted' = minted
      BY <2>4, <3>1 DEF PublishWrite, Leave
    <3>3. recs'[a].proof = op[w].seen.proof
      BY <1>0, <3>2 DEF TypeOK, Registered, Record
    <3>4. Genuine(a, recs[a].proof)'
      BY <3>1, <3>2, <3>3, SMTT(30) DEF Genuine
    <3>5. \A b \in Apis \ {a} : recs'[b] = recs[b]
      BY <1>0, <3>2 DEF TypeOK
    <3>6. \A v \in Workers : op'[v] = op[v] \/ Sound(v)'
      BY <1>0, <3>2 DEF TypeOK, Sound, Idle
    <3> QED
      BY <1>0, <3>2, <3>4, <3>5, <3>6, EvidenceKept
  <2>5. CASE DemoteOne(w)
    <3>1. PICK a \in op[w].api :
            /\ recs' = [recs EXCEPT ![a] = Registered("DISABLED", NoProof, issued)]
            /\ op' = [op EXCEPT ![w] = IF op[w].api \ {a} = {} THEN Idle
                                       ELSE [@ EXCEPT !.api = op[w].api \ {a}]]
      BY <2>5 DEF DemoteOne
    <3>2. a \in Apis
      BY <1>0, <3>1 DEF TypeOK, Ops
    <3>3. recs'[a].proof = NoProof
      BY <1>0, <3>1, <3>2 DEF TypeOK, Registered, Record
    <3>4. \A b \in Apis : recs'[b].proof = recs[b].proof \/ Genuine(b, recs[b].proof)'
      BY <1>0, <3>1, <3>2, <3>3 DEF TypeOK, Genuine
    <3>5. op'[w].doing \in {"idle", "demote"}
      BY <1>0, <2>5, <3>1 DEF TypeOK, Ops, Idle, DemoteOne
    <3>6. \A v \in Workers : op'[v] = op[v] \/ Sound(v)'
      BY <1>0, <3>1, <3>5 DEF TypeOK, Sound
    <3> QED
      BY <1>0, <2>5, <3>4, <3>6, EvidenceKept DEF DemoteOne
  <2>6. CASE DemoteStart(w)
    <3>1. Sound(w)'
      BY <1>0, <2>6 DEF DemoteStart, Sound, TypeOK
    <3> QED
      BY <1>0, <2>6, <3>1, EvidenceKept DEF DemoteStart, TypeOK
  <2> QED
    BY <1>3, <2>1, <2>2, <2>3, <2>4, <2>5, <2>6 DEF Proceed
<1>4. ASSUME NEW w \in Workers, NEW a \in Apis,
             Create(w, a) \/ Disable(w, a) \/ PublishStart(w, a)
      PROVE  EvidenceInv'
  <2>1. CASE Create(w, a)
    <3>1. \A b \in Apis : recs'[b].proof \in {recs[b].proof, NoProof}
      BY <1>0, <2>1 DEF Create, TypeOK, Registered, Record
    <3>2. \A b \in Apis : recs'[b].proof = recs[b].proof \/ Genuine(b, recs[b].proof)'
      BY <3>1 DEF Genuine
    <3> QED
      BY <1>0, <2>1, <3>2, EvidenceKept DEF Create
  <2>2. CASE Disable(w, a)
    <3>1. \A b \in Apis : recs'[b].proof = recs[b].proof
      BY <1>0, <2>2 DEF Disable, TypeOK
    <3> QED
      BY <1>0, <2>2, <3>1, EvidenceKept DEF Disable
  <2>3. CASE PublishStart(w, a)
    <3>1. op'[w].doing = "publish" /\ op'[w].api = {a} /\ op'[w].seen = recs[a]
      BY <1>0, <2>3 DEF PublishStart, TypeOK, Idle
    <3>2. issued' = issued /\ minted' = minted /\ recs' = recs
      BY <2>3 DEF PublishStart
    <3>3. Genuine(a, op[w].seen.proof)'
      BY <3>1, <3>2 DEF EvidenceInv, Genuine
    <3>4. Sound(w)'
      BY <3>1, <3>3 DEF Sound
    <3>5. \A v \in Workers : op'[v] = op[v] \/ Sound(v)'
      BY <1>0, <2>3, <3>4 DEF PublishStart, TypeOK
    <3> QED
      BY <1>0, <3>2, <3>5, EvidenceKept
  <2> QED
    BY <1>4, <2>1, <2>2, <2>3
<1>5. ASSUME NEW w \in Workers, NEW a \in Apis, NEW update \in BOOLEAN, TestStart(w, a, update)
      PROVE  EvidenceInv'
  <2>1. op'[w].doing = "test" /\ op'[w].api = {a}
    BY <1>0, <1>5 DEF TestStart, TypeOK
  <2>2. \A v \in Workers : op'[v] = op[v] \/ Sound(v)'
    BY <1>0, <1>5, <2>1 DEF TestStart, TypeOK, Sound
  <2> QED
    BY <1>0, <1>5, <2>2, EvidenceKept DEF TestStart
<1>6. CASE UNCHANGED vars
  BY <1>0, <1>6, EvidenceKept DEF vars
<1> QED
  BY <1>1, <1>2, <1>3, <1>4, <1>5, <1>6 DEF Next

(* Evidence is never invented, moved to another API or refreshed.           *)
THEOREM EvidenceCorrect == Spec => []EvidenceIsGenuine
<1>1. EvidenceInv => EvidenceIsGenuine
  BY DEF EvidenceInv, EvidenceIsGenuine, Genuine
<1> QED
  BY <1>1, EvidenceInit, EvidenceNext, PTL DEF Spec
-----------------------------------------------------------------------------
(* VERIFIED                                                                *)

(* Whatever handler makes a record VERIFIED, the gate has just accepted its *)
(* evidence.                                                               *)
LEMMA VerifiedStep ==
  ASSUME TypeOK, Next, NEW b \in Apis, recs'[b].status = "VERIFIED", recs'[b] # recs[b]
  PROVE  Authoritative(recs'[b].proof, now, issued')
<1>1. CASE Tick
  BY <1>1 DEF Tick
<1>2. CASE Restart
  <2>1. recs'[b] = Registered(recs[b].status, recs[b].proof, issued')
    BY <1>2 DEF Restart
  <2> QED
    BY <2>1, AuthorizedProperties DEF Registered, Record
<1>3. ASSUME NEW w \in Workers, Proceed(w) \/ TestFail(w) \/ DemoteStart(w)
      PROVE  Authoritative(recs'[b].proof, now, issued')
  <2>1. CASE TestPass(w)
    <3>1. PICK id : recs'[b] = Registered(TargetStatus(op[w]), NewProof(op[w], id), issued')
      BY <2>1 DEF TestPass, TypeOK
    <3> QED
      BY <3>1, AuthorizedProperties DEF Registered, Record
  <2>2. CASE PublishWrite(w)
    <3>1. recs'[b] = Registered("VERIFIED", op[w].seen.proof, issued) /\ issued' = issued
      BY <2>2 DEF PublishWrite, TypeOK
    <3> QED
      BY <3>1, AuthorizedProperties DEF Registered, Record
  <2>3. CASE DemoteOne(w)
    <3>1. recs'[b] = Registered("DISABLED", NoProof, issued)
      BY <2>3 DEF DemoteOne, TypeOK
    <3> QED
      BY <3>1, AuthorizedProperties DEF Registered, Record
  <2>4. CASE TestInvoke(w) \/ TestBlocked(w) \/ TestFail(w) \/ DemoteStart(w)
    BY <2>4 DEF TestInvoke, TestBlocked, TestFail, DemoteStart
  <2> QED
    BY <1>3, <2>1, <2>2, <2>3, <2>4 DEF Proceed
<1>4. ASSUME NEW w \in Workers, NEW a \in Apis,
             Create(w, a) \/ Disable(w, a) \/ PublishStart(w, a)
      PROVE  Authoritative(recs'[b].proof, now, issued')
  <2>1. CASE Create(w, a)
    <3>1. recs'[b] = Registered("PARTIAL", NoProof, issued)
      BY <2>1 DEF Create, TypeOK
    <3> QED
      BY <3>1, AuthorizedProperties DEF Registered, Record
  <2>2. CASE Disable(w, a)
    BY <2>2 DEF Disable, TypeOK
  <2>3. CASE PublishStart(w, a)
    BY <2>3 DEF PublishStart
  <2> QED
    BY <1>4, <2>1, <2>2, <2>3
<1>5. ASSUME NEW w \in Workers, NEW a \in Apis, NEW update \in BOOLEAN, TestStart(w, a, update)
      PROVE  Authoritative(recs'[b].proof, now, issued')
  BY <1>5 DEF TestStart
<1> QED
  BY <1>1, <1>2, <1>3, <1>4, <1>5 DEF Next

(* A record becomes VERIFIED only on a passed test of its own that is fresh *)
(* at that moment.                                                         *)
THEOREM VerifiedCorrect == Spec => VerifiedIsEarned
<1> DEFINE Earned(a) ==
      recs'[a].status = "VERIFIED" /\ recs'[a] # recs[a] =>
          \E m \in minted' : /\ m.api = {a} /\ m.id = recs'[a].proof.id
                             /\ m.at <= now /\ now - m.at <= MaxAge
<1>1. EvidenceInv /\ EvidenceInv' /\ [Next]_vars => [\A a \in Apis : Earned(a)]_vars
  <2> SUFFICES ASSUME EvidenceInv, EvidenceInv', Next, NEW a \in Apis,
                      recs'[a].status = "VERIFIED", recs'[a] # recs[a]
               PROVE  \E m \in minted' : /\ m.api = {a} /\ m.id = recs'[a].proof.id
                                         /\ m.at <= now /\ now - m.at <= MaxAge
    OBVIOUS
  <2> DEFINE p == recs'[a].proof
  <2>1. Authoritative(p, now, issued')
    BY VerifiedStep DEF EvidenceInv
  <2>2. p.id \in Ids
    BY <2>1 DEF Authoritative, EvidenceInv, TypeOK
  <2>3. p # NoProof
    BY <2>2 DEF NoProof, Ids
  <2>4. [id |-> p.id, api |-> {a}, at |-> p.at] \in minted'
    BY <2>3 DEF EvidenceInv, Genuine
  <2> HIDE DEF p
  <2>5. WITNESS [id |-> p.id, api |-> {a}, at |-> p.at] \in minted'
  <2> QED
    BY <2>1 DEF Authoritative, p
<1> QED
  BY <1>1, EvidenceInit, EvidenceNext, PTL DEF Spec, VerifiedIsEarned

-----------------------------------------------------------------------------
(* Withdrawal                                                              *)

(* Nobody who could still write a settled record holds a copy of it.        *)
SettledInv ==
    /\ TypeOK
    /\ WithdrawalSticks
    /\ \A a \in settled : \A w \in Workers :
          a \in op[w].api => op[w].doing \in {"test", "demote"}

LEMMA DisabledPasses ==
  ASSUME NEW proof, NEW ledger
  PROVE  Registered("DISABLED", proof, ledger) = Record("DISABLED", proof)
BY DEF Registered, Authorized

\* A step keeps the invariant if it writes no settled record and starts only
\* tests and demotions.
LEMMA SettledKept ==
  ASSUME SettledInv, TypeOK', settled' = settled,
         \A a \in settled : recs'[a] = recs[a],
         \A w \in Workers : \/ op'[w] = op[w]
                            \/ op'[w].doing \in {"test", "demote"}
                            \/ op'[w].api \cap settled = {}
  PROVE  SettledInv'
BY DEF SettledInv, WithdrawalSticks, TypeOK

\* A withdrawal keeps it, settled or not.
LEMMA WithdrawalKept ==
  ASSUME SettledInv, TypeOK', NEW a \in Apis, Settle(a),
         recs'[a].status = "DISABLED", \A b \in Apis \ {a} : recs'[b] = recs[b],
         \A w \in Workers : op'[w] = op[w] \/ op'[w].doing = "demote" \/ op'[w].api = {}
  PROVE  SettledInv'
<1>1. ASSUME NEW b \in settled'
      PROVE  /\ recs'[b].status = "DISABLED"
             /\ \A w \in Workers : b \in op[w].api => op[w].doing \in {"test", "demote"}
  BY DEF Settle, SettledInv, WithdrawalSticks, TypeOK
<1> QED
  BY <1>1 DEF SettledInv, WithdrawalSticks

LEMMA SettledNext == SettledInv /\ [Next]_vars => SettledInv'
<1> SUFFICES ASSUME SettledInv, [Next]_vars
             PROVE  SettledInv'
  OBVIOUS
<1>0. TypeOK /\ TypeOK'
  BY TypeStep DEF SettledInv
<1>1. CASE Tick
  BY <1>0, <1>1, SettledKept DEF Tick
<1>2. CASE Restart
  <2>1. ASSUME NEW a \in settled
        PROVE  recs'[a].status = "DISABLED"
    <3>1. a \in Apis /\ recs[a].status = "DISABLED" /\ recs[a] # Absent
      BY <1>0 DEF SettledInv, WithdrawalSticks, TypeOK, Absent
    <3>2. recs'[a] = Registered("DISABLED", recs[a].proof, issued')
      BY <1>2, <3>1 DEF Restart
    <3> QED
      BY <3>2, DisabledPasses DEF Record
  <2>2. settled' = settled /\ \A w \in Workers : op'[w].api = {}
    BY <1>2 DEF Restart, Idle
  <2> QED
    BY <1>0, <2>1, <2>2 DEF SettledInv, WithdrawalSticks
<1>3. ASSUME NEW w \in Workers, Proceed(w) \/ TestFail(w) \/ DemoteStart(w)
      PROVE  SettledInv'
  <2>1. CASE TestInvoke(w)
    <3>1. \A a \in op[w].api : ~Blocks(recs[a], op[w].clock)
      BY <2>1 DEF TestInvoke
    <3>2. op[w].api \cap settled = {}
      BY <3>1 DEF Blocks, SettledInv, WithdrawalSticks
    <3>3. op'[w].api \cap settled = {}
      BY <1>0, <2>1, <3>2 DEF TestInvoke, TypeOK, Ops
    <3> QED
      BY <1>0, <2>1, <3>3, SettledKept DEF TestInvoke, TypeOK
  <2>2. CASE TestBlocked(w) \/ TestFail(w)
    <3>1. op'[w].api = {}
      BY <1>0, <2>2 DEF TestBlocked, TestFail, Leave, TypeOK, Idle
    <3> QED
      BY <1>0, <2>2, <3>1, SettledKept DEF TestBlocked, TestFail, Leave, TypeOK
  <2>3. CASE TestPass(w) \/ PublishWrite(w)
    <3>1. op[w].doing \in {"invoked", "publish"} /\ settled' = settled
      BY <2>3 DEF TestPass, PublishWrite
    <3>2. op[w].api \cap settled = {}
      BY <3>1 DEF SettledInv
    <3>3. PICK a \in op[w].api : \E rec : recs' = [recs EXCEPT ![a] = rec]
      BY <2>3 DEF TestPass, PublishWrite
    <3>4. \A b \in settled : recs'[b] = recs[b]
      BY <1>0, <3>2, <3>3 DEF TypeOK
    <3>5. op' = [op EXCEPT ![w] = Idle]
      BY <2>3 DEF TestPass, PublishWrite, Leave
    <3> QED
      BY <1>0, <3>1, <3>4, <3>5, SettledKept DEF TypeOK, Idle
  <2>4. CASE DemoteOne(w)
    <3>1. PICK a \in op[w].api :
            /\ recs' = [recs EXCEPT ![a] = Registered("DISABLED", NoProof, issued)]
            /\ op' = [op EXCEPT ![w] = IF op[w].api \ {a} = {} THEN Idle
                                       ELSE [@ EXCEPT !.api = op[w].api \ {a}]]
            /\ Settle(a)
      BY <2>4 DEF DemoteOne
    <3>2. a \in Apis
      BY <1>0, <3>1 DEF TypeOK, Ops
    <3>3. recs'[a].status = "DISABLED" /\ \A b \in Apis \ {a} : recs'[b] = recs[b]
      BY <1>0, <3>1, <3>2, DisabledPasses DEF TypeOK, Record
    <3>4. op'[w].doing = "demote" \/ op'[w].api = {}
      BY <1>0, <2>4, <3>1 DEF DemoteOne, TypeOK, Ops, Idle
    <3>5. \A v \in Workers : op'[v] = op[v] \/ op'[v].doing = "demote" \/ op'[v].api = {}
      BY <1>0, <3>1, <3>4 DEF TypeOK
    <3> QED
      BY <1>0, <3>1, <3>2, <3>3, <3>5, WithdrawalKept
  <2>5. CASE DemoteStart(w)
    <3>1. op'[w].doing = "demote" /\ \A v \in Workers \ {w} : op'[v] = op[v]
      BY <1>0, <2>5 DEF DemoteStart, TypeOK, Idle
    <3> QED
      BY <1>0, <2>5, <3>1, SettledKept DEF DemoteStart
  <2> QED
    BY <1>3, <2>1, <2>2, <2>3, <2>4, <2>5 DEF Proceed
<1>4. ASSUME NEW w \in Workers, NEW a \in Apis,
             Create(w, a) \/ Disable(w, a) \/ PublishStart(w, a)
      PROVE  SettledInv'
  <2>1. CASE Create(w, a)
    BY <1>0, <2>1 DEF Create, SettledInv, WithdrawalSticks, TypeOK
  <2>2. CASE Disable(w, a)
    <3>1. recs'[a].status = "DISABLED" /\ \A b \in Apis \ {a} : recs'[b] = recs[b]
      BY <1>0, <2>2 DEF Disable, TypeOK
    <3> QED
      BY <1>0, <2>2, <3>1, WithdrawalKept DEF Disable
  <2>3. CASE PublishStart(w, a)
    <3>1. a \notin settled
      BY <2>3 DEF PublishStart, SettledInv, WithdrawalSticks
    <3>2. op'[w].api = {a} /\ \A v \in Workers \ {w} : op'[v] = op[v]
      BY <1>0, <2>3 DEF PublishStart, TypeOK, Idle
    <3> QED
      BY <1>0, <2>3, <3>1, <3>2, SettledKept DEF PublishStart
  <2> QED
    BY <1>4, <2>1, <2>2, <2>3
<1>5. ASSUME NEW w \in Workers, NEW a \in Apis, NEW update \in BOOLEAN, TestStart(w, a, update)
      PROVE  SettledInv'
  <2>1. op'[w].doing = "test" /\ \A v \in Workers \ {w} : op'[v] = op[v]
    BY <1>0, <1>5 DEF TestStart, TypeOK
  <2> QED
    BY <1>0, <1>5, <2>1, SettledKept DEF TestStart
<1>6. CASE UNCHANGED vars
  BY <1>0, <1>6, SettledKept DEF vars
<1> QED
  BY <1>1, <1>2, <1>3, <1>4, <1>5, <1>6 DEF Next

(* A withdrawal that met no admitted test and no publish of its record is   *)
(* never undone, except by a new creation, and outlives every restart.     *)
THEOREM WithdrawalCorrect == Spec => []WithdrawalSticks
<1>1. Init => SettledInv
  BY TypeInit DEF Init, SettledInv, WithdrawalSticks
<1>2. SettledInv => WithdrawalSticks
  BY DEF SettledInv
<1> QED
  BY <1>1, <1>2, SettledNext, PTL DEF Spec

=============================================================================
