-------------------------- MODULE SecretAccess_proofs --------------------------
(***************************************************************************)
(* Theorems about SecretAccess, for every value of its constants: the      *)
(* calls that read requests and leases without MutationLock, on top of the *)
(* invariants of the broker they read.                                     *)
(***************************************************************************)
EXTENDS SecretAccess, LeaseBroker_proofs

------------------------------------------------------------------------------
(* The inductive invariant *)

\* Requests without an env_path, in memory or in the file, have no file that
\* an operator confirmed.
ConfirmedInv == \A r \in RequestIds :
  /\ request[r] # NoRequest /\ ~request[r].envPath => confirmed[r] = {}
  /\ disk.request[r] # NoRequest /\ ~disk.request[r].envPath => confirmed[r] = {}

Backed(r) == request[r].status = "approved" \/ durabilityClosed

Early   == {"request", "findLease", "lease", "intent", "intentRequest", "resolve", "approved"}
Holding == {"intentRequest", "resolve", "approved", "check", "started", "backend", "accessed"}
Running == {"runStart", "run", "runEnd"}

\* The call of a reader fits its position.
CallInv(g) ==
  /\ rpc[g] \in {"idle", "done"} <=> rop[g] = NoCall
  /\ rop[g] # NoCall => rop[g].req < nextRequest
  /\ rpc[g] \in {"request", "findLease"} => rop[g].req # 0
  /\ rpc[g] \in {"lease", "intent"} \cup Holding =>
       rop[g].kind \in {"access", "execute"} /\ rop[g].tok # 0
  /\ rpc[g] = "lease" => rop[g].kind = "access"
  /\ rpc[g] \in {"intent", "intentRequest", "resolve", "approved"} => rop[g].kind = "execute"
  /\ rpc[g] \in Running => rop[g].kind \in {"host", "execute"}
  /\ rop[g] # NoCall /\ rop[g].kind = "host" => rop[g].req = 0
  /\ rpc[g] \in Early => rop[g].left = SecretCount
  /\ rpc[g] \in Early \cup {"check"} => ~rop[g].env

\* A reader past its lease holds a copy of it, and its request is approved or
\* the gate is closed.
HoldInv(g) ==
  /\ rpc[g] \in Holding => rop[g].lease # NoLease /\ rop[g].req = rop[g].lease.req
  /\ rpc[g] \in Running /\ rop[g].kind = "execute" => rop[g].req # 0
  /\ rpc[g] \in Holding \cup Running /\ rop[g].req # 0 => Backed(rop[g].req)

Started(g, n) == <<g, "secret_access_started", n>>

\* The records a reader has made before it reads.
TrailInv(g) ==
  /\ rpc[g] = "started" /\ rop[g].env =>
       \A n \in 1..SecretCount : n > rop[g].left => Started(g, n) \in trail
  /\ rpc[g] \in {"backend", "accessed"} =>
       /\ Started(g, rop[g].left) \in trail
       /\ rop[g].env => \A n \in 1..SecretCount : Started(g, n) \in trail

\* The file an execution read is the one its operator confirmed.
FileInv(g) ==
  rop[g] # NoCall /\ rop[g].kind = "execute" =>
    /\ rpc[g] \in {"check", "started", "backend", "accessed"} \cup Running /\ ~rop[g].env
         => confirmed[rop[g].req] = {}
    /\ rpc[g] \in {"accessed"} \cup Running => rop[g].file = confirmed[rop[g].req]

ReaderInv(g) == CallInv(g) /\ HoldInv(g) /\ TrailInv(g) /\ FileInv(g)

\* What was seen, read or run belongs to a request that exists, in a life of
\* the process that has begun; it is backed, recorded and confirmed as the
\* properties of SecretAccess say.
UseInv(u) ==
  /\ u.req < nextRequest /\ u.epoch <= crashes
  /\ u.req # 0 => Backed(u.req) \/ crashes > u.epoch
  /\ u.what = "read" => Started(u.by, u.left) \in trail
  /\ u.what = "read" /\ u.file # {} => \A n \in 1..SecretCount : Started(u.by, n) \in trail
  /\ u.what = "delivered" => {Started(u.by, u.left), <<u.by, "secret_access", u.left>>} \subseteq trail
  /\ u.what = "answered" => \/ \E n \in 0..SecretCount : <<u.by, "execute_with_secret", n>> \in trail
                            \/ durabilityClosed \/ crashes > u.epoch
  /\ u.what = "ran" /\ u.req # 0 => u.file = confirmed[u.req]

AccessInv ==
  /\ PairInv
  /\ AccessTypeOK
  /\ ConfirmedInv
  /\ \A g \in Readers : ReaderInv(g)
  /\ \A u \in used : UseInv(u)

\* The types of the parts.
LEMMA AccessTypes ==
  ASSUME AccessInv
  PROVE  /\ PairInv /\ LockInv /\ TypeOK /\ AccessTypeOK
         /\ request \in [RequestIds -> LeaseRequest \cup {NoRequest}]
         /\ disk.request \in [RequestIds -> LeaseRequest \cup {NoRequest}]
         /\ lease \in [Tokens -> Lease \cup {NoLease}]
         /\ rpc \in [Readers -> ReadSteps] /\ rop \in [Readers -> ReadCall \cup {NoCall}]
         /\ nextRequest \in Nat /\ nextRequest >= 1 /\ crashes \in Nat /\ crashes \in 0..MaxCrashes
         /\ SecretCount \in Nat /\ SecretCount >= 1
<1>1. DecisionInv /\ PairInv
  BY DEF AccessInv, PairInv
<1>2. LockInv /\ TypeOK /\ AccessTypeOK
  BY <1>1, PairTypes DEF AccessInv
<1>3. disk.request \in [RequestIds -> LeaseRequest \cup {NoRequest}]
  BY <1>1, DecisionTypes
<1>4. nextRequest \in Nat /\ nextRequest >= 1 /\ crashes \in Nat /\ crashes \in 0..MaxCrashes
  BY <1>2, BoundsAssumption DEF TypeOK
<1> QED BY <1>1, <1>2, <1>3, <1>4, PairTypes, AccessAssumption DEF AccessTypeOK

\* The requests that exist have ids handed out.
LEMMA RequestsHandedOut ==
  ASSUME AccessInv
  PROVE  \A r \in RequestIds : request[r] # NoRequest \/ disk.request[r] # NoRequest => r < nextRequest
<1>1. FreshIds
  BY DEF AccessInv, PairInv, DecisionInv
<1> QED BY <1>1, AccessTypes DEF FreshIds, RequestIds

\* A lease belongs to a request that is approved.
LEMMA LeaseApproved ==
  ASSUME PairInv, NEW t \in Tokens, lease[t] # NoLease
  PROVE  /\ lease[t] \in Lease /\ lease[t].req \in RequestIds
         /\ request[lease[t].req].status = "approved" /\ request[lease[t].req] # NoRequest
<1>1. lease[t] \in Lease /\ lease[t].req \in RequestIds
  BY PairTypes DEF Lease
<1>2. lease[t].req \in ApprovedIn(request)
  <2>1. CASE lock = NoHandler
    BY <2>1 DEF PairInv, Paired
  <2>2. CASE lock # NoHandler
    <3>1. lock \in Handlers
      BY <2>2, PairTypes DEF TypeOK
    <3>2. Paired(ApprovedIn(request) \ Half(lock), lease)
      BY <3>1 DEF PairInv
    <3> QED BY <3>2 DEF Paired
  <2> QED BY <2>1, <2>2
<1> QED BY <1>1, <1>2 DEF ApprovedIn, NoRequest

------------------------------------------------------------------------------
(* What a step of the broker leaves to its readers *)

\* A failed record of a reader closes the gate and changes nothing else.
CloseGate ==
  /\ Fault
  /\ durabilityClosed' = TRUE
  /\ UNCHANGED <<store, disk, lock, pc, op, history, ids, clock, crashes>>

\* The broker's invariants allow the gate to close at any moment.
LEMMA PairCloses == PairInv /\ CloseGate => PairInv'
<1> SUFFICES ASSUME PairInv, CloseGate PROVE PairInv'
  OBVIOUS
<1> USE DEF store, history, ids
<1>1. /\ UNCHANGED <<request, lease, disk, lock, pc, op, journal, acked, nextRequest, nextToken, clock, crashes>>
      /\ durabilityClosed' = TRUE
  BY DEF CloseGate
<1>2. DecisionInv /\ GateInv /\ LockInv
  BY DEF PairInv, DecisionInv, GateInv
<1>3. faults' \in 0..MaxFaults
  BY <1>2, FaultTypes DEF LockInv, CloseGate
<1>4. LockInv'
  BY <1>1, <1>2, <1>3 DEF LockInv, TypeOK, MutationExclusive, Memory
<1>5. GateInv'
  BY <1>1, <1>2, <1>4 DEF GateInv, DurableUnlessClosed, HasLock, Memory
<1>6. DecisionInv'
  BY <1>1, <1>2, <1>5 DEF DecisionInv, FreshIds, UndecidedInFlight, AckedDecisionDurable, OneDecision, Decided
<1> QED BY <1>1, <1>6 DEF PairInv, FreshTokens, Half, LeaseInFlight

\* A request that exists after a step is the one that was saved in it, or has
\* the env_path it had.
KeepsEnvPath == \A r \in RequestIds : request'[r] # NoRequest =>
  \/ r = nextRequest /\ nextRequest' # nextRequest
  \/ request[r] # NoRequest /\ request'[r].envPath = request[r].envPath

\* What readers rely on: ids are handed out once, the gate opens only at a
\* restart, an approval is undone behind a closed gate.
BrokerKeeps ==
  /\ nextRequest' \in {nextRequest, nextRequest + 1}
  /\ nextRequest' # nextRequest => nextRequest \in RequestIds
  /\ durabilityClosed => durabilityClosed'
  /\ crashes' = crashes
  /\ disk' \in {disk, Memory}
  /\ \A r \in RequestIds : Backed(r) => Backed(r)'
  /\ KeepsEnvPath

\* The steps that get the lock.
LEMMA AcquireKeeps ==
  ASSUME PairInv, NEW h \in Handlers, Acquire(h) PROVE BrokerKeeps
<1> USE DEF store, history, ids, env
<1>0. /\ request \in [RequestIds -> LeaseRequest \cup {NoRequest}]
      /\ nextRequest \in Nat /\ TypeOK /\ MutationExclusive
      /\ \A r \in RequestIds : r >= nextRequest => request[r] = NoRequest
  BY PairTypes, BoundsAssumption DEF PairInv, DecisionInv, FreshIds, TypeOK
<1>1. CASE RefuseRequest(h) \/ ReuseLease(h) \/ ReuseAuditFails(h) \/ RefuseDecision(h)
  <2>1. UNCHANGED <<request, nextRequest, durabilityClosed, crashes, disk>>
    BY <1>1 DEF RefuseRequest, ReuseLease, ReuseAuditFails, RefuseDecision
  <2> QED BY <2>1 DEF BrokerKeeps, Backed, KeepsEnvPath
<1>2. CASE SaveRequest(h)
  <2>1. /\ nextRequest \in RequestIds /\ nextRequest' = nextRequest + 1
        /\ \E rec : request' = [request EXCEPT ![nextRequest] = rec]
        /\ UNCHANGED <<durabilityClosed, crashes, disk>>
    BY <1>2 DEF SaveRequest
  <2>2. \A r \in RequestIds : r # nextRequest => request'[r] = request[r]
    BY <1>0, <2>1
  <2>3. request[nextRequest].status # "approved"
    BY <1>0, <2>1 DEF NoRequest
  <2>4. \A r \in RequestIds : Backed(r) => Backed(r)'
    BY <2>1, <2>2, <2>3 DEF Backed
  <2>5. KeepsEnvPath
    BY <1>0, <2>1, <2>2 DEF KeepsEnvPath
  <2> QED BY <1>0, <2>1, <2>4, <2>5 DEF BrokerKeeps
<1>3. CASE UpdateRequest(h)
  <2> DEFINE q == op[h].req
  <2>1. /\ pc[h] = "waiting" /\ op[h].kind \in Decisions /\ request[q] # NoRequest /\ IsPending(q)
        /\ request' = [request EXCEPT ![q].status = DecisionStatus(op[h].kind)]
        /\ UNCHANGED <<nextRequest, durabilityClosed, crashes, disk>>
    BY <1>3 DEF UpdateRequest, MayDecide, Locks
  <2>2. q \in RequestIds
    <3>1. op[h] \in Call
      BY <2>1, CallOf, PairTypes
    <3> QED BY <2>1, <3>1 DEF Call, Decisions
  <2>3. request[q] \in LeaseRequest
    BY <1>0, <2>1, <2>2
  <2>4. /\ request'[q].envPath = request[q].envPath
        /\ \A r \in RequestIds : r # q => request'[r] = request[r]
    BY <1>0, <2>1, <2>2, <2>3 DEF LeaseRequest
  <2>5. request[q].status # "approved"
    BY <2>1 DEF IsPending
  <2>6. \A r \in RequestIds : Backed(r) => Backed(r)'
    BY <2>1, <2>4, <2>5 DEF Backed
  <2>7. KeepsEnvPath
    BY <2>1, <2>4 DEF KeepsEnvPath
  <2> QED BY <2>1, <2>6, <2>7 DEF BrokerKeeps
<1> QED BY <1>1, <1>2, <1>3 DEF Acquire

\* The steps under the lock.
LEMMA ProceedKeeps ==
  ASSUME PairInv, NEW h \in Handlers, Proceed(h) PROVE BrokerKeeps
<1> USE DEF store, history, ids, env
<1>0. /\ request \in [RequestIds -> LeaseRequest \cup {NoRequest}]
      /\ TypeOK /\ MutationExclusive /\ GateInv
  BY PairTypes DEF PairInv, DecisionInv
<1>1. UNCHANGED <<nextRequest, crashes>> /\ disk' \in {disk, Memory}
  BY DEF Proceed, SaveLease, CommitOk, CommitFails, AuditOk, AuditFails, UndoLease, UndoRequest, RecommitOk,
     RecommitFails
<1>2. durabilityClosed => durabilityClosed'
  BY DEF Proceed, SaveLease, CommitOk, CommitFails, AuditOk, AuditFails, UndoLease, UndoRequest, RecommitOk,
     RecommitFails
<1>3. CASE UndoRequest(h)
  <2> DEFINE q == op[h].req
  <2>1. lock = h /\ pc[h] = "undoRequest" /\ durabilityClosed
        /\ request' = [request EXCEPT ![q] = Original(op[h])]
    BY <1>0, <1>3 DEF UndoRequest, Goto, GateInv
  <2>2. q \in RequestIds /\ request[q].status = SuccessReply(op[h].kind)
    BY <1>0, <2>1 DEF MutationExclusive
  <2>3. request[q] \in LeaseRequest
    BY <1>0, <2>2 DEF SuccessReply, DecisionStatus, NoRequest
  <2>4. request'[q] = NoRequest \/ request'[q].envPath = request[q].envPath
    BY <1>0, <2>1, <2>2, <2>3 DEF Original, LeaseRequest
  <2>5. /\ request[q] # NoRequest
        /\ \A r \in RequestIds : r # q => request'[r] = request[r]
    BY <1>0, <2>1, <2>3 DEF NoRequest, LeaseRequest
  <2>6. KeepsEnvPath
    BY <2>4, <2>5 DEF KeepsEnvPath
  <2> QED BY <1>1, <1>2, <2>1, <2>6 DEF BrokerKeeps, Backed
<1>4. CASE ~UndoRequest(h)
  <2>1. request' = request
    BY <1>4 DEF Proceed, SaveLease, CommitOk, CommitFails, AuditOk, AuditFails, UndoLease, RecommitOk, RecommitFails
  <2> QED BY <1>1, <1>2, <2>1 DEF BrokerKeeps, Backed, KeepsEnvPath
<1> QED BY <1>3, <1>4

\* Every step but a restart.
LEMMA StepKeeps ==
  ASSUME PairInv,
         (\E h \in Handlers : Enter(h) \/ Acquire(h) \/ Proceed(h)) \/ Tick \/ CloseGate \/ UNCHANGED vars
  PROVE  BrokerKeeps
<1>1. CASE (\E h \in Handlers : Enter(h)) \/ Tick \/ CloseGate \/ UNCHANGED vars
  <2>1. UNCHANGED <<request, nextRequest, crashes, disk>> /\ (durabilityClosed => durabilityClosed')
    BY <1>1 DEF Enter, Tick, CloseGate, vars, store, ids, env
  <2> QED BY <2>1 DEF BrokerKeeps, Backed, KeepsEnvPath
<1> QED BY <1>1, AcquireKeeps, ProceedKeeps

------------------------------------------------------------------------------
(* Steps of the broker *)

\* A step that leaves the readers, and the files confirmed for the requests
\* that exist, keeps what they rely on.
LEMMA ReadersKept ==
  ASSUME AccessInv, PairInv', BrokerKeeps, UNCHANGED <<rpc, rop, trail, used>>,
         target' \in Files, confirmed' \in [RequestIds -> SUBSET Files],
         \A r \in RequestIds : r < nextRequest => confirmed'[r] = confirmed[r],
         nextRequest' # nextRequest /\ ~request'[nextRequest].envPath => confirmed'[nextRequest] = {}
  PROVE  AccessInv'
<1>0. /\ nextRequest <= nextRequest' /\ nextRequest' \in Nat /\ crashes' = crashes
      /\ durabilityClosed => durabilityClosed'
      /\ \A r \in RequestIds : Backed(r) => Backed(r)'
      /\ rop \in [Readers -> ReadCall \cup {NoCall}]
  BY AccessTypes DEF BrokerKeeps
<1>1. AccessTypeOK'
  BY AccessTypes DEF AccessTypeOK
<1>2. ASSUME NEW r \in RequestIds
      PROVE  /\ request'[r] # NoRequest /\ ~request'[r].envPath => confirmed'[r] = {}
             /\ disk'.request[r] # NoRequest /\ ~disk'.request[r].envPath => confirmed'[r] = {}
  <2>1. ConfirmedInv
    BY DEF AccessInv
  <2>2. request[r] # NoRequest /\ ~request[r].envPath => confirmed'[r] = {}
    BY <2>1, RequestsHandedOut DEF ConfirmedInv
  <2>3. disk.request[r] # NoRequest /\ ~disk.request[r].envPath => confirmed'[r] = {}
    BY <2>1, RequestsHandedOut DEF ConfirmedInv
  <2>4. request'[r] # NoRequest /\ ~request'[r].envPath => confirmed'[r] = {}
    BY <2>2 DEF BrokerKeeps, KeepsEnvPath
  <2>5. disk' = disk \/ disk'.request = request
    BY DEF BrokerKeeps, Memory
  <2> QED BY <2>2, <2>3, <2>4, <2>5
<1>3. ConfirmedInv'
  BY <1>2 DEF ConfirmedInv
<1>4. ASSUME NEW g \in Readers PROVE ReaderInv(g)'
  <2>1. ReaderInv(g)
    BY DEF AccessInv
  <2>2. CASE rop[g] = NoCall
    BY <2>1, <2>2 DEF ReaderInv, CallInv, HoldInv, TrailInv, FileInv, Holding, Running, Early
  <2>3. CASE rop[g] # NoCall
    <3>1. /\ rop[g].req \in RequestIds \cup {0} /\ rop[g].req < nextRequest /\ rop[g].req \in Nat
          /\ rop[g].lease \in Lease \cup {NoLease}
      BY <1>0, <2>1, <2>3 DEF ReadCall, ReaderInv, CallInv, RequestIds
    <3>2. CallInv(g)'
      <4>1. CallInv(g) /\ rop[g].req < nextRequest'
        BY <1>0, <2>1, <3>1, AccessTypes DEF ReaderInv
      <4> QED BY <4>1 DEF CallInv
    <3>3. HoldInv(g)'
      <4>1. HoldInv(g) /\ (rop[g].req # 0 /\ Backed(rop[g].req) => Backed(rop[g].req)')
        BY <1>0, <2>1, <3>1 DEF ReaderInv
      <4> QED BY <4>1 DEF HoldInv, Backed
    <3>4. TrailInv(g)'
      BY <2>1 DEF ReaderInv, TrailInv
    <3>5. FileInv(g)'
      <4>1. ASSUME rop[g].kind = "execute", rpc[g] \in {"check", "started", "backend", "accessed"} \cup Running
            PROVE  confirmed'[rop[g].req] = confirmed[rop[g].req]
        <5>1. rpc[g] \in Holding \/ rpc[g] \in Running
          BY <4>1 DEF Holding
        <5>2. rop[g].req # 0
          BY <2>1, <3>1, <4>1, <5>1 DEF ReaderInv, HoldInv, Lease, NoLease, RequestIds
        <5> QED BY <3>1, <5>2
      <4> QED BY <2>1, <4>1 DEF ReaderInv, FileInv
    <3> QED BY <3>2, <3>3, <3>4, <3>5 DEF ReaderInv
  <2> QED BY <2>2, <2>3
<1>5. ASSUME NEW u \in used PROVE UseInv(u)'
  <2>1. UseInv(u) /\ u.req \in RequestIds \cup {0} /\ u.req \in Nat
    BY AccessTypes DEF AccessInv, AccessTypeOK, RequestIds
  <2>2. u.req < nextRequest' /\ (u.req # 0 => (Backed(u.req) => Backed(u.req)') /\ confirmed'[u.req] = confirmed[u.req])
    BY <1>0, <2>1, AccessTypes DEF UseInv
  <2> QED BY <1>0, <2>1, <2>2 DEF UseInv
<1> QED BY <1>1, <1>3, <1>4, <1>5 DEF AccessInv

\* A mutation of the broker; the file of a request it saves is the one its
\* env_path resolves to.
LEMMA MutateStep == ASSUME AccessInv, Mutate PROVE AccessInv'
<1>1. PICK h \in Handlers : Enter(h) \/ Acquire(h) \/ Proceed(h)
  BY DEF Mutate
<1>2. PairInv' /\ BrokerKeeps
  BY <1>1, PairStep, StepKeeps, AccessTypes DEF Next
<1>3. UNCHANGED <<rpc, rop, trail, used, target>> /\ target \in Files /\ confirmed \in [RequestIds -> SUBSET Files]
  BY AccessTypes DEF Mutate, AccessTypeOK
<1>4. CASE nextRequest' = nextRequest
  <2>1. confirmed' = confirmed
    BY <1>4 DEF Mutate
  <2> QED BY <1>2, <1>3, <1>4, <2>1, ReadersKept
<1>5. CASE nextRequest' # nextRequest
  <2>1. confirmed' = [confirmed EXCEPT ![nextRequest] = IF request'[nextRequest].envPath THEN {target} ELSE {}]
    BY <1>5 DEF Mutate
  <2>2. nextRequest \in RequestIds
    BY <1>2, <1>5 DEF BrokerKeeps
  <2>3. confirmed' \in [RequestIds -> SUBSET Files]
    BY <1>3, <2>1
  <2>4. /\ \A r \in RequestIds : r < nextRequest => confirmed'[r] = confirmed[r]
        /\ ~request'[nextRequest].envPath => confirmed'[nextRequest] = {}
    BY <1>3, <2>1, <2>2, AccessTypes DEF RequestIds
  <2> QED BY <1>2, <1>3, <2>3, <2>4, ReadersKept
<1> QED BY <1>4, <1>5

\* Time passes, or the link behind the env_path moves.
LEMMA QuietStep == ASSUME AccessInv, Wait \/ Relink \/ UNCHANGED accessVars PROVE AccessInv'
<1>1. PairInv' /\ BrokerKeeps
  BY PairStep, StepKeeps, AccessTypes DEF Next, Wait, Relink, accessVars
<1>2. /\ UNCHANGED <<rpc, rop, trail, used, confirmed, nextRequest>> /\ target' \in Files
      /\ confirmed \in [RequestIds -> SUBSET Files]
  BY AccessTypes DEF Wait, Relink, accessVars, access, vars, Tick, ids, AccessTypeOK
<1> QED BY <1>1, <1>2, ReadersKept

\* A restart ends every reader's call, and puts what was used in an earlier
\* life of the process.
LEMMA RestartStep == ASSUME AccessInv, Restart PROVE AccessInv'
<1>1. /\ PairInv' /\ request' = disk.request /\ disk' = disk /\ crashes' = crashes + 1
      /\ UNCHANGED <<nextRequest, trail, used, target, confirmed>>
  BY PairStep, AccessTypes DEF Next, Restart, Crash, ids
<1>2. \A g \in Readers : rpc'[g] \in {"idle", "done"} /\ rop'[g] = NoCall
  BY DEF Restart
<1>3. AccessTypeOK'
  <2>1. rpc' \in [Readers -> ReadSteps] /\ rop' \in [Readers -> ReadCall \cup {NoCall}]
    BY DEF Restart, ReadSteps
  <2> QED BY <1>1, <2>1, AccessTypes DEF AccessTypeOK
<1>4. ConfirmedInv'
  BY <1>1 DEF AccessInv, ConfirmedInv
<1>5. ASSUME NEW g \in Readers PROVE ReaderInv(g)'
  BY <1>2 DEF ReaderInv, CallInv, HoldInv, TrailInv, FileInv, Holding, Running, Early
<1>6. ASSUME NEW u \in used PROVE UseInv(u)'
  <2>1. UseInv(u) /\ u.epoch \in Nat
    BY AccessTypes DEF AccessInv, AccessTypeOK
  <2>2. u.epoch <= crashes' /\ crashes' > u.epoch
    BY <1>1, <2>1, AccessTypes DEF UseInv
  <2> QED BY <1>1, <2>1, <2>2 DEF UseInv
<1> QED BY <1>1, <1>3, <1>4, <1>5, <1>6 DEF AccessInv

------------------------------------------------------------------------------
(* Steps of the readers *)

UseType == [by: Readers, what: Uses, req: RequestIds \cup {0}, tok: Tokens \cup {0}, left: 0..SecretCount,
            epoch: 0..MaxCrashes, file: SUBSET Files]

\* One reader's step: the broker is as it was or its gate closes, the others
\* keep their position and their call, records and uses are added.
Alone(g) ==
  /\ BrokerQuiet \/ CloseGate
  /\ UNCHANGED <<target, confirmed>>
  /\ rpc' \in [Readers -> ReadSteps] /\ rop' \in [Readers -> ReadCall \cup {NoCall}]
  /\ \A f \in Readers \ {g} : rpc'[f] = rpc[f] /\ rop'[f] = rop[f]
  /\ trail \subseteq trail' /\ trail' \subseteq Readers \X Records \X (0..SecretCount)

\* What such a step leaves of the broker.
LEMMA AloneBroker ==
  ASSUME AccessInv, NEW g \in Readers, Alone(g)
  PROVE  /\ PairInv'
         /\ UNCHANGED <<request, lease, disk, nextRequest, clock, crashes, confirmed>>
         /\ durabilityClosed => durabilityClosed'
         /\ \A r : Backed(r) => Backed(r)'
<1>1. PairInv'
  BY PairStep, PairCloses, AccessTypes DEF Alone, BrokerQuiet
<1>2. /\ UNCHANGED <<request, lease, disk, nextRequest, clock, crashes, confirmed>>
      /\ durabilityClosed => durabilityClosed'
  BY DEF Alone, BrokerQuiet, CloseGate, vars, store, ids
<1> QED BY <1>1, <1>2 DEF Backed

\* It keeps the invariant if it keeps the reader's own, and what it uses is
\* backed and recorded.
LEMMA ReaderStepBy ==
  ASSUME AccessInv, NEW g \in Readers, Alone(g), ReaderInv(g)',
         \A u \in used' : u \in used \/ (u \in UseType /\ UseInv(u)')
  PROVE  AccessInv'
<1>0. /\ PairInv' /\ UNCHANGED <<request, disk, nextRequest, crashes, confirmed>>
      /\ durabilityClosed => durabilityClosed'
      /\ \A r : Backed(r) => Backed(r)'
      /\ trail \subseteq trail'
  BY AloneBroker DEF Alone
<1>1. AccessTypeOK'
  <2>1. used' \subseteq UseType
    BY AccessTypes DEF AccessTypeOK, UseType
  <2> QED BY <2>1, AccessTypes DEF Alone, AccessTypeOK, UseType
<1>2. ConfirmedInv'
  BY <1>0 DEF AccessInv, ConfirmedInv
<1>3. ASSUME NEW f \in Readers, f # g PROVE ReaderInv(f)'
  <2>1. ReaderInv(f) /\ rpc'[f] = rpc[f] /\ rop'[f] = rop[f]
    BY <1>3 DEF AccessInv, Alone
  <2>2. CallInv(f)' /\ TrailInv(f)' /\ FileInv(f)'
    BY <1>0, <2>1 DEF ReaderInv, CallInv, TrailInv, FileInv
  <2>3. HoldInv(f)'
    BY <1>0, <2>1 DEF ReaderInv, HoldInv
  <2> QED BY <2>2, <2>3 DEF ReaderInv
<1>4. ASSUME NEW u \in used' PROVE UseInv(u)'
  <2>1. CASE u \in used
    <3>1. UseInv(u)
      BY <2>1 DEF AccessInv
    <3> QED BY <1>0, <3>1 DEF UseInv
  <2> QED BY <2>1
<1> QED BY <1>0, <1>1, <1>2, <1>3, <1>4 DEF AccessInv

\* A reader between its first step and its last has a call.
LEMMA CallAt ==
  ASSUME AccessInv, NEW g \in Readers, rpc[g] \notin {"idle", "done"}
  PROVE  /\ ReaderInv(g) /\ rop[g] \in ReadCall /\ rop[g] # NoCall
         /\ rop[g].req < nextRequest /\ rop[g].req \in RequestIds \cup {0}
         /\ rop[g].tok \in Tokens \cup {0} /\ rop[g].lease \in Lease \cup {NoLease}
         /\ rop[g].left \in 1..SecretCount /\ rop[g].env \in BOOLEAN /\ rop[g].file \subseteq Files
<1>1. ReaderInv(g) /\ rop[g] \in ReadCall /\ rop[g] # NoCall
  BY AccessTypes DEF AccessInv, ReaderInv, CallInv
<1> QED BY <1>1 DEF ReaderInv, CallInv, ReadCall

\* A reader that holds a lease knows its request.
LEMMA HeldRequest ==
  ASSUME AccessInv, NEW g \in Readers, rpc[g] \in Holding
  PROVE  /\ rop[g].lease \in Lease /\ rop[g].req = rop[g].lease.req /\ rop[g].req \in RequestIds
         /\ rop[g].req # 0 /\ rop[g].req < nextRequest /\ Backed(rop[g].req)
<1>1. rpc[g] \notin {"idle", "done"}
  BY DEF Holding
<1>2. rop[g].lease \in Lease /\ rop[g].req = rop[g].lease.req
  BY <1>1, CallAt DEF ReaderInv, HoldInv
<1>3. rop[g].req \in RequestIds /\ rop[g].req # 0
  BY <1>2 DEF Lease, RequestIds
<1> QED BY <1>1, <1>2, <1>3, CallAt DEF ReaderInv, HoldInv

\* The record of a reader is one of the records.
LEMMA RecordTypes ==
  ASSUME AccessInv, NEW g \in Readers, rpc[g] \notin {"idle", "done"}, NEW event \in Records
  PROVE  /\ Record(g, event) \in Readers \X Records \X (0..SecretCount)
         /\ trail \subseteq Readers \X Records \X (0..SecretCount)
         /\ Audited(g, event) \/ AuditLost(g, event) =>
              /\ trail \subseteq trail' /\ trail' \subseteq Readers \X Records \X (0..SecretCount)
              /\ BrokerQuiet \/ CloseGate
<1>1. Record(g, event) \in Readers \X Records \X (0..SecretCount)
  BY CallAt, AccessTypes DEF Record
<1>2. trail \subseteq Readers \X Records \X (0..SecretCount)
  BY AccessTypes DEF AccessTypeOK
<1> QED BY <1>1, <1>2 DEF Audited, AuditLost, CloseGate

\* What a reader uses is typed, and backed if its request is.
LEMMA UseBacked ==
  ASSUME AccessInv, NEW g \in Readers, rpc[g] \notin {"idle", "done"}, Alone(g), NEW what \in Uses,
         NEW file \in SUBSET Files, NEW u,
         u = [by |-> g, what |-> what, req |-> rop[g].req, tok |-> rop[g].tok, left |-> rop[g].left,
              epoch |-> crashes, file |-> file],
         u.req # 0 => Backed(u.req)
  PROVE  /\ u \in UseType /\ u.by = g /\ u.what = what /\ u.req = rop[g].req /\ u.left = rop[g].left
         /\ u.file = file
         /\ u.req < nextRequest' /\ u.epoch <= crashes'
         /\ u.req # 0 => Backed(u.req)'
<1>1. crashes' = crashes /\ nextRequest' = nextRequest /\ crashes \in Nat /\ crashes \in 0..MaxCrashes
  BY AloneBroker, AccessTypes
<1>2. /\ rop[g].req \in RequestIds \cup {0} /\ rop[g].tok \in Tokens \cup {0} /\ rop[g].left \in 0..SecretCount
      /\ rop[g].req < nextRequest
  BY CallAt, AccessTypes
<1>3. crashes <= crashes'
  BY <1>1
<1>4. u.req # 0 => Backed(u.req)'
  BY AloneBroker
<1> QED BY <1>1, <1>2, <1>3, <1>4 DEF UseType

\* The call is answered.
LEMMA DoneAlone ==
  ASSUME AccessInv, NEW g \in Readers, Done(g)
  PROVE  /\ rpc' \in [Readers -> ReadSteps] /\ rop' \in [Readers -> ReadCall \cup {NoCall}]
         /\ \A f \in Readers \ {g} : rpc'[f] = rpc[f] /\ rop'[f] = rop[f]
         /\ ReaderInv(g)'
<1>1. /\ rpc' \in [Readers -> ReadSteps] /\ rop' \in [Readers -> ReadCall \cup {NoCall}]
      /\ \A f \in Readers \ {g} : rpc'[f] = rpc[f] /\ rop'[f] = rop[f]
      /\ rpc'[g] = "done" /\ rop'[g] = NoCall
  BY AccessTypes DEF Done, To, ReadSteps
<1> QED BY <1>1 DEF ReaderInv, CallInv, HoldInv, TrailInv, FileInv, Holding, Running, Early

\* The call is refused, or its record is lost and it is refused.
LEMMA RefuseStep ==
  ASSUME AccessInv, NEW g \in Readers, UNCHANGED <<target, confirmed>>, Done(g), used' = used,
         \/ (BrokerQuiet \/ CloseGate) /\ trail' = trail
         \/ rpc[g] \notin {"idle", "done"} /\ \E event \in Records : AuditLost(g, event)
  PROVE  AccessInv'
<1>1. /\ BrokerQuiet \/ CloseGate
      /\ trail \subseteq trail' /\ trail' \subseteq Readers \X Records \X (0..SecretCount)
  BY RecordTypes, AccessTypes DEF AccessTypeOK
<1>2. Alone(g)
  BY <1>1, DoneAlone DEF Alone
<1> QED BY <1>2, DoneAlone, ReaderStepBy

\* A step from one position to another.
LEMMA MoveAlone ==
  ASSUME AccessInv, NEW g \in Readers, NEW s \in ReadSteps, NEW c \in ReadCall, To(g, s),
         rop' = [rop EXCEPT ![g] = c]
  PROVE  /\ rpc' \in [Readers -> ReadSteps] /\ rop' \in [Readers -> ReadCall \cup {NoCall}]
         /\ \A f \in Readers \ {g} : rpc'[f] = rpc[f] /\ rop'[f] = rop[f]
         /\ rpc'[g] = s /\ rop'[g] = c
BY AccessTypes DEF To

\* A step that goes on with the call as it is.
LEMMA GoOnAlone ==
  ASSUME AccessInv, NEW g \in Readers, rpc[g] \notin {"idle", "done"}, NEW s \in ReadSteps, To(g, s),
         rop' = rop
  PROVE  /\ rpc' \in [Readers -> ReadSteps] /\ rop' \in [Readers -> ReadCall \cup {NoCall}]
         /\ \A f \in Readers \ {g} : rpc'[f] = rpc[f] /\ rop'[f] = rop[f]
         /\ rpc'[g] = s /\ rop'[g] = rop[g]
BY AccessTypes DEF To

\* A call enters with nothing read.
LEMMA EnterReads ==
  ASSUME AccessInv, NEW g \in Readers, ReadEnter(g), UNCHANGED <<target, confirmed>> PROVE AccessInv'
<1>1. PICK c \in ReadCalls :
        /\ c.kind # "host" => c.req \in 1..(nextRequest - 1) \/ c.tok \in 1..(nextToken - 1)
        /\ rop' = [rop EXCEPT ![g] = [kind |-> c.kind, agent |-> c.agent, key |-> c.key, req |-> c.req,
             tok |-> c.tok, lease |-> NoLease, left |-> SecretCount, env |-> FALSE, file |-> {}]]
        /\ To(g, FirstStep(c.kind))
  BY DEF ReadEnter
<1> DEFINE n == [kind |-> c.kind, agent |-> c.agent, key |-> c.key, req |-> c.req,
                 tok |-> c.tok, lease |-> NoLease, left |-> SecretCount, env |-> FALSE, file |-> {}]
           s == FirstStep(c.kind)
<1>2. \/ c.kind \in {"status", "lease"} /\ s = "request" /\ c.req \in RequestIds /\ c.tok = 0 /\ c.key = NoKey
      \/ c.kind = "access" /\ s = "lease" /\ c.req = 0 /\ c.tok \in Tokens /\ c.key \in Keys
      \/ c.kind = "execute" /\ s = "intent" /\ c.req = 0 /\ c.tok \in Tokens /\ c.key \in Keys
      \/ c.kind = "host" /\ s = "runStart" /\ c.req = 0 /\ c.tok = 0 /\ c.key = NoKey
  BY DEF ReadCalls, FirstStep
<1>3. c.agent \in Agents /\ c.kind \in ReadKinds /\ c.req \in RequestIds \cup {0} /\ c.tok \in Tokens \cup {0}
  BY <1>2 DEF ReadCalls, ReadKinds
<1>4. c.req < nextRequest /\ (c.req # 0 <=> c.req \in RequestIds) /\ (c.tok # 0 <=> c.tok \in Tokens)
  BY <1>1, <1>2, AccessTypes DEF RequestIds, Tokens
<1>5. n \in ReadCall
  BY <1>2, <1>3, AccessTypes DEF ReadCall
<1>6. s \in ReadSteps
  BY <1>2 DEF ReadSteps
<1>7. /\ rpc' \in [Readers -> ReadSteps] /\ rop' \in [Readers -> ReadCall \cup {NoCall}]
      /\ \A f \in Readers \ {g} : rpc'[f] = rpc[f] /\ rop'[f] = rop[f]
      /\ rpc'[g] = s /\ rop'[g] = n
  BY <1>1, <1>5, <1>6, MoveAlone
<1>8. BrokerQuiet /\ trail' = trail /\ used' = used
  BY DEF ReadEnter
<1>9. Alone(g) /\ nextRequest' = nextRequest
  BY <1>7, <1>8, AccessTypes DEF Alone, AccessTypeOK, BrokerQuiet, vars
<1>10. n # NoCall
  BY <1>3 DEF NoCall, ReadKinds
<1>11. CallInv(g)'
  BY <1>2, <1>4, <1>7, <1>9, <1>10 DEF CallInv, Holding, Running, Early
<1>12. HoldInv(g)'
  BY <1>2, <1>7 DEF HoldInv, Holding, Running
<1>13. TrailInv(g)' /\ FileInv(g)'
  BY <1>2, <1>7 DEF TrailInv, FileInv, Running
<1> QED BY <1>8, <1>9, <1>11, <1>12, <1>13, ReaderStepBy DEF ReaderInv

\* A status read says what the request is; a lease read goes on to its lease.
LEMMA RequestReads ==
  ASSUME AccessInv, NEW g \in Readers, ReadRequest(g), UNCHANGED <<target, confirmed>> PROVE AccessInv'
<1>1. rpc[g] = "request" /\ BrokerQuiet
  BY DEF ReadRequest, At
<1>2. CASE Refuse(g)
  BY <1>1, <1>2, RefuseStep DEF Refuse
<1>3. CASE To(g, "findLease") /\ UNCHANGED <<rop, used, trail>> /\ rop[g].kind = "lease"
  <2>1. /\ rpc' \in [Readers -> ReadSteps] /\ rop' \in [Readers -> ReadCall \cup {NoCall}]
        /\ \A f \in Readers \ {g} : rpc'[f] = rpc[f] /\ rop'[f] = rop[f]
        /\ rpc'[g] = "findLease" /\ rop'[g] = rop[g]
    BY <1>1, <1>3, GoOnAlone DEF ReadSteps
  <2>2. Alone(g) /\ nextRequest' = nextRequest
    BY <1>1, <1>3, <2>1, AccessTypes DEF Alone, AccessTypeOK, BrokerQuiet, vars
  <2>3. ReaderInv(g) /\ rop[g] # NoCall
    BY <1>1, CallAt
  <2>4. CallInv(g)'
    BY <1>1, <2>1, <2>2, <2>3 DEF ReaderInv, CallInv, Early, Holding, Running
  <2>5. HoldInv(g)' /\ TrailInv(g)' /\ FileInv(g)'
    BY <1>3, <2>1 DEF HoldInv, TrailInv, FileInv, Holding, Running
  <2> QED BY <1>3, <2>2, <2>4, <2>5, ReaderStepBy DEF ReaderInv
<1>4. CASE /\ Done(g) /\ trail' = trail
           /\ used' = IF request[rop[g].req].status = "approved" THEN used \cup {Use(g, "saw")} ELSE used
  <2>1. Alone(g) /\ ReaderInv(g)'
    BY <1>1, <1>4, DoneAlone, AccessTypes DEF Alone, AccessTypeOK
  <2>2. PICK u : u = Use(g, "saw")
    OBVIOUS
  <2>3. ASSUME request[rop[g].req].status = "approved" PROVE u \in UseType /\ UseInv(u)'
    <3>1. u.req = rop[g].req /\ Backed(u.req)
      BY <2>2, <2>3 DEF Use, Backed
    <3>2. rop[g].file \in SUBSET Files /\ "saw" \in Uses
      BY <1>1, CallAt DEF Uses
    <3> QED BY <1>1, <2>1, <2>2, <3>1, <3>2, UseBacked DEF Use, UseInv
  <2> QED BY <1>4, <2>1, <2>2, <2>3, ReaderStepBy
<1> QED BY <1>2, <1>3, <1>4 DEF ReadRequest

\* A lease that is found is one whose request is approved.
LEMMA FindReads ==
  ASSUME AccessInv, NEW g \in Readers, FindLease(g), UNCHANGED <<target, confirmed>> PROVE AccessInv'
<1>1. rpc[g] = "findLease" /\ BrokerQuiet
  BY DEF FindLease, At
<1>2. CASE Refuse(g)
  BY <1>1, <1>2, RefuseStep DEF Refuse
<1>3. ASSUME NEW t \in Tokens, lease[t].req = rop[g].req, Owned(lease[t], g), Done(g),
             used' = used \cup {Use(g, "saw")}, trail' = trail
      PROVE  AccessInv'
  <2>1. Alone(g) /\ ReaderInv(g)'
    BY <1>1, <1>3, DoneAlone, AccessTypes DEF Alone, AccessTypeOK
  <2>2. PICK u : u = Use(g, "saw")
    OBVIOUS
  <2>3. u.req = rop[g].req /\ Backed(u.req)
    <3>1. request[rop[g].req].status = "approved"
      BY <1>3, LeaseApproved, AccessTypes DEF Owned
    <3> QED BY <2>2, <3>1 DEF Use, Backed
  <2>4. rop[g].file \in SUBSET Files /\ "saw" \in Uses
    BY <1>1, CallAt DEF Uses
  <2>5. u \in UseType /\ UseInv(u)'
    BY <1>1, <2>1, <2>2, <2>3, <2>4, UseBacked DEF Use, UseInv
  <2> QED BY <1>3, <2>1, <2>2, <2>5, ReaderStepBy
<1> QED BY <1>2, <1>3 DEF FindLease

\* The reader goes on with a copy of a lease, whose request is approved now.
LEMMA LeaseReads ==
  ASSUME AccessInv, NEW g \in Readers, NEW from, NEW next, GetLease(g, from, next),
         <<from, next>> \in {<<"lease", "check">>, <<"intent", "intentRequest">>, <<"resolve", "approved">>},
         UNCHANGED <<target, confirmed>>
  PROVE  AccessInv'
<1> DEFINE l == lease[rop[g].tok]
<1>1. rpc[g] = from /\ BrokerQuiet /\ from \in {"lease", "intent", "resolve"} /\ next \in Holding
  BY DEF GetLease, At, Holding
<1>2. CASE Refuse(g)
  BY <1>1, <1>2, RefuseStep DEF Refuse
<1>3. CASE /\ Owned(l, g) /\ rop' = [rop EXCEPT ![g].lease = l, ![g].req = l.req]
           /\ To(g, next) /\ UNCHANGED <<trail, used>>
  <2>1. ReaderInv(g) /\ rop[g] \in ReadCall /\ rop[g] # NoCall /\ rop[g].tok \in Tokens \cup {0}
    BY <1>1, CallAt
  <2>2. rop[g].tok \in Tokens
    BY <1>1, <2>1 DEF ReaderInv, CallInv, Holding
  <2>3. /\ l \in Lease /\ l # NoLease /\ l.req \in RequestIds /\ request[l.req].status = "approved"
        /\ request[l.req] # NoRequest
    BY <1>3, <2>2, LeaseApproved, AccessTypes DEF Owned
  <2>4. l.req < nextRequest /\ l.req # 0
    BY <2>3, RequestsHandedOut DEF RequestIds
  <2> DEFINE n == [rop[g] EXCEPT !.lease = l, !.req = l.req]
  <2>5. n \in ReadCall /\ n.lease = l /\ n.req = l.req /\ n.tok = rop[g].tok /\ n.kind = rop[g].kind
        /\ n.left = rop[g].left /\ n.env = rop[g].env
    BY <2>1, <2>3 DEF ReadCall
  <2>6. n # NoCall
    BY <2>5 DEF NoCall, ReadCall, ReadKinds
  <2>7. rop' = [rop EXCEPT ![g] = n] /\ next \in ReadSteps
    BY <1>1, <1>3, AccessTypes DEF ReadSteps, Holding
  <2> HIDE DEF n, l
  <2>8. /\ rpc' \in [Readers -> ReadSteps] /\ rop' \in [Readers -> ReadCall \cup {NoCall}]
        /\ \A f \in Readers \ {g} : rpc'[f] = rpc[f] /\ rop'[f] = rop[f]
        /\ rpc'[g] = next /\ rop'[g] = n
    BY <1>3, <2>5, <2>7, MoveAlone
  <2>9. Alone(g)
    BY <1>1, <1>3, <2>8, AccessTypes DEF Alone, AccessTypeOK
  <2>10. UNCHANGED <<request, nextRequest, confirmed>>
    BY <2>9, AloneBroker
  <2>11. CallInv(g)'
    BY <1>1, <2>1, <2>2, <2>4, <2>5, <2>6, <2>8, <2>10 DEF ReaderInv, CallInv, Early, Holding, Running
  <2>12. HoldInv(g)'
    BY <1>1, <2>3, <2>4, <2>5, <2>8, <2>10 DEF HoldInv, Holding, Running, Backed
  <2>13. TrailInv(g)' /\ FileInv(g)'
    BY <1>1, <2>1, <2>5, <2>8 DEF ReaderInv, CallInv, TrailInv, FileInv, Running
  <2> QED BY <1>3, <2>9, <2>11, <2>12, <2>13, ReaderStepBy DEF ReaderInv
<1> QED BY <1>2, <1>3 DEF GetLease

\* The checks on the copy, and on the request it names, change nothing.
LEMMA CheckReads ==
  ASSUME AccessInv, NEW g \in Readers, CheckLease(g) \/ CheckIntent(g), UNCHANGED <<target, confirmed>>
  PROVE  AccessInv'
<1>1. rpc[g] \in {"check", "intentRequest"} /\ BrokerQuiet
  BY DEF CheckLease, CheckIntent, At
<1>2. CASE Refuse(g)
  BY <1>1, <1>2, RefuseStep DEF Refuse
<1>3. ASSUME NEW next, <<rpc[g], next>> \in {<<"check", "started">>, <<"intentRequest", "resolve">>},
             To(g, next), UNCHANGED <<rop, trail, used>>
      PROVE  AccessInv'
  <2>1. next \in {"started", "resolve"} /\ next \in ReadSteps /\ (next = "started" <=> rpc[g] = "check")
    BY <1>3 DEF ReadSteps
  <2>2. /\ rpc' \in [Readers -> ReadSteps] /\ rop' \in [Readers -> ReadCall \cup {NoCall}]
        /\ \A f \in Readers \ {g} : rpc'[f] = rpc[f] /\ rop'[f] = rop[f]
        /\ rpc'[g] = next /\ rop'[g] = rop[g]
    BY <1>1, <1>3, <2>1, GoOnAlone
  <2>3. Alone(g)
    BY <1>1, <1>3, <2>2, AccessTypes DEF Alone, AccessTypeOK
  <2>4. /\ UNCHANGED <<request, nextRequest, confirmed>> /\ (durabilityClosed => durabilityClosed')
        /\ ReaderInv(g) /\ rop[g] # NoCall
    BY <1>1, <2>3, AloneBroker, CallAt
  <2>5. CallInv(g)'
    BY <1>1, <2>1, <2>2, <2>4 DEF ReaderInv, CallInv, Early, Holding, Running
  <2>6. HoldInv(g)'
    BY <1>1, <2>1, <2>2, <2>4 DEF ReaderInv, HoldInv, Holding, Running, Backed
  <2>7. TrailInv(g)' /\ FileInv(g)'
    BY <1>1, <2>1, <2>2, <2>4 DEF ReaderInv, CallInv, TrailInv, FileInv, Running, Early
  <2> QED BY <1>3, <2>3, <2>5, <2>6, <2>7, ReaderStepBy DEF ReaderInv
<1> QED BY <1>2, <1>3 DEF CheckLease, CheckIntent, At

\* A refusal by policy, whose record may be lost.
LEMMA PolicyReads ==
  ASSUME AccessInv, NEW g \in Readers, RefuseByPolicy(g), UNCHANGED <<target, confirmed>> PROVE AccessInv'
<1>1. Refuse(g) /\ (BrokerQuiet \/ CloseGate)
  BY DEF RefuseByPolicy, CloseGate
<1> QED BY <1>1, RefuseStep DEF Refuse

\* An execution learns whether its request named an env_path; if it did not,
\* no file was confirmed for it.
LEMMA ResolveReads ==
  ASSUME AccessInv, NEW g \in Readers, ResolveApproved(g), UNCHANGED <<target, confirmed>> PROVE AccessInv'
<1> DEFINE e == request[rop[g].req].envPath
           s == IF e THEN "started" ELSE "check"
<1>1. rpc[g] = "approved" /\ BrokerQuiet
  BY DEF ResolveApproved, At
<1>2. CASE Refuse(g)
  BY <1>1, <1>2, RefuseStep DEF Refuse
<1>3. CASE /\ Approved(g) /\ rop' = [rop EXCEPT ![g].env = e] /\ To(g, s)
           /\ UNCHANGED <<trail, used>>
  <2>1. ReaderInv(g) /\ rop[g] \in ReadCall /\ rop[g] # NoCall /\ rop[g].left = SecretCount
    BY <1>1, CallAt DEF ReaderInv, CallInv, Early
  <2>2. rop[g].req \in RequestIds /\ rop[g].req # 0 /\ rop[g].lease # NoLease /\ rop[g].req = rop[g].lease.req
    BY <1>1, HeldRequest DEF Holding, ReaderInv, HoldInv, NoLease, Lease
  <2>3. request[rop[g].req] \in LeaseRequest /\ request[rop[g].req] # NoRequest
    BY <1>3, <2>2, AccessTypes DEF Approved, Owned
  <2>4. e \in BOOLEAN /\ (~e => confirmed[rop[g].req] = {})
    BY <2>2, <2>3 DEF LeaseRequest, AccessInv, ConfirmedInv
  <2> DEFINE n == [rop[g] EXCEPT !.env = e]
  <2>5. /\ n \in ReadCall /\ n.lease = rop[g].lease /\ n.req = rop[g].req /\ n.tok = rop[g].tok
        /\ n.kind = rop[g].kind /\ n.left = rop[g].left /\ n.env = e
    BY <2>1, <2>4 DEF ReadCall
  <2>6. n # NoCall
    BY <2>5 DEF NoCall, ReadCall, ReadKinds
  <2>7. rop' = [rop EXCEPT ![g] = n] /\ s \in ReadSteps
    BY <1>3, AccessTypes DEF ReadSteps
  <2>8. (s = "started" /\ e) \/ (s = "check" /\ ~e)
    BY <2>4
  <2> HIDE DEF n, e, s
  <2>9. /\ rpc' \in [Readers -> ReadSteps] /\ rop' \in [Readers -> ReadCall \cup {NoCall}]
        /\ \A f \in Readers \ {g} : rpc'[f] = rpc[f] /\ rop'[f] = rop[f]
        /\ rpc'[g] = s /\ rop'[g] = n
    BY <1>3, <2>5, <2>7, MoveAlone
  <2>10. Alone(g)
    BY <1>1, <1>3, <2>9, AccessTypes DEF Alone, AccessTypeOK
  <2>11. UNCHANGED <<request, nextRequest, confirmed>> /\ (durabilityClosed => durabilityClosed')
    BY <2>10, AloneBroker
  <2>12. CallInv(g)'
    BY <1>1, <2>1, <2>5, <2>6, <2>8, <2>9, <2>11 DEF ReaderInv, CallInv, Early, Holding, Running
  <2>13. HoldInv(g)'
    BY <1>1, <2>1, <2>2, <2>5, <2>8, <2>9, <2>11 DEF ReaderInv, HoldInv, Holding, Running, Backed
  <2>14. TrailInv(g)'
    BY <2>1, <2>5, <2>8, <2>9, AccessTypes DEF TrailInv
  <2>15. FileInv(g)'
    BY <2>4, <2>5, <2>8, <2>9, <2>11 DEF FileInv, Running
  <2> QED BY <1>3, <2>10, <2>12, <2>13, <2>14, <2>15, ReaderStepBy DEF ReaderInv
<1> QED BY <1>2, <1>3 DEF ResolveApproved

\* The start is recorded: for the secret that comes next, or for all of them
\* one by one.
LEMMA StartedReads ==
  ASSUME AccessInv, NEW g \in Readers, AuditStarted(g), UNCHANGED <<target, confirmed>> PROVE AccessInv'
<1> DEFINE event == "secret_access_started"
<1>1. rpc[g] = "started" /\ used' = used /\ event \in Records
  BY DEF AuditStarted, At, Records
<1>2. CASE AuditLost(g, event) /\ Done(g)
  BY <1>1, <1>2, RefuseStep
<1>3. CASE Audited(g, event) /\ ~(AuditLost(g, event) /\ Done(g))
  <2> DEFINE k == IF MoreToStart(g) THEN rop[g].left - 1 ELSE IF rop[g].env THEN SecretCount ELSE rop[g].left
             s == IF MoreToStart(g) THEN "started" ELSE "backend"
             n == [rop[g] EXCEPT !.left = k]
  <2>1. ReaderInv(g) /\ rop[g] \in ReadCall /\ rop[g] # NoCall /\ rop[g].left \in 1..SecretCount
        /\ rop[g].env \in BOOLEAN
    BY <1>1, CallAt
  <2>2. k \in 1..SecretCount
    BY <2>1, AccessTypes DEF MoreToStart
  <2>3. rop' = [rop EXCEPT ![g] = n]
    BY <1>1, <1>3, AccessTypes DEF AuditStarted
  <2>4. To(g, s)
    <3>1. CASE MoreToStart(g)
      BY <1>1, <1>3, <3>1, AccessTypes DEF AuditStarted, To, At
    <3>2. CASE ~MoreToStart(g)
      BY <1>1, <1>3, <3>2 DEF AuditStarted
    <3> QED BY <3>1, <3>2
  <2>5. /\ n \in ReadCall /\ n.lease = rop[g].lease /\ n.req = rop[g].req /\ n.tok = rop[g].tok
        /\ n.kind = rop[g].kind /\ n.left = k /\ n.env = rop[g].env
    BY <2>1, <2>2 DEF ReadCall
  <2>6. n # NoCall
    BY <2>5 DEF NoCall, ReadCall, ReadKinds
  <2>7. s \in ReadSteps /\ s \in {"started", "backend"}
    BY DEF ReadSteps
  <2>8. \/ s = "started" /\ rop[g].env /\ k = rop[g].left - 1
        \/ s = "backend" /\ rop[g].env /\ rop[g].left = 1
        \/ s = "backend" /\ ~rop[g].env /\ k = rop[g].left
    BY <2>1, AccessTypes DEF MoreToStart
  <2>9. Started(g, rop[g].left) \in trail' /\ trail \subseteq trail'
    BY <1>3 DEF Audited, Record, Started
  <2> HIDE DEF n, s, k
  <2>10. /\ rpc' \in [Readers -> ReadSteps] /\ rop' \in [Readers -> ReadCall \cup {NoCall}]
         /\ \A f \in Readers \ {g} : rpc'[f] = rpc[f] /\ rop'[f] = rop[f]
         /\ rpc'[g] = s /\ rop'[g] = n
    BY <2>3, <2>4, <2>5, <2>7, MoveAlone
  <2>11. Alone(g)
    BY <1>1, <1>3, <2>10, RecordTypes DEF Alone
  <2>12. UNCHANGED <<request, nextRequest, confirmed>> /\ (durabilityClosed => durabilityClosed')
    BY <2>11, AloneBroker
  <2>13. CallInv(g)'
    BY <1>1, <2>1, <2>5, <2>6, <2>7, <2>10, <2>12 DEF ReaderInv, CallInv, Early, Holding, Running
  <2>14. HoldInv(g)'
    BY <1>1, <2>1, <2>5, <2>7, <2>10, <2>12 DEF ReaderInv, HoldInv, Holding, Running, Backed
  <2>15. rop[g].env => \A i \in 1..SecretCount : i >= rop[g].left => Started(g, i) \in trail'
    <3>1. rop[g].env => \A i \in 1..SecretCount : i > rop[g].left => Started(g, i) \in trail
      BY <1>1, <2>1 DEF ReaderInv, TrailInv
    <3>2. \A i \in 1..SecretCount : i >= rop[g].left => i > rop[g].left \/ i = rop[g].left
      BY <2>1
    <3> QED BY <2>9, <3>1, <3>2
  <2>16. TrailInv(g)'
    <3>1. CASE s = "started"
      <4>1. \A i \in 1..SecretCount : i > k => i >= rop[g].left
        BY <2>1, <2>8, <3>1
      <4> QED BY <2>5, <2>8, <2>10, <2>15, <3>1, <4>1 DEF TrailInv
    <3>2. CASE s = "backend"
      <4>1. rop[g].env => \A i \in 1..SecretCount : Started(g, i) \in trail'
        BY <2>1, <2>8, <2>15, <3>2
      <4>2. Started(g, k) \in trail'
        BY <2>2, <2>8, <2>9, <3>2, <4>1
      <4> QED BY <2>5, <2>10, <3>2, <4>1, <4>2 DEF TrailInv
    <3> QED BY <2>7, <3>1, <3>2
  <2>17. FileInv(g)'
    BY <1>1, <2>1, <2>5, <2>7, <2>10, <2>12 DEF ReaderInv, FileInv, Running
  <2> QED BY <1>1, <2>11, <2>13, <2>14, <2>16, <2>17, ReaderStepBy DEF ReaderInv
<1> QED BY <1>2, <1>3 DEF AuditStarted

\* A read comes after the records of its start, and an execution that reads an
\* env file reads the one that was confirmed.
LEMMA SecretReads ==
  ASSUME AccessInv, NEW g \in Readers, ReadSecret(g), UNCHANGED <<target, confirmed>> PROVE AccessInv'
<1> DEFINE fs == IF rop[g].env THEN {target} ELSE {}
<1>1. rpc[g] = "backend" /\ BrokerQuiet
  BY DEF ReadSecret, At
<1>2. CASE Refuse(g)
  BY <1>1, <1>2, RefuseStep DEF Refuse
<1>3. CASE /\ rop[g].env => AsApproved(g)
           /\ rop' = [rop EXCEPT ![g].file = fs]
           /\ used' = used \cup {[Use(g, "read") EXCEPT !.file = rop'[g].file]}
           /\ To(g, "accessed") /\ UNCHANGED trail
  <2>1. ReaderInv(g) /\ rop[g] \in ReadCall /\ rop[g] # NoCall /\ rop[g].env \in BOOLEAN
    BY <1>1, CallAt
  <2>2. rop[g].req \in RequestIds /\ Backed(rop[g].req)
    BY <1>1, HeldRequest DEF Holding
  <2>3. target \in Files
    BY AccessTypes DEF AccessTypeOK
  <2>4. fs \in SUBSET Files /\ (fs # {} => rop[g].env)
    BY <2>3
  <2>5. rop[g].kind = "execute" => fs = confirmed[rop[g].req]
    BY <1>1, <1>3, <2>1 DEF AsApproved, ReaderInv, FileInv
  <2> DEFINE n == [rop[g] EXCEPT !.file = fs]
  <2>6. /\ n \in ReadCall /\ n.lease = rop[g].lease /\ n.req = rop[g].req /\ n.tok = rop[g].tok
        /\ n.kind = rop[g].kind /\ n.left = rop[g].left /\ n.env = rop[g].env /\ n.file = fs
    BY <2>1, <2>4 DEF ReadCall
  <2>7. n # NoCall
    BY <2>6 DEF NoCall, ReadCall, ReadKinds
  <2>8. rop' = [rop EXCEPT ![g] = n]
    BY <1>3, AccessTypes
  <2> HIDE DEF n, fs
  <2>9. /\ rpc' \in [Readers -> ReadSteps] /\ rop' \in [Readers -> ReadCall \cup {NoCall}]
        /\ \A f \in Readers \ {g} : rpc'[f] = rpc[f] /\ rop'[f] = rop[f]
        /\ rpc'[g] = "accessed" /\ rop'[g] = n
    BY <1>3, <2>6, <2>8, MoveAlone DEF ReadSteps
  <2>10. Alone(g)
    BY <1>1, <1>3, <2>9, AccessTypes DEF Alone, AccessTypeOK
  <2>11. UNCHANGED <<request, nextRequest, confirmed>> /\ (durabilityClosed => durabilityClosed')
    BY <2>10, AloneBroker
  <2>12. CallInv(g)'
    BY <1>1, <2>1, <2>6, <2>7, <2>9, <2>11 DEF ReaderInv, CallInv, Early, Holding, Running
  <2>13. HoldInv(g)'
    BY <1>1, <2>1, <2>6, <2>9, <2>11 DEF ReaderInv, HoldInv, Holding, Running, Backed
  <2>14. TrailInv(g)'
    BY <1>1, <1>3, <2>1, <2>6, <2>9 DEF ReaderInv, TrailInv
  <2>15. FileInv(g)'
    BY <1>1, <2>1, <2>5, <2>6, <2>9, <2>11 DEF ReaderInv, FileInv, Running
  <2>16. PICK u : u = [Use(g, "read") EXCEPT !.file = rop'[g].file]
    OBVIOUS
  <2>17. u = [by |-> g, what |-> "read", req |-> rop[g].req, tok |-> rop[g].tok, left |-> rop[g].left,
              epoch |-> crashes, file |-> fs]
    BY <2>6, <2>9, <2>16 DEF Use
  <2>18. /\ u \in UseType /\ u.by = g /\ u.what = "read" /\ u.left = rop[g].left /\ u.file = fs
         /\ u.req < nextRequest' /\ u.epoch <= crashes' /\ (u.req # 0 => Backed(u.req)')
    BY <1>1, <2>2, <2>4, <2>10, <2>17, UseBacked DEF Uses
  <2>19. UseInv(u)'
    BY <1>1, <1>3, <2>1, <2>4, <2>18 DEF UseInv, ReaderInv, TrailInv
  <2> QED BY <1>3, <2>10, <2>12, <2>13, <2>14, <2>15, <2>16, <2>18, <2>19, ReaderStepBy DEF ReaderInv
<1> QED BY <1>2, <1>3 DEF ReadSecret

\* The access is recorded, then the value is given out and the reader answers,
\* takes the next secret, or runs.
LEMMA AccessedReads ==
  ASSUME AccessInv, NEW g \in Readers, AuditAccessed(g), UNCHANGED <<target, confirmed>> PROVE AccessInv'
<1> DEFINE event == "secret_access"
<1>1. rpc[g] = "accessed" /\ event \in Records
  BY DEF AuditAccessed, At, Records
<1>2. CASE AuditLost(g, event) /\ Done(g) /\ UNCHANGED used
  BY <1>1, <1>2, RefuseStep
<1>3. CASE Audited(g, event) /\ used' = used \cup {Use(g, "delivered")}
           /\ CASE AfterSecret(g) = "done"     -> Done(g)
                [] AfterSecret(g) = "runStart" -> To(g, "runStart") /\ UNCHANGED rop
                [] OTHER -> /\ To(g, AfterSecret(g))
                            /\ rop' = [rop EXCEPT ![g].left = @ - 1]
  <2>1. ReaderInv(g) /\ rop[g] \in ReadCall /\ rop[g] # NoCall /\ rop[g].left \in 1..SecretCount
        /\ rop[g].file \in SUBSET Files /\ rop[g].env \in BOOLEAN
    BY <1>1, CallAt
  <2>2. rop[g].req \in RequestIds /\ rop[g].req # 0 /\ Backed(rop[g].req)
    BY <1>1, HeldRequest DEF Holding
  <2>3. /\ trail \subseteq trail' /\ <<g, event, rop[g].left>> \in trail' /\ BrokerQuiet
    BY <1>3 DEF Audited, Record
  <2>4. trail' \subseteq Readers \X Records \X (0..SecretCount)
    BY <1>1, <1>3, RecordTypes
  <2>5. /\ rop[g].kind = "access" => AfterSecret(g) = "done"
        /\ rop[g].kind # "access" /\ rop[g].left = 1 => AfterSecret(g) = "runStart"
        /\ rop[g].kind # "access" /\ rop[g].left # 1 /\ rop[g].env => AfterSecret(g) = "accessed"
        /\ rop[g].kind # "access" /\ rop[g].left # 1 /\ ~rop[g].env => AfterSecret(g) = "check"
    BY <2>1 DEF AfterSecret
  <2>6. PICK u : u = Use(g, "delivered")
    OBVIOUS
  <2>7. ASSUME Alone(g) PROVE u \in UseType /\ UseInv(u)'
    <3>1. /\ u \in UseType /\ u.by = g /\ u.what = "delivered" /\ u.left = rop[g].left
          /\ u.req < nextRequest' /\ u.epoch <= crashes' /\ (u.req # 0 => Backed(u.req)')
      BY <1>1, <2>1, <2>2, <2>6, <2>7, UseBacked DEF Use, Uses
    <3>2. Started(u.by, u.left) \in trail'
      BY <1>1, <2>1, <2>3, <3>1 DEF ReaderInv, TrailInv
    <3> QED BY <2>3, <3>1, <3>2 DEF UseInv
  <2>8. CASE AfterSecret(g) = "done"
    <3>1. Alone(g) /\ ReaderInv(g)'
      BY <1>3, <2>3, <2>4, <2>8, DoneAlone DEF Alone
    <3> QED BY <1>3, <2>6, <2>7, <3>1, ReaderStepBy
  <2>9. CASE AfterSecret(g) = "runStart"
    <3>0. rop[g].kind = "execute"
      BY <1>1, <2>1, <2>9, <2>5 DEF ReaderInv, CallInv, Holding
    <3>1. To(g, "runStart") /\ UNCHANGED rop /\ rop[g].kind = "execute"
      BY <1>3, <2>9, <3>0
    <3>2. /\ rpc' \in [Readers -> ReadSteps] /\ rop' \in [Readers -> ReadCall \cup {NoCall}]
          /\ \A f \in Readers \ {g} : rpc'[f] = rpc[f] /\ rop'[f] = rop[f]
          /\ rpc'[g] = "runStart" /\ rop'[g] = rop[g]
      BY <1>1, <3>1, GoOnAlone DEF ReadSteps
    <3>3. Alone(g)
      BY <2>3, <2>4, <3>2 DEF Alone
    <3>4. UNCHANGED <<request, nextRequest, confirmed>> /\ (durabilityClosed => durabilityClosed')
      BY <3>3, AloneBroker
    <3>5. CallInv(g)' /\ TrailInv(g)'
      BY <1>1, <2>1, <3>1, <3>2, <3>4 DEF ReaderInv, CallInv, TrailInv, Early, Holding, Running
    <3>6. HoldInv(g)'
      BY <1>1, <2>1, <2>2, <3>2, <3>4 DEF ReaderInv, HoldInv, Holding, Running, Backed
    <3>7. FileInv(g)'
      BY <1>1, <2>1, <3>2, <3>4 DEF ReaderInv, FileInv, Running
    <3> QED BY <1>3, <2>6, <2>7, <3>3, <3>5, <3>6, <3>7, ReaderStepBy DEF ReaderInv
  <2>10. CASE AfterSecret(g) \notin {"done", "runStart"}
    <3> DEFINE s == IF rop[g].env THEN "accessed" ELSE "check"
               n == [rop[g] EXCEPT !.left = rop[g].left - 1]
    <3>1. AfterSecret(g) = s /\ rop[g].left # 1
      BY <2>1, <2>10, <2>5
    <3>2. To(g, s) /\ rop' = [rop EXCEPT ![g] = n]
      BY <1>3, <2>10, <3>1, AccessTypes
    <3>3. rop[g].left - 1 \in 1..SecretCount
      BY <2>1, <3>1, AccessTypes
    <3>4. /\ n \in ReadCall /\ n.lease = rop[g].lease /\ n.req = rop[g].req /\ n.tok = rop[g].tok
          /\ n.kind = rop[g].kind /\ n.left = rop[g].left - 1 /\ n.env = rop[g].env /\ n.file = rop[g].file
      BY <2>1, <3>3 DEF ReadCall
    <3>5. n # NoCall
      BY <3>4 DEF NoCall, ReadCall, ReadKinds
    <3>6. s \in ReadSteps /\ s \in {"accessed", "check"} /\ (s = "accessed" <=> rop[g].env)
      BY <2>1 DEF ReadSteps
    <3> HIDE DEF n, s
    <3>7. /\ rpc' \in [Readers -> ReadSteps] /\ rop' \in [Readers -> ReadCall \cup {NoCall}]
          /\ \A f \in Readers \ {g} : rpc'[f] = rpc[f] /\ rop'[f] = rop[f]
          /\ rpc'[g] = s /\ rop'[g] = n
      BY <3>2, <3>4, <3>6, MoveAlone
    <3>8. Alone(g)
      BY <2>3, <2>4, <3>7 DEF Alone
    <3>9. UNCHANGED <<request, nextRequest, confirmed>> /\ (durabilityClosed => durabilityClosed')
      BY <3>8, AloneBroker
    <3>10. CallInv(g)'
      BY <1>1, <2>1, <3>4, <3>5, <3>6, <3>7, <3>9 DEF ReaderInv, CallInv, Early, Holding, Running
    <3>11. HoldInv(g)'
      BY <1>1, <2>1, <3>4, <3>6, <3>7, <3>9 DEF ReaderInv, HoldInv, Holding, Running, Backed
    <3>12. TrailInv(g)'
      BY <1>1, <2>1, <2>3, <3>3, <3>4, <3>6, <3>7 DEF ReaderInv, TrailInv
    <3>13. FileInv(g)'
      BY <1>1, <2>1, <3>4, <3>6, <3>7, <3>9 DEF ReaderInv, FileInv, Running
    <3> QED BY <1>3, <2>6, <2>7, <3>8, <3>10, <3>11, <3>12, <3>13, ReaderStepBy DEF ReaderInv
  <2> QED BY <2>8, <2>9, <2>10
<1> QED BY <1>2, <1>3 DEF AuditAccessed

\* A command starts when its start is recorded.
LEMMA StartRuns ==
  ASSUME AccessInv, NEW g \in Readers, RunStart(g), UNCHANGED <<target, confirmed>> PROVE AccessInv'
<1> DEFINE event == "execute_with_secret_started"
<1>1. rpc[g] = "runStart" /\ used' = used /\ event \in Records
  BY DEF RunStart, At, Records
<1>2. CASE AuditLost(g, event) /\ Done(g)
  BY <1>1, <1>2, RefuseStep
<1>3. CASE Audited(g, event) /\ To(g, "run") /\ UNCHANGED rop
  <2>1. /\ rpc' \in [Readers -> ReadSteps] /\ rop' \in [Readers -> ReadCall \cup {NoCall}]
        /\ \A f \in Readers \ {g} : rpc'[f] = rpc[f] /\ rop'[f] = rop[f]
        /\ rpc'[g] = "run" /\ rop'[g] = rop[g]
    BY <1>1, <1>3, GoOnAlone DEF ReadSteps
  <2>2. Alone(g)
    BY <1>1, <1>3, <2>1, RecordTypes DEF Alone
  <2>3. /\ UNCHANGED <<request, nextRequest, confirmed>> /\ (durabilityClosed => durabilityClosed')
        /\ ReaderInv(g)
    BY <1>1, <2>2, AloneBroker, CallAt
  <2>4. CallInv(g)' /\ HoldInv(g)'
    BY <1>1, <2>1, <2>3 DEF ReaderInv, CallInv, HoldInv, Early, Holding, Running, Backed
  <2>5. TrailInv(g)' /\ FileInv(g)'
    BY <1>1, <2>1, <2>3 DEF ReaderInv, TrailInv, FileInv, Running
  <2> QED BY <1>1, <2>2, <2>4, <2>5, ReaderStepBy DEF ReaderInv
<1> QED BY <1>2, <1>3 DEF RunStart

\* A command runs on what its reader read.
LEMMA CommandRuns ==
  ASSUME AccessInv, NEW g \in Readers, RunCommand(g), UNCHANGED <<target, confirmed>> PROVE AccessInv'
<1>1. /\ rpc[g] = "run" /\ BrokerQuiet /\ trail' = trail /\ used' = used \cup {Use(g, "ran")}
  BY DEF RunCommand, At
<1>2. ReaderInv(g) /\ rop[g] # NoCall /\ rop[g].file \in SUBSET Files
  BY <1>1, CallAt
<1>3. Alone(g) /\ ReaderInv(g)'
  <2>1. CASE Done(g)
    BY <1>1, <2>1, DoneAlone, AccessTypes DEF Alone, AccessTypeOK, RunCommand
  <2>2. CASE To(g, "runEnd") /\ UNCHANGED rop
    <3>1. /\ rpc' \in [Readers -> ReadSteps] /\ rop' \in [Readers -> ReadCall \cup {NoCall}]
          /\ \A f \in Readers \ {g} : rpc'[f] = rpc[f] /\ rop'[f] = rop[f]
          /\ rpc'[g] = "runEnd" /\ rop'[g] = rop[g]
      BY <1>1, <2>2, GoOnAlone DEF ReadSteps
    <3>2. Alone(g)
      BY <1>1, <3>1, AccessTypes DEF Alone, AccessTypeOK
    <3>3. /\ UNCHANGED <<request, nextRequest, confirmed>> /\ (durabilityClosed => durabilityClosed')
      BY <3>2, AloneBroker
    <3>4. CallInv(g)' /\ HoldInv(g)'
      BY <1>1, <1>2, <3>1, <3>3 DEF ReaderInv, CallInv, HoldInv, Early, Holding, Running, Backed
    <3>5. TrailInv(g)' /\ FileInv(g)'
      BY <1>1, <1>2, <3>1, <3>3 DEF ReaderInv, TrailInv, FileInv, Running
    <3> QED BY <3>2, <3>4, <3>5 DEF ReaderInv
  <2> QED BY <2>1, <2>2 DEF RunCommand
<1>4. PICK u : u = Use(g, "ran")
  OBVIOUS
<1>5. u.req = rop[g].req /\ (u.req # 0 => Backed(u.req))
  BY <1>1, <1>2, <1>4 DEF Use, ReaderInv, HoldInv, Running
<1>6. /\ u \in UseType /\ u.what = "ran" /\ u.file = rop[g].file
      /\ u.req < nextRequest' /\ u.epoch <= crashes' /\ (u.req # 0 => Backed(u.req)')
  BY <1>1, <1>2, <1>3, <1>4, <1>5, UseBacked DEF Use, Uses
<1>7. u.req # 0 => u.file = confirmed'[u.req]
  <2>1. confirmed' = confirmed
    BY <1>3 DEF Alone
  <2>2. rop[g].req # 0 => rop[g].kind = "execute"
    BY <1>1, <1>2 DEF ReaderInv, CallInv, Running
  <2> QED BY <1>1, <1>2, <1>5, <1>6, <2>1, <2>2 DEF ReaderInv, FileInv, Running
<1>8. UseInv(u)'
  BY <1>6, <1>7 DEF UseInv
<1> QED BY <1>1, <1>3, <1>4, <1>6, <1>8, ReaderStepBy

\* The result is answered, recorded or behind a gate that is closed now.
LEMMA EndRuns ==
  ASSUME AccessInv, NEW g \in Readers, RunEnd(g), UNCHANGED <<target, confirmed>> PROVE AccessInv'
<1> DEFINE event == "execute_with_secret"
<1>1. /\ rpc[g] = "runEnd" /\ Done(g) /\ event \in Records /\ used' = used \cup {Use(g, "answered")}
      /\ Audited(g, event) \/ AuditLost(g, event)
  BY DEF RunEnd, At, Records
<1>2. ReaderInv(g) /\ rop[g].file \in SUBSET Files /\ rop[g].left \in 0..SecretCount
  BY <1>1, CallAt, AccessTypes
<1>3. Alone(g) /\ ReaderInv(g)'
  BY <1>1, DoneAlone, RecordTypes DEF Alone, RunEnd
<1>4. PICK u : u = Use(g, "answered")
  OBVIOUS
<1>5. u.req = rop[g].req /\ (u.req # 0 => Backed(u.req))
  BY <1>1, <1>2, <1>4 DEF Use, ReaderInv, HoldInv, Running
<1>6. /\ u \in UseType /\ u.by = g /\ u.what = "answered"
      /\ u.req < nextRequest' /\ u.epoch <= crashes' /\ (u.req # 0 => Backed(u.req)')
  BY <1>1, <1>2, <1>3, <1>4, <1>5, UseBacked DEF Use, Uses
<1>7. <<g, event, rop[g].left>> \in trail' \/ durabilityClosed'
  BY <1>1 DEF Audited, AuditLost, Record
<1>8. UseInv(u)'
  BY <1>2, <1>6, <1>7 DEF UseInv
<1> QED BY <1>1, <1>3, <1>4, <1>6, <1>8, ReaderStepBy

------------------------------------------------------------------------------
(* The theorems *)

\* Every step of the broker and of its readers keeps the invariant.
LEMMA AccessStep == AccessInv /\ [AccessNext]_accessVars => AccessInv'
<1> SUFFICES ASSUME AccessInv, [AccessNext]_accessVars PROVE AccessInv'
  OBVIOUS
<1>1. ASSUME NEW g \in Readers, Read(g) PROVE AccessInv'
  <2>1. UNCHANGED <<target, confirmed>>
    BY <1>1 DEF Read
  <2>2. CASE \/ GetLease(g, "lease", "check") \/ GetLease(g, "intent", "intentRequest")
             \/ GetLease(g, "resolve", "approved")
    BY <2>1, <2>2, LeaseReads
  <2>3. CASE ReadEnter(g) \/ ReadRequest(g) \/ FindLease(g) \/ CheckLease(g) \/ CheckIntent(g)
    BY <2>1, <2>3, EnterReads, RequestReads, FindReads, CheckReads
  <2>4. CASE AuditStarted(g) \/ ReadSecret(g) \/ AuditAccessed(g) \/ RefuseByPolicy(g) \/ ResolveApproved(g)
    BY <2>1, <2>4, StartedReads, SecretReads, AccessedReads, PolicyReads, ResolveReads
  <2>5. CASE RunStart(g) \/ RunCommand(g) \/ RunEnd(g)
    BY <2>1, <2>5, StartRuns, CommandRuns, EndRuns
  <2> QED BY <1>1, <2>2, <2>3, <2>4, <2>5 DEF Read
<1> QED BY <1>1, MutateStep, RestartStep, QuietStep DEF AccessNext

\* The broker starts with idle readers.
LEMMA AccessStarts == AccessInit => AccessInv
<1> SUFFICES ASSUME AccessInit PROVE AccessInv
  OBVIOUS
<1>1. PairInv
  BY PairInit DEF AccessInit
<1>2. /\ \A g \in Readers : rpc[g] = "idle" /\ rop[g] = NoCall
      /\ trail = {} /\ used = {} /\ target \in Files
      /\ \A r \in RequestIds : confirmed[r] = {}
  BY DEF AccessInit
<1>3. AccessTypeOK
  BY DEF AccessInit, AccessTypeOK, ReadSteps
<1>4. ConfirmedInv
  BY <1>2 DEF ConfirmedInv
<1>5. \A g \in Readers : ReaderInv(g)
  BY <1>2 DEF ReaderInv, CallInv, HoldInv, TrailInv, FileInv, Holding, Running, Early
<1> QED BY <1>1, <1>2, <1>3, <1>4, <1>5 DEF AccessInv

\* What readers hold, have recorded and have used fits, at every point of every
\* mutation, rollback and restart, what the broker holds (access.go and
\* execute.go read without MutationLock).
THEOREM AccessInvariant == AccessSpec => []AccessInv
BY AccessStarts, AccessStep, PTL DEF AccessSpec

\* A reader that finds a lease finds its request approved, at any point of any
\* mutation (the order in which ApproveRequest and its undo change the stores).
THEOREM LeaseImpliesApprovedHolds == AccessSpec => []LeaseImpliesApproved
<1>1. AccessInv => LeaseImpliesApproved
  BY LeaseApproved DEF AccessInv, LeaseImpliesApproved
<1> QED BY <1>1, AccessInvariant, PTL

\* An approval an agent saw or acted on before it was answered is never undone
\* unnoticed: the gate is closed from then on, until a restart.
THEOREM SeenApprovalBackedHolds == AccessSpec => []SeenApprovalBacked
<1>1. AccessInv => SeenApprovalBacked
  BY DEF AccessInv, UseInv, Backed, SeenApprovalBacked
<1> QED BY <1>1, AccessInvariant, PTL

\* Secret material is read only after its start was recorded, and given out
\* only after the access was (auditCritical before and after the backend).
THEOREM AccessAuditGatedHolds == AccessSpec => []AccessAuditGated
<1>1. AccessInv => AccessAuditGated
  BY DEF AccessInv, UseInv, Started, AccessAuditGated
<1> QED BY <1>1, AccessInvariant, PTL

\* A command whose result was answered without a record of it leaves the gate
\* closed (the audit_warning path).
THEOREM LostResultClosesGateHolds == AccessSpec => []LostResultClosesGate
<1>1. AccessInv => LostResultClosesGate
  BY DEF AccessInv, UseInv, LostResultClosesGate
<1> QED BY <1>1, AccessInvariant, PTL

\* A command ran on an env file exactly when its request named an env_path, and
\* then on the file the operator confirmed, wherever the link points now.
THEOREM EnvPathAsApprovedHolds == AccessSpec => []EnvPathAsApproved
<1>1. AccessInv => EnvPathAsApproved
  BY DEF AccessInv, UseInv, EnvPathAsApproved
<1> QED BY <1>1, AccessInvariant, PTL
==============================================================================
