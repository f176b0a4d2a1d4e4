----------------------------- MODULE LeaseBroker -----------------------------
(***************************************************************************)
(* The lease lifecycle of promptlockd: app.Service (request, approve,      *)
(* deny, cancel) called by concurrent HTTP handlers, over the memory store *)
(* persisted to state_store_file, with the audit gate and the durability   *)
(* gate.                                                                   *)
(*                                                                         *)
(* A mutation runs under Service.MutationLock.  It changes the memory      *)
(* store, commits a snapshot of it to the file, then writes its audit      *)
(* record; when the commit or the record fails it closes the durability    *)
(* gate, undoes the change in memory and commits once more.  Each of these *)
(* is a step here, because crashes, other handlers' gate checks and the    *)
(* lock-free readers (module SecretAccess) come in between.                *)
(*                                                                         *)
(* Request ids and lease tokens are random in the code and are never       *)
(* reused; here they are handed out in order.                              *)
(***************************************************************************)
EXTENDS Naturals, FiniteSets

CONSTANTS
  Handlers,     \* goroutines serving one HTTP call at a time
  NoHandler,    \* owner of MutationLock when it is free
  Agents,       \* authenticated agent ids
  Keys,         \* equivalence keys: intent, secret set and fingerprints
  Operator,     \* the actor of approve and deny
  NoKey,        \* the key field of a call that carries none
  MinTtl, MaxTtl,   \* Policy.MinTTLMinutes, Policy.MaxTTLMinutes
  TtlInputs,        \* ttl_minutes values callers send
  MaxPending,       \* RequestPolicy.MaxPendingPerAgent
  Cooldown,         \* RequestPolicy.IdenticalRequestCooldown
  Reuse,            \* RequestPolicy.EnableActiveLeaseReuse
  MaxRequests, MaxTokens,         \* bounds on ids and tokens handed out
  MaxClock, MaxFaults, MaxCrashes \* bounds on time, I/O errors and crashes

ASSUME HandlersAssumption == NoHandler \notin Handlers
ASSUME ActorsAssumption   == Operator \notin Agents /\ NoKey \notin Keys
ASSUME PolicyAssumption   ==
  /\ MinTtl \in Nat \ {0} /\ MaxTtl \in Nat /\ TtlInputs \subseteq Nat
  /\ MaxPending \in Nat \ {0} /\ Cooldown \in Nat \ {0} /\ Reuse \in BOOLEAN
ASSUME BoundsAssumption   ==
  /\ MaxRequests \in Nat /\ MaxTokens \in Nat
  /\ MaxClock \in Nat /\ MaxFaults \in Nat /\ MaxCrashes \in Nat

VARIABLES
  request,          \* memory store: request id -> LeaseRequest
  lease,            \* memory store: lease token -> Lease
  disk,             \* contents of state_store_file
  durabilityClosed, \* server.durabilityClosed
  lock,             \* owner of Service.MutationLock
  pc, op,           \* each handler's position and the call it serves
  journal,          \* audit records in the audit file
  acked,            \* successful replies sent to callers (history)
  nextRequest, nextToken, clock, faults, crashes

store   == <<request, lease>>
history == <<journal, acked>>
ids     == <<nextRequest, nextToken>>
env     == <<clock, faults, crashes>>
vars    == <<request, lease, disk, durabilityClosed, lock, pc, op, journal,
             acked, nextRequest, nextToken, clock, faults, crashes>>

RequestIds == 1..MaxRequests
Tokens     == 1..MaxTokens

------------------------------------------------------------------------------
(* Data *)

LeaseRequest == [agent: Agents, key: Keys, envPath: BOOLEAN, ttl: Nat,
                 created: Nat, status: {"pending", "approved", "denied"}]
NoRequest    == [status |-> "absent"]
Lease        == [req: RequestIds, agent: Agents, key: Keys, expires: Nat]
NoLease      == [req |-> 0]
Snapshot     == [request: [RequestIds -> LeaseRequest \cup {NoRequest}],
                 lease:   [Tokens -> Lease \cup {NoLease}]]

Decisions == {"approve", "deny", "cancel"}
Call      == [kind: {"request"}, agent: Agents, key: Keys, envPath: BOOLEAN,
              ttl: Nat, req: RequestIds \cup {0}, tok: {0}]
             \cup
             [kind: Decisions, agent: Agents \cup {Operator}, key: {NoKey},
              envPath: {FALSE}, ttl: Nat, req: RequestIds, tok: Tokens \cup {0}]
NoCall    == [kind |-> "none"]

RequestCalls == [kind: {"request"}, agent: Agents, key: Keys, envPath: BOOLEAN,
                 ttl: TtlInputs \ {0}, req: {0}, tok: {0}]
ApproveCalls == [kind: {"approve"}, agent: {Operator}, key: {NoKey},
                 envPath: {FALSE}, ttl: TtlInputs, req: RequestIds, tok: {0}]
DenyCalls    == [kind: {"deny"}, agent: {Operator}, key: {NoKey},
                 envPath: {FALSE}, ttl: {0}, req: RequestIds, tok: {0}]
CancelCalls  == [kind: {"cancel"}, agent: Agents, key: {NoKey},
                 envPath: {FALSE}, ttl: {0}, req: RequestIds, tok: {0}]

Replies == {"pending", "approved", "denied", "reused"}
Events  == {"request_created", "request_approved", "request_denied",
            "request_cancelled_by_agent", "request_reused_active_lease"}
Steps   == {"idle", "waiting", "saveLease", "commit", "audit", "undoLease",
            "undoRequest", "recommit"}

SuccessEvent(kind) == CASE kind = "request" -> "request_created"
                        [] kind = "approve" -> "request_approved"
                        [] kind = "deny"    -> "request_denied"
                        [] OTHER            -> "request_cancelled_by_agent"

DecisionStatus_Cancelled(kind) ==
  CASE kind = "approve" -> "approved" [] kind = "cancel" -> "cancelled"
    [] OTHER -> "denied"
\* The status the three decisions set: a cancelled request is a denied one.
DecisionStatus(kind) == IF kind = "approve" THEN "approved" ELSE "denied"

SuccessReply(kind) ==
  IF kind = "request" THEN "pending" ELSE DecisionStatus(kind)

Memory == [request |-> request, lease |-> lease]

------------------------------------------------------------------------------
(* Policy *)

TtlAllowed(t) == t \in MinTtl..MaxTtl

ApproveTtl(c) == IF c.ttl = 0 THEN request[c.req].ttl ELSE c.ttl

Equivalent(x, y) == x.agent = y.agent /\ x.key = y.key

IsExpired(l) == clock >= l.expires

Live(t) == lease[t] # NoLease /\ ~IsExpired(lease[t])

\* findEquivalentActiveLease, skipped when the request names an env_path.
Reusable(c) ==
  {t \in Tokens : Reuse /\ ~c.envPath /\ Live(t) /\ Equivalent(lease[t], c)}

IsPending(r) == request[r].status = "pending"

PendingOf(a) == {r \in RequestIds : IsPending(r) /\ request[r].agent = a}

AtPendingCap_OffByOne(a) == Cardinality(PendingOf(a)) > MaxPending
AtPendingCap(a) == Cardinality(PendingOf(a)) >= MaxPending

CoolingDown_Latest(c) ==
  \E r \in RequestIds : /\ IsPending(r) /\ Equivalent(request[r], c)
                        /\ clock > request[r].created + Cooldown
\* Some equivalent pending request is younger than the cooldown.
CoolingDown(c) ==
  \E r \in RequestIds : /\ IsPending(r) /\ Equivalent(request[r], c)
                        /\ clock < request[r].created + Cooldown

MayDecide_AnyStatus(c) ==
  /\ request[c.req] # NoRequest
  /\ c.kind = "approve" => TtlAllowed(ApproveTtl(c))
  /\ c.kind = "cancel"  => request[c.req].agent = c.agent
\* What approve, deny and cancel check under the lock before they change
\* anything: the request exists and is pending, the ttl is in range, the
\* cancelling agent owns the request.
MayDecide(c) ==
  /\ request[c.req] # NoRequest
  /\ IsPending(c.req)
  /\ c.kind = "approve" => TtlAllowed(ApproveTtl(c))
  /\ c.kind = "cancel"  => request[c.req].agent = c.agent

------------------------------------------------------------------------------
(* Control *)

Goto(h, from, to) == pc[h] = from /\ pc' = [pc EXCEPT ![h] = to]

\* The handler answers: the call ends and the deferred unlock runs.
Finish(h) ==
  /\ pc' = [pc EXCEPT ![h] = "idle"]
  /\ op' = [op EXCEPT ![h] = NoCall]
  /\ lock' = NoHandler

Ack(h) == acked' = acked \cup
  {[reply |-> SuccessReply(op[h].kind), req |-> op[h].req, tok |-> op[h].tok]}

SuccessRecord(h) == [event |-> SuccessEvent(op[h].kind), req |-> op[h].req]

\* One I/O operation fails.
Fault == faults < MaxFaults /\ faults' = faults + 1

\* Bounds: every admitted call can still be given its id and its token.
Unserved(kind, steps) == Cardinality(
  {h \in Handlers : pc[h] \in steps /\ op[h].kind = kind})
WithinBounds(c) ==
  /\ c.kind = "request" => nextRequest + Unserved("request", {"waiting"})
                             <= MaxRequests
  /\ c.kind = "approve" =>
       nextToken + Unserved("approve", {"waiting", "saveLease"}) <= MaxTokens
  /\ c.kind # "request" => c.req < nextRequest

------------------------------------------------------------------------------
(* Handler entry *)

\* Authenticate, check the durability gate once, decode the call; the handler
\* is then on its way to Service.lockMutation.
Enter(h) ==
  /\ ~durabilityClosed
  /\ Goto(h, "idle", "waiting")
  /\ \E c \in RequestCalls \cup ApproveCalls \cup DenyCalls \cup CancelCalls :
       WithinBounds(c) /\ op' = [op EXCEPT ![h] = c]
  /\ UNCHANGED <<store, disk, durabilityClosed, lock, history, ids, env>>

HasLock(h, step) == lock = h /\ pc[h] = step

\* The handler gets the lock with call c of the given kind.
Locks(h, kinds) == lock = NoHandler /\ pc[h] = "waiting" /\ op[h].kind \in kinds

------------------------------------------------------------------------------
(* RequestLeaseWithPolicyAndIntentAndSummary *)

MayCreate(c) == TtlAllowed(c.ttl) /\ Reusable(c) = {} /\ ~AtPendingCap(c.agent)
                /\ ~CoolingDown(c)

\* An invalid ttl, a throttled request, an env_path that does not resolve: an
\* error and no change.
RefuseRequest(h) ==
  /\ Locks(h, {"request"})
  /\ \/ ~TtlAllowed(op[h].ttl)
     \/ /\ Reusable(op[h]) = {}
        /\ AtPendingCap(op[h].agent) \/ CoolingDown(op[h])
     \/ MayCreate(op[h]) /\ op[h].envPath
  /\ Finish(h)
  /\ UNCHANGED <<store, disk, durabilityClosed, history, ids, env>>

ReuseRecord(t) == [event |-> "request_reused_active_lease", req |-> lease[t].req]

ReuseLease_Unlocked(h) ==
  /\ pc[h] = "waiting" /\ op[h].kind = "request" /\ TtlAllowed(op[h].ttl)
  /\ \E t \in Reusable(op[h]) : acked' = acked \cup
       {[reply |-> "reused", req |-> lease[t].req, tok |-> t]}
  /\ pc' = [pc EXCEPT ![h] = "idle"] /\ op' = [op EXCEPT ![h] = NoCall]
  /\ UNCHANGED <<store, disk, durabilityClosed, lock, journal, ids, env>>
\* The first equivalent unexpired lease found in the map is handed out again.
ReuseLease(h) ==
  /\ Locks(h, {"request"})
  /\ TtlAllowed(op[h].ttl)
  /\ \E t \in Reusable(op[h]) :
       /\ journal' = journal \cup {ReuseRecord(t)}
       /\ acked' = acked \cup
            {[reply |-> "reused", req |-> lease[t].req, tok |-> t]}
  /\ Finish(h)
  /\ UNCHANGED <<store, disk, durabilityClosed, ids, env>>

\* The reuse record is not gate-closing: its error, which comes before or after
\* the line is written, is only reported.
ReuseAuditFails(h) ==
  /\ Locks(h, {"request"})
  /\ TtlAllowed(op[h].ttl)
  /\ \E t \in Reusable(op[h]) : journal' \in {journal, journal \cup {ReuseRecord(t)}}
  /\ Fault
  /\ Finish(h)
  /\ UNCHANGED <<store, disk, durabilityClosed, acked, ids, clock, crashes>>

SaveRequest(h) ==
  /\ Locks(h, {"request"})
  /\ MayCreate(op[h])
  /\ nextRequest \in RequestIds
  /\ request' = [request EXCEPT ![nextRequest] =
       [agent |-> op[h].agent, key |-> op[h].key, envPath |-> op[h].envPath,
        ttl |-> op[h].ttl, created |-> clock, status |-> "pending"]]
  /\ op' = [op EXCEPT ![h].req = nextRequest]
  /\ nextRequest' = nextRequest + 1
  /\ lock' = h
  /\ pc' = [pc EXCEPT ![h] = "commit"]
  /\ UNCHANGED <<lease, disk, durabilityClosed, history, nextToken, env>>

------------------------------------------------------------------------------
(* ApproveRequest, DenyRequest, CancelRequestByAgent *)

RefuseDecision(h) ==
  /\ Locks(h, Decisions)
  /\ ~MayDecide(op[h])
  /\ Finish(h)
  /\ UNCHANGED <<store, disk, durabilityClosed, history, ids, env>>

NextStep_CancelUncommitted(kind) ==
  CASE kind = "approve" -> "saveLease" [] kind = "cancel" -> "audit"
    [] OTHER -> "commit"
\* An approval saves its lease before it commits.
NextStep(kind) == IF kind = "approve" THEN "saveLease" ELSE "commit"

UpdateRequest(h) ==
  /\ Locks(h, Decisions)
  /\ MayDecide(op[h])
  /\ request' = [request EXCEPT ![op[h].req].status =
                                   DecisionStatus(op[h].kind)]
  /\ lock' = h
  /\ pc' = [pc EXCEPT ![h] = NextStep(op[h].kind)]
  /\ UNCHANGED <<lease, disk, durabilityClosed, op, history, ids, env>>

\* The ttl was resolved before the status changed; the request keeps its own.
SaveLease(h) ==
  LET c == op[h]
      r == request[c.req] IN
  /\ HasLock(h, "saveLease")
  /\ nextToken \in Tokens
  /\ lease' = [lease EXCEPT ![nextToken] =
       [req |-> c.req, agent |-> r.agent, key |-> r.key,
        expires |-> clock + ApproveTtl(c)]]
  /\ op' = [op EXCEPT ![h].tok = nextToken]
  /\ nextToken' = nextToken + 1
  /\ pc' = [pc EXCEPT ![h] = "commit"]
  /\ UNCHANGED <<request, disk, durabilityClosed, lock, history, nextRequest,
                 env>>

------------------------------------------------------------------------------
(* Commit, audit, rollback *)

CommitOk(h) ==
  /\ lock = h /\ Goto(h, "commit", "audit")
  /\ disk' = Memory
  /\ UNCHANGED <<store, durabilityClosed, lock, op, history, ids, env>>

RollbackStart_RequestOnly(kind) == "undoRequest"
\* An approval undoes its lease first, then its request.
RollbackStart(kind) == IF kind = "approve" THEN "undoLease" ELSE "undoRequest"

CommitFails_WarnOnly(h) ==
  /\ HasLock(h, "commit")
  /\ Fault
  /\ durabilityClosed' = TRUE
  /\ pc' = [pc EXCEPT ![h] = "audit"]
  /\ UNCHANGED <<store, disk, lock, op, history, ids, clock, crashes>>
\* SaveStateToFile fails before the rename, or after it when only the sync of
\* the parent directory fails: the file is the old or the new one.
CommitFails(h) ==
  /\ HasLock(h, "commit")
  /\ Fault
  /\ disk' \in {disk, Memory}
  /\ durabilityClosed' = TRUE
  /\ pc' = [pc EXCEPT ![h] = RollbackStart(op[h].kind)]
  /\ UNCHANGED <<store, lock, op, history, ids, clock, crashes>>

AuditOk_NotWritten(h) ==
  /\ HasLock(h, "audit")
  /\ Ack(h) /\ Finish(h)
  /\ UNCHANGED <<store, disk, durabilityClosed, journal, ids, env>>
AuditOk(h) ==
  /\ HasLock(h, "audit")
  /\ journal' = journal \cup {SuccessRecord(h)}
  /\ Ack(h) /\ Finish(h)
  /\ UNCHANGED <<store, disk, durabilityClosed, ids, env>>

AuditFails_GateOpen(h) ==
  /\ HasLock(h, "audit")
  /\ Fault
  /\ journal' \in {journal, journal \cup {SuccessRecord(h)}}
  /\ pc' = [pc EXCEPT ![h] = RollbackStart(op[h].kind)]
  /\ UNCHANGED <<store, disk, durabilityClosed, lock, op, acked, ids, clock,
                 crashes>>
\* FileSink.Write fails before the line is written, or after it, in its fsync.
AuditFails(h) ==
  /\ HasLock(h, "audit")
  /\ Fault
  /\ journal' \in {journal, journal \cup {SuccessRecord(h)}}
  /\ durabilityClosed' = TRUE
  /\ pc' = [pc EXCEPT ![h] = RollbackStart(op[h].kind)]
  /\ UNCHANGED <<store, disk, lock, op, acked, ids, clock, crashes>>

UndoLease_Kept(h) ==
  /\ lock = h /\ Goto(h, "undoLease", "undoRequest")
  /\ UNCHANGED <<store, disk, durabilityClosed, lock, op, history, ids, env>>
UndoLease(h) ==
  /\ lock = h /\ Goto(h, "undoLease", "undoRequest")
  /\ lease' = [lease EXCEPT ![op[h].tok] = NoLease]
  /\ UNCHANGED <<request, disk, durabilityClosed, lock, op, history, ids, env>>

\* A created request is deleted; a decided one is stored again as it was read,
\* and it was pending.
Original(c) == IF c.kind = "request" THEN NoRequest
               ELSE [request[c.req] EXCEPT !.status = "pending"]
UndoRequest_Skipped(h) ==
  /\ lock = h /\ Goto(h, "undoRequest", "recommit")
  /\ UNCHANGED <<store, disk, durabilityClosed, lock, op, history, ids, env>>
UndoRequest(h) ==
  /\ lock = h /\ Goto(h, "undoRequest", "recommit")
  /\ request' = [request EXCEPT ![op[h].req] = Original(op[h])]
  /\ UNCHANGED <<lease, disk, durabilityClosed, lock, op, history, ids, env>>

\* rollbackRequestLeaseMutation commits whatever the undo functions returned;
\* the caller gets the error either way.
RecommitOk(h) ==
  /\ HasLock(h, "recommit")
  /\ disk' = Memory
  /\ Finish(h)
  /\ UNCHANGED <<store, durabilityClosed, history, ids, env>>

RecommitFails_LockKept(h) ==
  /\ HasLock(h, "recommit")
  /\ Fault
  /\ pc' = [pc EXCEPT ![h] = "idle"] /\ op' = [op EXCEPT ![h] = NoCall]
  /\ UNCHANGED <<store, disk, durabilityClosed, lock, history, ids, clock,
                 crashes>>
RecommitFails(h) ==
  /\ HasLock(h, "recommit")
  /\ Fault
  /\ disk' \in {disk, Memory}
  /\ durabilityClosed' = TRUE
  /\ Finish(h)
  /\ UNCHANGED <<store, history, ids, clock, crashes>>

------------------------------------------------------------------------------
(* Environment *)

\* The process dies and starts again: LoadStateFromFile, an open gate, no
\* handler in flight.
Crash ==
  /\ crashes < MaxCrashes
  /\ crashes' = crashes + 1
  /\ request' = disk.request /\ lease' = disk.lease
  /\ durabilityClosed' = FALSE
  /\ lock' = NoHandler
  /\ pc' = [h \in Handlers |-> "idle"]
  /\ op' = [h \in Handlers |-> NoCall]
  /\ UNCHANGED <<disk, history, ids, clock, faults>>

Tick ==
  /\ clock < MaxClock
  /\ clock' = clock + 1
  /\ UNCHANGED <<store, disk, durabilityClosed, lock, pc, op, history, ids,
                 faults, crashes>>

Init ==
  /\ request = [r \in RequestIds |-> NoRequest]
  /\ lease   = [t \in Tokens |-> NoLease]
  /\ disk    = Memory
  /\ durabilityClosed = FALSE
  /\ lock = NoHandler
  /\ pc = [h \in Handlers |-> "idle"]
  /\ op = [h \in Handlers |-> NoCall]
  /\ journal = {} /\ acked = {}
  /\ nextRequest = 1 /\ nextToken = 1
  /\ clock = 0 /\ faults = 0 /\ crashes = 0

\* The step with which a waiting handler gets the lock.
Acquire(h) ==
  \/ RefuseRequest(h) \/ ReuseLease(h) \/ ReuseAuditFails(h) \/ SaveRequest(h)
  \/ RefuseDecision(h) \/ UpdateRequest(h)

\* The steps of the handler that holds it.
Proceed(h) ==
  \/ SaveLease(h) \/ CommitOk(h) \/ CommitFails(h) \/ AuditOk(h)
  \/ AuditFails(h) \/ UndoLease(h) \/ UndoRequest(h) \/ RecommitOk(h)
  \/ RecommitFails(h)

Next == \/ \E h \in Handlers : Enter(h) \/ Acquire(h) \/ Proceed(h)
        \/ Crash
        \/ Tick

Spec == Init /\ [][Next]_vars

\* A running goroutine makes progress, and sync.Mutex hands the lock to a
\* waiter that has waited for more than a millisecond.
Fairness == \A h \in Handlers : SF_vars(Acquire(h)) /\ WF_vars(Proceed(h))
FairSpec == Spec /\ Fairness

------------------------------------------------------------------------------
(* Properties *)

\* Type invariant of the broker's state.
TypeOK ==
  /\ Memory \in Snapshot /\ disk \in Snapshot
  /\ durabilityClosed \in BOOLEAN
  /\ lock \in Handlers \cup {NoHandler}
  /\ pc \in [Handlers -> Steps]
  /\ op \in [Handlers -> Call \cup {NoCall}]
  /\ journal \subseteq [event: Events, req: RequestIds]
  /\ acked \subseteq [reply: Replies, req: RequestIds, tok: Tokens \cup {0}]
  /\ nextRequest \in 1..(MaxRequests + 1) /\ nextToken \in 1..(MaxTokens + 1)
  /\ clock \in 0..MaxClock /\ faults \in 0..MaxFaults
  /\ crashes \in 0..MaxCrashes

\* A mutation is alone: from its first change to the store until the answer its
\* handler holds MutationLock, on every path, and until it is undone the store
\* holds exactly the status it set.
MutationExclusive == \A h \in Handlers :
  /\ pc[h] = "idle" <=> op[h] = NoCall
  /\ lock = h <=> pc[h] \notin {"idle", "waiting"}
  /\ lock = h => op[h].req \in RequestIds
  /\ lock = h /\ pc[h] # "recommit"
       => request[op[h].req].status = SuccessReply(op[h].kind)
  /\ pc[h] \in {"saveLease", "undoLease"} => op[h].kind = "approve"
  /\ pc[h] \in {"commit", "audit", "undoLease"} /\ op[h].kind = "approve"
       => op[h].tok \in Tokens

\* The durability gate is sound: while it is open and no mutation is under way,
\* the state file holds exactly what memory holds, so whatever a reader was
\* told survives a restart (service.go, durability_gate.go).
DurableUnlessClosed ==
  lock = NoHandler /\ ~durabilityClosed => disk = Memory

\* A decision whose caller got a success reply is in memory and in the file, in
\* every state after the reply, through rollbacks of other calls and restarts.
AckedDecisionDurable ==
  \A a \in acked : a.reply \in {"approved", "denied"} =>
    /\ request[a.req].status = a.reply
    /\ disk.request[a.req].status = a.reply

\* A lease token an agent got from an approval or from reuse stays valid: the
\* lease is in memory and in the file (it is never one that is rolled back).
HandedOutLeaseDurable ==
  \A a \in acked : a.reply \in {"approved", "reused"} =>
    /\ lease[a.tok].req = a.req
    /\ disk.lease[a.tok] = lease[a.tok]

\* At most one of approve, deny and cancel succeeds on a request, whoever races.
OneDecision ==
  \A a, b \in acked : /\ a.req = b.req
                      /\ {a.reply, b.reply} \subseteq {"approved", "denied"}
                      => a.reply = b.reply /\ a.tok = b.tok

\* A snapshot in which leases and approved requests correspond one to one.
Consistent(s) ==
  /\ \A t \in Tokens : s.lease[t] # NoLease =>
       s.request[s.lease[t].req].status = "approved"
  /\ \A t, u \in Tokens : s.lease[t] # NoLease /\ s.lease[t].req = s.lease[u].req
       => t = u
  /\ \A r \in RequestIds : s.request[r].status = "approved" =>
       \E t \in Tokens : s.lease[t].req = r

\* No crash, failed commit or rollback leaves an approved request without its
\* lease or a lease without its approved request, in the file at any time and
\* in memory between mutations.
LeaseIffApproved ==
  Consistent(disk) /\ (lock = NoHandler => Consistent(Memory))

\* The pending cap holds for every agent, in memory and in the file, under
\* concurrent requests, rollbacks that make requests pending again, restarts.
PendingWithinCap ==
  \A a \in Agents :
    /\ Cardinality(PendingOf(a)) <= MaxPending
    /\ Cardinality({r \in RequestIds : disk.request[r].status = "pending"
                       /\ disk.request[r].agent = a}) <= MaxPending

\* Two pending requests for the same thing are at least a cooldown apart.
CooldownSeparates ==
  \A r, s \in RequestIds :
    /\ r < s /\ IsPending(r) /\ IsPending(s)
    /\ Equivalent(request[r], request[s])
    => request[r].created + Cooldown <= request[s].created

\* The records of which one must be there before a reply.
RecordsFor(reply) ==
  CASE reply = "pending"  -> {"request_created"}
    [] reply = "approved" -> {"request_approved"}
    [] reply = "denied"   -> {"request_denied", "request_cancelled_by_agent"}
    [] OTHER              -> {"request_reused_active_lease"}

\* Every success reply was preceded by its audit record.
AckedIsAudited ==
  \A a \in acked : \E e \in journal : e.req = a.req /\ e.event \in RecordsFor(a.reply)

\* Every admitted call is answered (or dies with the process): the lock is
\* released on every path and reaches every waiter.
EveryCallReturns == \A h \in Handlers : pc[h] = "waiting" ~> pc[h] = "idle"

\* Refinement: a mutation takes effect, for the contract, when it is answered;
\* until then, and while it is undone, its request still has its old outcome.
InFlight(r) == \E h \in Handlers :
  /\ lock = h /\ op[h].req = r
  /\ pc[h] \in {"saveLease", "commit", "audit", "undoLease", "undoRequest"}
Outcome == [r \in RequestIds |->
  IF InFlight(r) THEN IF op[lock].kind = "request" THEN "absent" ELSE "pending"
                 ELSE request[r].status]
Contract == INSTANCE LeaseContract
              WITH outcome <- Outcome, told <- {<<a.reply, a.req>> : a \in acked}

\* Callers see outcomes that only move forward, answered exactly when they take
\* effect; a restart reveals at most one change nobody was told had succeeded.
ImplementsContract == Contract!Spec

------------------------------------------------------------------------------
(* What the repository's documents say and the code does not do *)

\* CHANGELOG.md:96: the rollback snapshot is persisted again "if the primary
\* success audit write fails after state commit, so the durable state file cannot
\* retain a mutation that the broker already rolled back in memory and rejected".
FileForgetsRejected ==
  \A e \in journal :
    /\ lock = NoHandler /\ e.event = "request_approved"
    /\ request[e.req].status = "pending"
    => disk.request[e.req].status = "pending"

\* ADR 0018:28: "mutating auth/lease endpoints return 503 while gate is closed".
ClosedGateRefuses == [][acked' # acked => ~durabilityClosed]_vars

\* CONTRACT.md:135: "env_path disables active-lease reuse for matching requests
\* because the approved file path becomes part of the trust boundary".
EnvPathLeaseNotReused ==
  \A a \in acked : a.reply = "reused" => ~request[a.req].envPath
==============================================================================
