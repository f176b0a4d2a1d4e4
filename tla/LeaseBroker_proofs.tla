-------------------------- MODULE LeaseBroker_proofs --------------------------
(***************************************************************************)
(* Theorems about LeaseBroker, for every value of its constants.           *)
(***************************************************************************)
EXTENDS LeaseBroker, FiniteSetTheorems, TLAPS

------------------------------------------------------------------------------
(* Facts about the data *)

\* The calls handlers take in are calls.
LEMMA CallTypes ==
  RequestCalls \cup ApproveCalls \cup DenyCalls \cup CancelCalls \subseteq Call
<1>0. 0 \in Nat
  OBVIOUS
<1>1. RequestCalls \subseteq Call
  BY PolicyAssumption DEF RequestCalls, Call
<1>2. ApproveCalls \subseteq Call
  BY PolicyAssumption DEF ApproveCalls, Call, Decisions
<1>3. DenyCalls \subseteq Call
  BY <1>0 DEF DenyCalls, Call, Decisions
<1>4. CancelCalls \subseteq Call
  BY <1>0 DEF CancelCalls, Call, Decisions
<1> QED BY <1>1, <1>2, <1>3, <1>4

\* A handler that is serving a call holds a well-typed one.
LEMMA CallOf ==
  ASSUME TypeOK, MutationExclusive, NEW h \in Handlers, pc[h] # "idle"
  PROVE  op[h] \in Call /\ op[h] # NoCall
BY DEF TypeOK, MutationExclusive

\* A call has a kind, an idle handler's NoCall has none of them.
LEMMA CallKinds ==
  /\ \A c \in Call : c.kind = "request" \/ c.kind \in Decisions
  /\ NoCall \notin Call
BY DEF Call, NoCall, Decisions

\* A reply leaves the handler table and the lock well typed.
LEMMA FinishTypes ==
  ASSUME NEW h \in Handlers, Finish(h),
         pc \in [Handlers -> Steps], op \in [Handlers -> Call \cup {NoCall}]
  PROVE  /\ pc' \in [Handlers -> Steps]
         /\ op' \in [Handlers -> Call \cup {NoCall}]
         /\ lock' \in Handlers \cup {NoHandler}
BY DEF Finish, Steps

\* A success reply and a success record are well typed.
LEMMA SuccessTypes ==
  ASSUME TypeOK, NEW h \in Handlers, op[h] \in Call, op[h].req \in RequestIds
  PROVE  /\ SuccessRecord(h) \in [event: Events, req: RequestIds]
         /\ Ack(h) => acked' \subseteq
              [reply: Replies, req: RequestIds, tok: Tokens \cup {0}]
<1>1. SuccessRecord(h) \in [event: Events, req: RequestIds]
  BY DEF SuccessRecord, SuccessEvent, Events
<1>2. SuccessReply(op[h].kind) \in Replies
  BY DEF SuccessReply, DecisionStatus, Replies
<1>3. op[h].tok \in Tokens \cup {0}
  BY DEF Call
<1> QED BY <1>1, <1>2, <1>3 DEF Ack, TypeOK

\* One failure more is still within the bound.
LEMMA FaultTypes == ASSUME TypeOK, Fault PROVE faults' \in 0..MaxFaults
BY BoundsAssumption DEF TypeOK, Fault

------------------------------------------------------------------------------
(* Types and the mutation lock *)

LockInv == TypeOK /\ MutationExclusive

\* Whatever a handler does, the others keep their position and their call, and
\* the lock is its own to take or to give back.
LEMMA OthersKeep ==
  ASSUME LockInv, NEW h \in Handlers, NEW s, NEW c,
         pc' = [pc EXCEPT ![h] = s], op' = [op EXCEPT ![h] = c],
         lock \in {h, NoHandler}, lock' \in {h, NoHandler},
         s = "idle" <=> c = NoCall,
         lock' = h <=> s \notin {"idle", "waiting"},
         lock' = h => c.req \in RequestIds,
         lock' = h /\ s # "recommit"
           => request'[c.req].status = SuccessReply(c.kind),
         s \in {"saveLease", "undoLease"} => c.kind = "approve",
         s \in {"commit", "audit", "undoLease"} /\ c.kind = "approve"
           => c.tok \in Tokens
  PROVE  MutationExclusive'
<1>1. ASSUME NEW g \in Handlers PROVE
        /\ pc'[g] = "idle" <=> op'[g] = NoCall
        /\ lock' = g <=> pc'[g] \notin {"idle", "waiting"}
        /\ lock' = g => op'[g].req \in RequestIds
        /\ lock' = g /\ pc'[g] # "recommit"
             => request'[op'[g].req].status = SuccessReply(op'[g].kind)
        /\ pc'[g] \in {"saveLease", "undoLease"} => op'[g].kind = "approve"
        /\ pc'[g] \in {"commit", "audit", "undoLease"} /\ op'[g].kind = "approve"
             => op'[g].tok \in Tokens
  <2>1. pc \in [Handlers -> Steps] /\ op \in [Handlers -> Call \cup {NoCall}]
    BY DEF LockInv, TypeOK
  <2>2. CASE g = h
    <3>1. pc'[g] = s /\ op'[g] = c
      BY <2>1, <2>2
    <3> QED BY <2>2, <3>1
  <2>3. CASE g # h
    <3>1. pc'[g] = pc[g] /\ op'[g] = op[g]
      BY <2>1, <2>3
    <3>2. lock' # g /\ lock # g
      BY <2>3, HandlersAssumption
    <3> QED BY <3>1, <3>2 DEF LockInv, MutationExclusive
  <2> QED BY <2>2, <2>3
<1> QED BY <1>1 DEF MutationExclusive

\* Finishing a call frees the lock and keeps it exclusive.
LEMMA FinishExclusive ==
  ASSUME LockInv, NEW h \in Handlers, Finish(h), lock \in {h, NoHandler}
  PROVE  MutationExclusive'
BY OthersKeep, HandlersAssumption DEF Finish, NoCall

\* A handler that gets the lock keeps the types and the exclusion.
LEMMA AcquireStep ==
  ASSUME LockInv, NEW h \in Handlers, Acquire(h) PROVE LockInv'
<1> USE DEF store, history, ids, env
<1>0. /\ pc \in [Handlers -> Steps] /\ op \in [Handlers -> Call \cup {NoCall}]
      /\ request \in [RequestIds -> LeaseRequest \cup {NoRequest}]
      /\ lease \in [Tokens -> Lease \cup {NoLease}]
  BY DEF LockInv, TypeOK, Memory, Snapshot
<1>1. /\ lock = NoHandler /\ pc[h] = "waiting"
      /\ op[h] \in Call /\ op[h] # NoCall
  <2>1. lock = NoHandler /\ pc[h] = "waiting"
    BY DEF Acquire, Locks, RefuseRequest, ReuseLease, ReuseAuditFails,
       SaveRequest, RefuseDecision, UpdateRequest
  <2> QED BY <2>1, CallOf DEF LockInv
<1>2. CASE RefuseRequest(h) \/ RefuseDecision(h)
  <2>1. /\ Finish(h)
        /\ UNCHANGED <<store, disk, durabilityClosed, history, ids, env>>
    BY <1>2 DEF RefuseRequest, RefuseDecision
  <2>2. TypeOK'
    BY <1>0, <2>1, FinishTypes DEF LockInv, TypeOK, Memory
  <2> QED BY <1>1, <2>1, <2>2, FinishExclusive DEF LockInv
<1>3. CASE ReuseLease(h)
  <2>1. PICK t \in Reusable(op[h]) :
          /\ journal' = journal \cup {ReuseRecord(t)}
          /\ acked' = acked \cup
               {[reply |-> "reused", req |-> lease[t].req, tok |-> t]}
    BY <1>3 DEF ReuseLease
  <2>2. t \in Tokens /\ lease[t].req \in RequestIds
    BY <1>0 DEF Reusable, Live, Lease
  <2>3. journal' \subseteq [event: Events, req: RequestIds]
    BY <2>1, <2>2 DEF LockInv, TypeOK, Events, ReuseRecord
  <2>4. acked' \subseteq [reply: Replies, req: RequestIds, tok: Tokens \cup {0}]
    BY <2>1, <2>2 DEF LockInv, TypeOK, Replies
  <2>5. Finish(h) /\ UNCHANGED <<store, disk, durabilityClosed, ids, env>>
    BY <1>3 DEF ReuseLease
  <2>6. TypeOK'
    BY <1>0, <2>3, <2>4, <2>5, FinishTypes DEF LockInv, TypeOK, Memory
  <2> QED BY <1>1, <2>5, <2>6, FinishExclusive DEF LockInv
<1>4. CASE ReuseAuditFails(h)
  <2>1. /\ Finish(h) /\ Fault
        /\ UNCHANGED <<store, disk, durabilityClosed, acked, ids, clock, crashes>>
    BY <1>4 DEF ReuseAuditFails
  <2>2. PICK t \in Reusable(op[h]) : journal' \in {journal, journal \cup {ReuseRecord(t)}}
    BY <1>4 DEF ReuseAuditFails
  <2>3. ReuseRecord(t) \in [event: Events, req: RequestIds]
    BY <1>0 DEF Reusable, Live, Lease, ReuseRecord, Events
  <2>4. TypeOK'
    BY <1>0, <2>1, <2>2, <2>3, FinishTypes, FaultTypes DEF LockInv, TypeOK, Memory
  <2> QED BY <1>1, <2>1, <2>4, FinishExclusive DEF LockInv
<1>5. CASE SaveRequest(h)
  <2> DEFINE rec == [agent |-> op[h].agent, key |-> op[h].key,
                     envPath |-> op[h].envPath, ttl |-> op[h].ttl,
                     created |-> clock, status |-> "pending"]
             call == [op[h] EXCEPT !.req = nextRequest]
  <2>1. op[h].kind = "request" /\ nextRequest \in RequestIds
    BY <1>5 DEF SaveRequest, Locks
  <2>2. rec \in LeaseRequest
    <3>1. op[h].agent \in Agents /\ op[h].key \in Keys /\ op[h].ttl \in Nat
          /\ op[h].envPath \in BOOLEAN
      BY <1>1, <2>1 DEF Call, Decisions
    <3>2. clock \in Nat
      BY BoundsAssumption DEF LockInv, TypeOK
    <3> QED BY <3>1, <3>2 DEF LeaseRequest
  <2>3. call \in Call /\ call # NoCall /\ call.req = nextRequest
        /\ call.kind = "request"
    BY <1>1, <2>1, CallKinds DEF Call, Decisions
  <2>4. /\ request' = [request EXCEPT ![nextRequest] = rec]
        /\ op' = [op EXCEPT ![h] = call] /\ pc' = [pc EXCEPT ![h] = "commit"]
        /\ nextRequest' = nextRequest + 1 /\ lock' = h
        /\ UNCHANGED <<lease, disk, durabilityClosed, history, nextToken, env>>
    BY <1>5 DEF SaveRequest
  <2>5. nextRequest' \in 1..(MaxRequests + 1)
    BY <2>1, <2>4, BoundsAssumption DEF RequestIds
  <2>6. request' \in [RequestIds -> LeaseRequest \cup {NoRequest}]
    BY <1>0, <2>2, <2>4
  <2>7. pc' \in [Handlers -> Steps] /\ op' \in [Handlers -> Call \cup {NoCall}]
    BY <1>0, <2>3, <2>4 DEF Steps
  <2>8. TypeOK'
    BY <1>0, <2>4, <2>5, <2>6, <2>7 DEF LockInv, TypeOK, Memory, Snapshot
  <2>9. request'[call.req].status = SuccessReply(call.kind)
    BY <1>0, <2>1, <2>3, <2>4 DEF SuccessReply
  <2>10. MutationExclusive'
    BY <1>1, <2>1, <2>3, <2>4, <2>9, OthersKeep
  <2> QED BY <2>8, <2>10 DEF LockInv
<1>6. CASE UpdateRequest(h)
  <2> DEFINE r == op[h].req
  <2>1. op[h].kind \in Decisions /\ MayDecide(op[h])
    BY <1>6 DEF UpdateRequest, Locks
  <2>2. r \in RequestIds
    BY <1>1, <2>1 DEF Call, Decisions
  <2>3. [request[r] EXCEPT !.status = DecisionStatus(op[h].kind)] \in LeaseRequest
    BY <1>0, <2>1, <2>2 DEF MayDecide, DecisionStatus, LeaseRequest
  <2>4. /\ request' = [request EXCEPT ![r] =
             [request[r] EXCEPT !.status = DecisionStatus(op[h].kind)]]
        /\ pc' = [pc EXCEPT ![h] = NextStep(op[h].kind)] /\ op' = op /\ lock' = h
        /\ UNCHANGED <<lease, disk, durabilityClosed, history, ids, env>>
    BY <1>6 DEF UpdateRequest
  <2>5. request' \in [RequestIds -> LeaseRequest \cup {NoRequest}]
    BY <1>0, <2>3, <2>4
  <2>6. NextStep(op[h].kind) \in {"saveLease", "commit"} /\
        (NextStep(op[h].kind) = "saveLease" <=> op[h].kind = "approve")
    BY DEF NextStep
  <2>7. TypeOK'
    BY <1>0, <2>4, <2>5, <2>6 DEF LockInv, TypeOK, Memory, Snapshot, Steps
  <2>8. op' = [op EXCEPT ![h] = op[h]]
    BY <1>0, <2>4
  <2>9. request'[r].status = SuccessReply(op[h].kind)
    <3>1. request[r] \in LeaseRequest
      BY <1>0, <2>1, <2>2 DEF MayDecide
    <3>2. request'[r].status = DecisionStatus(op[h].kind)
      BY <1>0, <2>2, <2>4, <3>1 DEF LeaseRequest
    <3>3. op[h].kind # "request"
      BY <2>1 DEF Decisions
    <3> QED BY <3>2, <3>3 DEF SuccessReply
  <2>10. MutationExclusive'
    BY <1>1, <2>2, <2>4, <2>6, <2>8, <2>9, OthersKeep
  <2> QED BY <2>7, <2>10 DEF LockInv
<1> QED BY <1>2, <1>3, <1>4, <1>5, <1>6 DEF Acquire

\* The handler that holds the lock keeps the types and the exclusion.
LEMMA ProceedStep ==
  ASSUME LockInv, NEW h \in Handlers, Proceed(h) PROVE LockInv'
<1> USE DEF store, history, ids, env
<1>0. /\ pc \in [Handlers -> Steps] /\ op \in [Handlers -> Call \cup {NoCall}]
      /\ request \in [RequestIds -> LeaseRequest \cup {NoRequest}]
      /\ lease \in [Tokens -> Lease \cup {NoLease}]
      /\ Memory \in Snapshot /\ disk \in Snapshot
  BY DEF LockInv, TypeOK, Memory, Snapshot
<1>1. /\ lock = h /\ pc[h] \notin {"idle", "waiting"}
      /\ op[h] \in Call /\ op[h] # NoCall /\ op[h].req \in RequestIds
  <2>1. lock = h /\ pc[h] \notin {"idle", "waiting"}
    BY DEF Proceed, HasLock, Goto, SaveLease, CommitOk, CommitFails, AuditOk,
       AuditFails, UndoLease, UndoRequest, RecommitOk, RecommitFails
  <2> QED BY <2>1, CallOf DEF LockInv, MutationExclusive
<1>2. op' = op => op' = [op EXCEPT ![h] = op[h]]
  BY <1>0
<1>3. CASE SaveLease(h)
  <2> DEFINE rec == [req |-> op[h].req, agent |-> request[op[h].req].agent,
                     key |-> request[op[h].req].key,
                     expires |-> clock + ApproveTtl(op[h])]
             call == [op[h] EXCEPT !.tok = nextToken]
  <2>1. /\ lease' = [lease EXCEPT ![nextToken] = rec] /\ nextToken \in Tokens
        /\ op' = [op EXCEPT ![h] = call] /\ nextToken' = nextToken + 1
        /\ pc' = [pc EXCEPT ![h] = "commit"] /\ pc[h] = "saveLease"
        /\ UNCHANGED <<request, disk, durabilityClosed, lock, history,
                       nextRequest, env>>
    BY <1>3 DEF SaveLease, HasLock
  <2>2. op[h].kind = "approve" /\ request[op[h].req] \in LeaseRequest
    <3>1. op[h].kind = "approve" /\ request[op[h].req].status = "approved"
      BY <1>1, <2>1 DEF LockInv, MutationExclusive, SuccessReply, DecisionStatus
    <3> QED BY <1>0, <1>1, <3>1 DEF NoRequest
  <2>3. rec \in Lease
    <3>1. op[h].ttl \in Nat
      BY <1>1 DEF Call
    <3>2. clock \in Nat
      BY BoundsAssumption DEF LockInv, TypeOK
    <3>3. ApproveTtl(op[h]) \in Nat
      BY <2>2, <3>1 DEF ApproveTtl, LeaseRequest
    <3> QED BY <1>1, <2>2, <3>2, <3>3 DEF Lease, LeaseRequest
  <2>4. call \in Call /\ call # NoCall /\ call.req = op[h].req
        /\ call.kind = "approve" /\ call.tok = nextToken
    BY <1>1, <2>1, <2>2, CallKinds DEF Call, Decisions
  <2>5. nextToken' \in 1..(MaxTokens + 1)
    BY <2>1, BoundsAssumption DEF Tokens
  <2>6. lease' \in [Tokens -> Lease \cup {NoLease}]
    BY <1>0, <2>1, <2>3
  <2>7. pc' \in [Handlers -> Steps] /\ op' \in [Handlers -> Call \cup {NoCall}]
    BY <1>0, <2>1, <2>4 DEF Steps
  <2>8. TypeOK'
    BY <1>0, <2>1, <2>5, <2>6, <2>7 DEF LockInv, TypeOK, Memory, Snapshot
  <2>9. request'[call.req].status = SuccessReply(call.kind)
    BY <1>1, <2>1, <2>2, <2>4 DEF LockInv, MutationExclusive
  <2>10. MutationExclusive'
    BY <1>1, <2>1, <2>4, <2>9, OthersKeep
  <2> QED BY <2>8, <2>10 DEF LockInv
<1>4. ASSUME NEW s \in {"audit", "undoLease", "undoRequest"},
             s = "undoLease" => op[h].kind = "approve",
             pc[h] \in {"commit", "audit"}, pc' = [pc EXCEPT ![h] = s],
             UNCHANGED <<store, lock, op>>
      PROVE  MutationExclusive'
  <2>1. request'[op[h].req].status = SuccessReply(op[h].kind)
    BY <1>1, <1>4 DEF LockInv, MutationExclusive
  <2>2. s \in {"audit", "undoLease"} /\ op[h].kind = "approve"
          => op[h].tok \in Tokens
    BY <1>4 DEF LockInv, MutationExclusive
  <2> QED BY <1>1, <1>2, <1>4, <2>1, <2>2, OthersKeep
<1>5. RollbackStart(op[h].kind) \in {"undoLease", "undoRequest"} /\
      (RollbackStart(op[h].kind) = "undoLease" => op[h].kind = "approve")
  BY DEF RollbackStart
<1>6. CASE CommitOk(h)
  <2>1. MutationExclusive'
    BY <1>4, <1>6 DEF CommitOk, Goto
  <2> QED BY <1>0, <1>6, <2>1 DEF CommitOk, Goto, LockInv, TypeOK, Memory, Steps
<1>7. CASE CommitFails(h)
  <2>1. MutationExclusive'
    BY <1>4, <1>5, <1>7 DEF CommitFails, HasLock
  <2>2. disk' \in Snapshot /\ pc' \in [Handlers -> Steps]
    BY <1>0, <1>5, <1>7 DEF CommitFails, Steps
  <2> QED BY <1>0, <1>7, <2>1, <2>2, FaultTypes
          DEF CommitFails, LockInv, TypeOK, Memory
<1>8. CASE AuditOk(h)
  <2>1. /\ Ack(h) /\ Finish(h) /\ journal' = journal \cup {SuccessRecord(h)}
        /\ UNCHANGED <<store, disk, durabilityClosed, ids, env>>
    BY <1>8 DEF AuditOk
  <2>2. journal' \subseteq [event: Events, req: RequestIds]
        /\ acked' \subseteq [reply: Replies, req: RequestIds, tok: Tokens \cup {0}]
    BY <1>1, <2>1, SuccessTypes DEF LockInv, TypeOK
  <2>3. TypeOK'
    BY <1>0, <2>1, <2>2, FinishTypes DEF LockInv, TypeOK, Memory
  <2> QED BY <1>1, <2>1, <2>3, FinishExclusive DEF LockInv
<1>9. CASE AuditFails(h)
  <2>1. MutationExclusive'
    BY <1>4, <1>5, <1>9 DEF AuditFails, HasLock
  <2>2. journal' \subseteq [event: Events, req: RequestIds]
    BY <1>1, <1>9, SuccessTypes DEF AuditFails, LockInv, TypeOK
  <2>3. pc' \in [Handlers -> Steps]
    BY <1>0, <1>5, <1>9 DEF AuditFails, Steps
  <2> QED BY <1>0, <1>9, <2>1, <2>2, <2>3, FaultTypes
          DEF AuditFails, LockInv, TypeOK, Memory
<1>10. CASE UndoLease(h)
  <2>1. /\ pc[h] = "undoLease" /\ pc' = [pc EXCEPT ![h] = "undoRequest"]
        /\ lease' = [lease EXCEPT ![op[h].tok] = NoLease]
        /\ UNCHANGED <<request, disk, durabilityClosed, lock, op, history, ids, env>>
    BY <1>10 DEF UndoLease, Goto
  <2>2. request'[op[h].req].status = SuccessReply(op[h].kind)
    BY <1>1, <2>1 DEF LockInv, MutationExclusive
  <2>3. MutationExclusive'
    BY <1>1, <1>2, <2>1, <2>2, OthersKeep
  <2>4. lease' \in [Tokens -> Lease \cup {NoLease}] /\ pc' \in [Handlers -> Steps]
    BY <1>0, <2>1 DEF Steps
  <2> QED BY <1>0, <2>1, <2>3, <2>4 DEF LockInv, TypeOK, Memory, Snapshot
<1>11. CASE UndoRequest(h)
  <2>1. /\ pc[h] = "undoRequest" /\ pc' = [pc EXCEPT ![h] = "recommit"]
        /\ request' = [request EXCEPT ![op[h].req] = Original(op[h])]
        /\ UNCHANGED <<lease, disk, durabilityClosed, lock, op, history, ids, env>>
    BY <1>11 DEF UndoRequest, Goto
  <2>2. Original(op[h]) \in LeaseRequest \cup {NoRequest}
    <3>1. request[op[h].req].status = SuccessReply(op[h].kind)
      BY <1>1, <2>1 DEF LockInv, MutationExclusive
    <3>2. request[op[h].req] # NoRequest
      BY <3>1 DEF SuccessReply, DecisionStatus, NoRequest
    <3>3. request[op[h].req] \in LeaseRequest
      BY <1>0, <1>1, <3>2
    <3> QED BY <3>3 DEF Original, LeaseRequest
  <2>3. MutationExclusive'
    BY <1>1, <1>2, <2>1, OthersKeep
  <2>4. request' \in [RequestIds -> LeaseRequest \cup {NoRequest}]
        /\ pc' \in [Handlers -> Steps]
    BY <1>0, <1>1, <2>1, <2>2 DEF Steps
  <2> QED BY <1>0, <2>1, <2>3, <2>4 DEF LockInv, TypeOK, Memory, Snapshot
<1>12. CASE RecommitOk(h)
  <2>1. /\ Finish(h) /\ disk' = Memory
        /\ UNCHANGED <<store, durabilityClosed, history, ids, env>>
    BY <1>12 DEF RecommitOk
  <2>2. TypeOK'
    BY <1>0, <2>1, FinishTypes DEF LockInv, TypeOK, Memory
  <2> QED BY <1>1, <2>1, <2>2, FinishExclusive DEF LockInv
<1>13. CASE RecommitFails(h)
  <2>1. /\ Finish(h) /\ Fault /\ disk' \in {disk, Memory} /\ durabilityClosed' = TRUE
        /\ UNCHANGED <<store, history, ids, clock, crashes>>
    BY <1>13 DEF RecommitFails
  <2>2. TypeOK'
    BY <1>0, <2>1, FinishTypes, FaultTypes DEF LockInv, TypeOK, Memory
  <2> QED BY <1>1, <2>1, <2>2, FinishExclusive DEF LockInv
<1> QED BY <1>3, <1>6, <1>7, <1>8, <1>9, <1>10, <1>11, <1>12, <1>13 DEF Proceed

\* A call that enters waits; the handlers that hold or await the lock are not
\* disturbed.
LEMMA EnterStep ==
  ASSUME LockInv, NEW h \in Handlers, Enter(h) PROVE LockInv'
<1> USE DEF store, history, ids, env
<1>1. PICK c \in RequestCalls \cup ApproveCalls \cup DenyCalls \cup CancelCalls :
        op' = [op EXCEPT ![h] = c]
  BY DEF Enter
<1>2. /\ pc[h] = "idle" /\ pc' = [pc EXCEPT ![h] = "waiting"]
      /\ UNCHANGED <<store, disk, durabilityClosed, lock, history, ids, env>>
  BY DEF Enter, Goto
<1>3. c \in Call /\ c # NoCall
  BY <1>1, CallTypes, CallKinds
<1>4. pc \in [Handlers -> Steps] /\ op \in [Handlers -> Call \cup {NoCall}]
  BY DEF LockInv, TypeOK
<1>5. TypeOK'
  BY <1>1, <1>2, <1>3, <1>4 DEF LockInv, TypeOK, Memory, Steps
<1>6. ASSUME NEW g \in Handlers PROVE
        /\ pc'[g] = "idle" <=> op'[g] = NoCall
        /\ lock' = g <=> pc'[g] \notin {"idle", "waiting"}
        /\ lock' = g => op'[g].req \in RequestIds
        /\ lock' = g /\ pc'[g] # "recommit"
             => request'[op'[g].req].status = SuccessReply(op'[g].kind)
        /\ pc'[g] \in {"saveLease", "undoLease"} => op'[g].kind = "approve"
        /\ pc'[g] \in {"commit", "audit", "undoLease"} /\ op'[g].kind = "approve"
             => op'[g].tok \in Tokens
  <2>1. CASE g = h
    <3>1. pc'[g] = "waiting" /\ op'[g] = c
      BY <1>1, <1>2, <1>4, <2>1
    <3>2. lock' # g
      BY <1>2, <2>1 DEF LockInv, MutationExclusive
    <3> QED BY <1>3, <3>1, <3>2
  <2>2. CASE g # h
    <3>1. pc'[g] = pc[g] /\ op'[g] = op[g]
      BY <1>1, <1>2, <1>4, <2>2
    <3> QED BY <1>2, <3>1 DEF LockInv, MutationExclusive
  <2> QED BY <2>1, <2>2
<1> QED BY <1>5, <1>6 DEF LockInv, MutationExclusive

\* The broker starts, and restarts, with an idle lock and idle handlers.
LEMMA IdleExclusive ==
  ASSUME lock = NoHandler, pc = [h \in Handlers |-> "idle"],
         op = [h \in Handlers |-> NoCall]
  PROVE  MutationExclusive
BY HandlersAssumption DEF MutationExclusive

\* The initial state is typed and idle.
LEMMA InitLock == Init => LockInv
<1> SUFFICES ASSUME Init PROVE LockInv
  OBVIOUS
<1>1. Memory \in Snapshot /\ disk \in Snapshot
  BY DEF Init, Memory, Snapshot
<1>2. /\ nextRequest \in 1..(MaxRequests + 1) /\ nextToken \in 1..(MaxTokens + 1)
      /\ clock \in 0..MaxClock /\ faults \in 0..MaxFaults
      /\ crashes \in 0..MaxCrashes
  BY BoundsAssumption DEF Init
<1>3. pc \in [Handlers -> Steps] /\ op \in [Handlers -> Call \cup {NoCall}]
  BY DEF Init, Steps
<1>4. TypeOK
  BY <1>1, <1>2, <1>3 DEF Init, TypeOK
<1>5. MutationExclusive
  BY IdleExclusive DEF Init
<1> QED BY <1>4, <1>5 DEF LockInv

\* A restart reads the file, which is a snapshot, and forgets every handler.
LEMMA CrashStep == ASSUME LockInv, Crash PROVE LockInv'
<1> USE DEF history, ids
<1>1. Memory' \in Snapshot
  BY DEF Crash, LockInv, TypeOK, Memory, Snapshot
<1>2. pc' \in [Handlers -> Steps] /\ op' \in [Handlers -> Call \cup {NoCall}]
  BY DEF Crash, Steps
<1>3. crashes' \in 0..MaxCrashes
  BY BoundsAssumption DEF Crash, LockInv, TypeOK
<1>4. TypeOK'
  BY <1>1, <1>2, <1>3 DEF Crash, LockInv, TypeOK
<1>5. MutationExclusive'
  BY HandlersAssumption DEF Crash, MutationExclusive
<1> QED BY <1>4, <1>5 DEF LockInv

\* Time passes and steps of others change nothing the lock depends on.
LEMMA TickStep == ASSUME LockInv, Tick \/ UNCHANGED vars PROVE LockInv'
<1> USE DEF store, history, ids
<1>1. UNCHANGED <<store, disk, durabilityClosed, lock, pc, op, history, ids,
                  faults, crashes>>
  BY DEF Tick, vars
<1>2. clock' \in 0..MaxClock
  BY BoundsAssumption DEF Tick, vars, LockInv, TypeOK
<1>3. TypeOK'
  BY <1>1, <1>2 DEF LockInv, TypeOK, Memory
<1>4. MutationExclusive'
  BY <1>1 DEF LockInv, MutationExclusive
<1> QED BY <1>3, <1>4 DEF LockInv

\* Types and the exclusion of mutations are inductive together.
LEMMA LockStep == LockInv /\ [Next]_vars => LockInv'
<1> SUFFICES ASSUME LockInv, [Next]_vars PROVE LockInv'
  OBVIOUS
<1>1. CASE \E h \in Handlers : Enter(h) \/ Acquire(h) \/ Proceed(h)
  BY <1>1, EnterStep, AcquireStep, ProceedStep
<1>2. CASE Crash
  BY <1>2, CrashStep
<1>3. CASE Tick \/ UNCHANGED vars
  BY <1>3, TickStep
<1> QED BY <1>1, <1>2, <1>3 DEF Next

\* Both hold in every reachable state.
LEMMA LockInvariant == Spec => []LockInv
BY InitLock, LockStep, PTL DEF Spec

\* The broker's state keeps its types.
THEOREM TypeCorrect == Spec => []TypeOK
<1>1. LockInv => TypeOK
  BY DEF LockInv
<1> QED BY <1>1, LockInvariant, PTL

\* Whoever holds MutationLock is alone from its first change to its answer.
THEOREM LockCorrect == Spec => []MutationExclusive
<1>1. LockInv => MutationExclusive
  BY DEF LockInv
<1> QED BY <1>1, LockInvariant, PTL

------------------------------------------------------------------------------
(* The durability gate *)

\* While a mutation writes its audit record the file already holds it, and
\* whatever is undone is undone behind a closed gate.
GateInv ==
  /\ LockInv
  /\ DurableUnlessClosed
  /\ \A h \in Handlers :
       /\ HasLock(h, "audit") => disk = Memory
       /\ pc[h] \in {"undoLease", "undoRequest", "recommit"} => durabilityClosed

\* A call that enters, or gets the lock, finds the file and memory as they were
\* and goes to no step that depends on them.
LEMMA GateAcquire ==
  ASSUME GateInv, NEW h \in Handlers, Enter(h) \/ Acquire(h) PROVE GateInv'
<1> USE DEF store, Memory
<1>0. LockInv' /\ pc \in [Handlers -> Steps]
  BY EnterStep, AcquireStep DEF GateInv, LockInv, TypeOK
<1>1. disk' = disk /\ durabilityClosed' = durabilityClosed
  BY DEF Enter, Acquire, RefuseRequest, ReuseLease, ReuseAuditFails,
     SaveRequest, RefuseDecision, UpdateRequest
<1>2. \E s \in {"waiting", "idle", "commit", "saveLease"} :
        pc' = [pc EXCEPT ![h] = s]
  BY DEF Enter, Acquire, RefuseRequest, ReuseLease, ReuseAuditFails,
     SaveRequest, RefuseDecision, UpdateRequest, NextStep, Goto, Finish
<1>3. lock' # h => lock' = lock /\ Memory' = Memory
  BY DEF Enter, Acquire, RefuseRequest, ReuseLease, ReuseAuditFails,
     SaveRequest, RefuseDecision, UpdateRequest, Finish, Locks
<1>4. DurableUnlessClosed'
  BY <1>1, <1>3, HandlersAssumption DEF GateInv, DurableUnlessClosed
<1>5. ASSUME NEW g \in Handlers PROVE
        /\ HasLock(g, "audit")' => disk' = Memory'
        /\ pc'[g] \in {"undoLease", "undoRequest", "recommit"}
             => durabilityClosed'
  <2>1. CASE g = h
    BY <1>0, <1>2, <2>1 DEF HasLock
  <2>2. CASE g # h
    <3>1. pc'[g] = pc[g]
      BY <1>0, <1>2, <2>2
    <3>2. HasLock(g, "audit")' => HasLock(g, "audit") /\ Memory' = Memory
      BY <1>3, <2>2, <3>1 DEF HasLock
    <3> QED BY <1>1, <3>1, <3>2 DEF GateInv
  <2> QED BY <2>1, <2>2
<1> QED BY <1>0, <1>4, <1>5 DEF GateInv

\* The steps under the lock: a commit makes the file memory, a failure closes
\* the gate, and the gate is closed when a rollback ends.
LEMMA GateProceed ==
  ASSUME GateInv, NEW h \in Handlers, Proceed(h) PROVE GateInv'
<1> USE DEF store, Memory
<1>0. LockInv' /\ LockInv /\ pc \in [Handlers -> Steps]
  BY ProceedStep DEF GateInv, LockInv, TypeOK
<1>1. lock = h
  BY DEF Proceed, HasLock, Goto, SaveLease, CommitOk, CommitFails, AuditOk,
     AuditFails, UndoLease, UndoRequest, RecommitOk, RecommitFails
<1>2. \E s \in Steps : pc' = [pc EXCEPT ![h] = s]
  BY DEF Proceed, Goto, Finish, SaveLease, CommitOk, CommitFails, AuditOk,
     AuditFails, UndoLease, UndoRequest, RecommitOk, RecommitFails, Steps,
     RollbackStart
<1>3. durabilityClosed => durabilityClosed'
  BY DEF Proceed, SaveLease, CommitOk, CommitFails, AuditOk, AuditFails,
     UndoLease, UndoRequest, RecommitOk, RecommitFails
<1>4. ASSUME NEW g \in Handlers, g # h PROVE
        /\ HasLock(g, "audit")' => disk' = Memory'
        /\ pc'[g] \in {"undoLease", "undoRequest", "recommit"}
             => durabilityClosed'
  <2>1. pc'[g] = pc[g]
    BY <1>0, <1>2, <1>4
  <2>2. pc'[g] \in {"idle", "waiting"}
    BY <1>0, <1>1, <1>4, <2>1 DEF LockInv, MutationExclusive
  <2> QED BY <2>2 DEF HasLock
<1>5. /\ DurableUnlessClosed'
      /\ HasLock(h, "audit")' => disk' = Memory'
      /\ pc'[h] \in {"undoLease", "undoRequest", "recommit"}
           => durabilityClosed'
  <2>1. CASE SaveLease(h)
    <3>1. pc'[h] = "commit" /\ lock' = h
      BY <1>0, <2>1 DEF SaveLease, HasLock
    <3> QED BY <3>1, HandlersAssumption DEF DurableUnlessClosed, HasLock
  <2>2. CASE CommitOk(h)
    <3>1. disk' = Memory' /\ pc'[h] = "audit"
      BY <1>0, <2>2 DEF CommitOk, Goto
    <3> QED BY <3>1 DEF DurableUnlessClosed
  <2>3. CASE CommitFails(h) \/ AuditFails(h)
    <3>1. durabilityClosed' /\ pc'[h] # "audit"
      BY <1>0, <2>3 DEF CommitFails, AuditFails, RollbackStart
    <3> QED BY <3>1 DEF DurableUnlessClosed, HasLock
  <2>4. CASE AuditOk(h)
    <3>1. disk' = Memory' /\ pc'[h] = "idle"
      BY <1>0, <2>4 DEF GateInv, AuditOk, Finish
    <3> QED BY <3>1 DEF DurableUnlessClosed
  <2>5. CASE UndoLease(h) \/ UndoRequest(h)
    <3>1. durabilityClosed' /\ pc'[h] # "audit"
      BY <1>0, <1>3, <2>5 DEF GateInv, UndoLease, UndoRequest, Goto
    <3> QED BY <3>1 DEF DurableUnlessClosed, HasLock
  <2>6. CASE RecommitOk(h) \/ RecommitFails(h)
    <3>1. durabilityClosed'
      BY <1>3, <2>6 DEF GateInv, RecommitOk, RecommitFails, HasLock
    <3>2. pc'[h] = "idle"
      BY <1>0, <2>6 DEF RecommitOk, RecommitFails, Finish
    <3> QED BY <3>1, <3>2 DEF DurableUnlessClosed, HasLock
  <2> QED BY <2>1, <2>2, <2>3, <2>4, <2>5, <2>6 DEF Proceed
<1> QED BY <1>0, <1>4, <1>5 DEF GateInv

\* The gate's invariant is inductive; a restart opens the gate on what the file
\* holds.
LEMMA GateStep == GateInv /\ [Next]_vars => GateInv'
<1> SUFFICES ASSUME GateInv, [Next]_vars PROVE GateInv'
  OBVIOUS
<1>0. LockInv'
  BY LockStep DEF GateInv
<1>1. CASE \E h \in Handlers : Enter(h) \/ Acquire(h) \/ Proceed(h)
  BY <1>1, GateAcquire, GateProceed
<1>2. CASE Crash
  <2>1. /\ request' = disk.request /\ lease' = disk.lease /\ disk' = disk
        /\ lock' = NoHandler /\ pc' = [h \in Handlers |-> "idle"]
    BY <1>2 DEF Crash
  <2>2. disk = [request |-> disk.request, lease |-> disk.lease]
    BY DEF GateInv, LockInv, TypeOK, Snapshot
  <2>3. disk' = Memory'
    BY <2>1, <2>2 DEF Memory
  <2> QED BY <1>0, <2>1, <2>3 DEF GateInv, DurableUnlessClosed, HasLock
<1>3. CASE Tick \/ UNCHANGED vars
  <2>1. UNCHANGED <<request, lease, disk, durabilityClosed, lock, pc>>
    BY <1>3 DEF Tick, vars, store
  <2> QED BY <1>0, <2>1 DEF GateInv, DurableUnlessClosed, HasLock, Memory
<1> QED BY <1>1, <1>2, <1>3 DEF Next

\* The gate's invariant holds in every reachable state.
LEMMA GateInvariant == Spec => []GateInv
<1>1. Init => GateInv
  BY InitLock DEF Init, GateInv, DurableUnlessClosed, HasLock, Memory
<1> QED BY <1>1, GateStep, PTL DEF Spec

\* While the gate is open and no mutation is under way, the state file holds
\* exactly what memory holds.
THEOREM GateSound == Spec => []DurableUnlessClosed
<1>1. GateInv => DurableUnlessClosed
  BY DEF GateInv
<1> QED BY <1>1, GateInvariant, PTL

------------------------------------------------------------------------------
(* Decisions *)

Decided == {a \in acked : a.reply \in {"approved", "denied"}}

\* Ids not handed out yet name no request, in memory or in the file.
FreshIds == \A r \in RequestIds : r >= nextRequest =>
  request[r] = NoRequest /\ disk.request[r] = NoRequest

\* The call that holds the lock works on a request nobody was told is decided.
UndecidedInFlight == \A h \in Handlers : lock = h =>
  \A a \in Decided : a.req # op[h].req

\* A decision is durable because the request it names is never again the one a
\* mutation under way, or its rollback, works on.
DecisionInv ==
  /\ GateInv
  /\ FreshIds
  /\ UndecidedInFlight
  /\ AckedDecisionDurable
  /\ OneDecision

\* The decisions callers know of, and the snapshots, in the types they have.
LEMMA DecisionTypes ==
  ASSUME DecisionInv
  PROVE  /\ LockInv /\ TypeOK /\ MutationExclusive
         /\ request \in [RequestIds -> LeaseRequest \cup {NoRequest}]
         /\ disk.request \in [RequestIds -> LeaseRequest \cup {NoRequest}]
         /\ pc \in [Handlers -> Steps] /\ op \in [Handlers -> Call \cup {NoCall}]
         /\ \A a \in Decided : a.req \in RequestIds
BY DEF DecisionInv, GateInv, LockInv, TypeOK, Memory, Snapshot, Decided

\* A step that tells nobody of a decision, and leaves the requests of decided
\* ones as they are, keeps every decision durable and unique.
LEMMA DecisionsKeep ==
  ASSUME DecisionInv, Decided' = Decided,
         \A a \in Decided : /\ request'[a.req] = request[a.req]
                            /\ disk'.request[a.req] = disk.request[a.req]
  PROVE  AckedDecisionDurable' /\ OneDecision'
<1>1. AckedDecisionDurable'
  BY DEF DecisionInv, AckedDecisionDurable, Decided
<1>2. OneDecision'
  BY DEF DecisionInv, OneDecision, Decided
<1> QED BY <1>1, <1>2

\* The steps that get the lock: the request is new, or it is still pending.
LEMMA DecisionAcquire ==
  ASSUME DecisionInv, NEW h \in Handlers, Acquire(h) PROVE DecisionInv'
<1> USE DEF store, history, ids
<1>1. GateInv'
  BY GateAcquire DEF DecisionInv
<1>2. disk' = disk /\ lock = NoHandler
  BY DEF Acquire, RefuseRequest, ReuseLease, ReuseAuditFails, SaveRequest,
     RefuseDecision, UpdateRequest, Locks
<1>3. CASE RefuseRequest(h) \/ ReuseLease(h) \/ ReuseAuditFails(h)
           \/ RefuseDecision(h)
  <2>1. UNCHANGED <<request, nextRequest>> /\ lock' = NoHandler
    BY <1>3 DEF RefuseRequest, ReuseLease, ReuseAuditFails, RefuseDecision, Finish
  <2>2. Decided' = Decided
    BY <1>3 DEF RefuseRequest, ReuseLease, ReuseAuditFails, RefuseDecision,
       Decided
  <2>3. AckedDecisionDurable' /\ OneDecision'
    BY <1>2, <2>1, <2>2, DecisionsKeep
  <2> QED BY <1>1, <1>2, <2>1, <2>3, HandlersAssumption
          DEF DecisionInv, FreshIds, UndecidedInFlight
<1>4. CASE SaveRequest(h)
  <2> DEFINE n == nextRequest
  <2>1. /\ n \in RequestIds /\ nextRequest' = n + 1 /\ lock' = h
        /\ \E rec : request' = [request EXCEPT ![n] = rec]
        /\ \E call : call.req = n /\ op' = [op EXCEPT ![h] = call]
        /\ acked' = acked
    <3>1. op[h] \in Call
      <4>1. pc[h] = "waiting"
        BY <1>4 DEF SaveRequest, Locks
      <4> QED BY <4>1, DecisionTypes, CallOf
    <3>2. [op[h] EXCEPT !.req = n].req = n
      BY <3>1 DEF Call
    <3> QED BY <1>4, <3>2 DEF SaveRequest
  <2>2. \A a \in Decided : a.req # n
    <3>1. request[n].status = "absent"
      BY <2>1 DEF DecisionInv, FreshIds, NoRequest, RequestIds
    <3> QED BY <3>1 DEF DecisionInv, AckedDecisionDurable, Decided
  <2>3. Decided' = Decided
    BY <2>1 DEF Decided
  <2>4. AckedDecisionDurable' /\ OneDecision'
    BY <1>2, <2>1, <2>2, <2>3, DecisionTypes, DecisionsKeep
  <2>5. FreshIds'
    BY <1>2, <2>1, DecisionTypes DEF DecisionInv, FreshIds, RequestIds
  <2>6. UndecidedInFlight'
    <3>1. op'[h].req = n
      BY <2>1, DecisionTypes
    <3> QED BY <2>1, <2>2, <2>3, <3>1 DEF UndecidedInFlight
  <2> QED BY <1>1, <2>4, <2>5, <2>6 DEF DecisionInv
<1>5. CASE UpdateRequest(h)
  <2> DEFINE r == op[h].req
  <2>1. /\ r \in RequestIds /\ request[r].status = "pending" /\ lock' = h
        /\ \E rec : request' = [request EXCEPT ![r] = rec]
        /\ UNCHANGED <<op, acked, nextRequest>>
    <3>1. op[h] \in Call
      <4>1. pc[h] = "waiting"
        BY <1>5 DEF UpdateRequest, Locks
      <4> QED BY <4>1, DecisionTypes, CallOf
    <3>2. r \in RequestIds
      BY <1>5, <3>1 DEF UpdateRequest, Locks, Call, Decisions
    <3> QED BY <1>5, <3>2 DEF UpdateRequest, MayDecide, IsPending
  <2>2. \A a \in Decided : a.req # r
    BY <2>1 DEF DecisionInv, AckedDecisionDurable, Decided
  <2>3. Decided' = Decided
    BY <2>1 DEF Decided
  <2>4. AckedDecisionDurable' /\ OneDecision'
    BY <1>2, <2>1, <2>2, <2>3, DecisionTypes, DecisionsKeep
  <2>5. FreshIds'
    <3>1. request[r] # NoRequest
      BY <2>1 DEF NoRequest
    <3> QED BY <1>2, <2>1, <3>1, DecisionTypes DEF DecisionInv, FreshIds
  <2>6. UndecidedInFlight'
    BY <2>1, <2>2, <2>3 DEF UndecidedInFlight
  <2> QED BY <1>1, <2>4, <2>5, <2>6 DEF DecisionInv
<1> QED BY <1>3, <1>4, <1>5 DEF Acquire

\* The handler that holds the lock moves the file to memory or changes the
\* request it works on; a decision it reports is in both, and is the first one.
LEMMA DecisionProceed ==
  ASSUME DecisionInv, NEW h \in Handlers, Proceed(h) PROVE DecisionInv'
<1> USE DEF store, history, ids
<1> DEFINE r == op[h].req
<1>0. GateInv' /\ nextRequest' = nextRequest
  BY GateProceed DEF DecisionInv, Proceed, SaveLease, CommitOk, CommitFails,
     AuditOk, AuditFails, UndoLease, UndoRequest, RecommitOk, RecommitFails
<1>1. lock = h /\ pc[h] \notin {"idle", "waiting"}
  BY DEF Proceed, HasLock, Goto, SaveLease, CommitOk, CommitFails, AuditOk,
     AuditFails, UndoLease, UndoRequest, RecommitOk, RecommitFails
<1>2. op[h] \in Call /\ r \in RequestIds
  BY <1>1, DecisionTypes, CallOf DEF MutationExclusive
<1>3. lock' \in {h, NoHandler}
  BY <1>1 DEF Proceed, Finish, SaveLease, CommitOk, CommitFails, AuditOk,
     AuditFails, UndoLease, UndoRequest, RecommitOk, RecommitFails
<1>4. lock' = h => op'[h].req = r
  <2>1. CASE SaveLease(h)
    <3>1. op'[h] = [op[h] EXCEPT !.tok = nextToken]
      BY <2>1, DecisionTypes DEF SaveLease
    <3> QED BY <1>2, <3>1 DEF Call
  <2>2. CASE CommitOk(h) \/ CommitFails(h) \/ AuditFails(h) \/ UndoLease(h)
             \/ UndoRequest(h)
    BY <2>2 DEF CommitOk, CommitFails, AuditFails, UndoLease, UndoRequest
  <2>3. CASE AuditOk(h) \/ RecommitOk(h) \/ RecommitFails(h)
    BY <2>3, HandlersAssumption DEF AuditOk, RecommitOk, RecommitFails, Finish
  <2> QED BY <2>1, <2>2, <2>3 DEF Proceed
<1>5. disk' \in {disk, Memory}
  BY DEF Proceed, SaveLease, CommitOk, CommitFails, AuditOk, AuditFails,
     UndoLease, UndoRequest, RecommitOk, RecommitFails
<1>6. disk'.request = disk.request \/ disk'.request = request
  BY <1>5 DEF Memory
<1>7. \A a \in Decided : a.req # r
  BY <1>1 DEF DecisionInv, UndecidedInFlight
<1>8. \A a \in Decided : disk.request[a.req].status = request[a.req].status
  BY DEF DecisionInv, AckedDecisionDurable, Decided
<1>9. ASSUME acked' = acked,
             \A a \in Decided : request'[a.req] = request[a.req],
             FreshIds'
      PROVE  DecisionInv'
  <2>1. Decided' = Decided
    BY <1>9 DEF Decided
  <2>2. AckedDecisionDurable'
    BY <1>6, <1>9 DEF DecisionInv, AckedDecisionDurable, Decided
  <2>3. OneDecision'
    BY <1>9 DEF DecisionInv, OneDecision
  <2>4. UndecidedInFlight'
    BY <1>3, <1>4, <1>7, <2>1, HandlersAssumption DEF UndecidedInFlight
  <2> QED BY <1>0, <1>9, <2>2, <2>3, <2>4 DEF DecisionInv
<1>10. request' = request => FreshIds'
  BY <1>0, <1>6 DEF DecisionInv, FreshIds
<1>11. CASE SaveLease(h) \/ CommitOk(h) \/ CommitFails(h) \/ AuditFails(h)
            \/ UndoLease(h) \/ RecommitOk(h) \/ RecommitFails(h)
  <2>1. request' = request /\ acked' = acked
    BY <1>11 DEF SaveLease, CommitOk, CommitFails, AuditFails, UndoLease,
       RecommitOk, RecommitFails
  <2> QED BY <1>9, <1>10, <2>1
<1>12. CASE UndoRequest(h)
  <2>1. /\ \E rec : request' = [request EXCEPT ![r] = rec]
        /\ acked' = acked /\ disk' = disk /\ pc[h] = "undoRequest"
    BY <1>12 DEF UndoRequest, Goto
  <2>2. \A a \in Decided : request'[a.req] = request[a.req]
    BY <1>7, <2>1, DecisionTypes
  <2>3. request[r] # NoRequest
    BY <1>1, <2>1, DecisionTypes
       DEF MutationExclusive, SuccessReply, DecisionStatus, NoRequest
  <2>4. FreshIds'
    BY <1>0, <2>1, <2>3, DecisionTypes DEF DecisionInv, FreshIds
  <2> QED BY <1>9, <2>1, <2>2, <2>4
<1>13. CASE AuditOk(h)
  <2> DEFINE new == [reply |-> SuccessReply(op[h].kind), req |-> r,
                     tok |-> op[h].tok]
  <2>1. /\ acked' = acked \cup {new} /\ lock' = NoHandler
        /\ UNCHANGED <<request, disk>> /\ pc[h] = "audit"
    BY <1>13 DEF AuditOk, Ack, Finish, HasLock
  <2>2. disk = Memory
    BY <1>1, <2>1 DEF DecisionInv, GateInv, HasLock
  <2>3. request[r].status = new.reply /\ disk.request[r].status = new.reply
    BY <1>1, <2>1, <2>2, DecisionTypes DEF MutationExclusive, Memory
  <2>4. AckedDecisionDurable'
    BY <2>1, <2>3 DEF DecisionInv, AckedDecisionDurable
  <2>5. OneDecision'
    BY <1>7, <2>1 DEF DecisionInv, OneDecision, Decided
  <2>6. FreshIds' /\ UndecidedInFlight'
    BY <1>10, <2>1, HandlersAssumption DEF UndecidedInFlight
  <2> QED BY <1>0, <2>4, <2>5, <2>6 DEF DecisionInv
<1> QED BY <1>11, <1>12, <1>13 DEF Proceed

\* Every step keeps decisions durable and unique; a restart because the file
\* holds them.
LEMMA DecisionStep == DecisionInv /\ [Next]_vars => DecisionInv'
<1> SUFFICES ASSUME DecisionInv, [Next]_vars PROVE DecisionInv'
  OBVIOUS
<1> USE DEF store, history, ids
<1>0. GateInv'
  BY GateStep DEF DecisionInv
<1>1. ASSUME NEW h \in Handlers, Enter(h) PROVE DecisionInv'
  <2>1. UNCHANGED <<request, disk, acked, nextRequest, lock>>
    BY <1>1 DEF Enter
  <2>2. pc[h] = "idle" /\ \E c : op' = [op EXCEPT ![h] = c]
    BY <1>1 DEF Enter, Goto
  <2>3. lock # h
    BY <2>2, DecisionTypes DEF MutationExclusive
  <2>4. UndecidedInFlight'
    BY <2>1, <2>2, <2>3, DecisionTypes DEF DecisionInv, UndecidedInFlight, Decided
  <2> QED BY <1>0, <2>1, <2>4
          DEF DecisionInv, FreshIds, AckedDecisionDurable, OneDecision
<1>2. CASE \E h \in Handlers : Acquire(h) \/ Proceed(h)
  BY <1>2, DecisionAcquire, DecisionProceed
<1>3. CASE Crash
  <2>1. /\ request' = disk.request /\ lock' = NoHandler
        /\ UNCHANGED <<disk, acked, nextRequest>>
    BY <1>3 DEF Crash
  <2> QED BY <1>0, <2>1, HandlersAssumption
          DEF DecisionInv, FreshIds, UndecidedInFlight, AckedDecisionDurable,
              OneDecision
<1>4. CASE Tick \/ UNCHANGED vars
  <2>1. UNCHANGED <<request, disk, acked, nextRequest, lock, op>>
    BY <1>4 DEF Tick, vars
  <2> QED BY <1>0, <2>1
          DEF DecisionInv, FreshIds, UndecidedInFlight, AckedDecisionDurable,
              OneDecision, Decided
<1> QED BY <1>1, <1>2, <1>3, <1>4 DEF Next

\* The broker starts without decisions.
LEMMA DecisionInvariant == Spec => []DecisionInv
<1>1. Init => GateInv
  BY InitLock DEF Init, GateInv, DurableUnlessClosed, HasLock, Memory
<1>2. Init => DecisionInv
  BY <1>1 DEF Init, DecisionInv, FreshIds, UndecidedInFlight,
     AckedDecisionDurable, OneDecision, Decided, Memory
<1> QED BY <1>2, DecisionStep, PTL DEF Spec

\* A decision whose caller got a success reply is in memory and in the file in
\* every later state.
THEOREM DecisionsDurable == Spec => []AckedDecisionDurable
<1>1. DecisionInv => AckedDecisionDurable
  BY DEF DecisionInv
<1> QED BY <1>1, DecisionInvariant, PTL

\* At most one of approve, deny and cancel ever succeeds on a request.
THEOREM DecisionsUnique == Spec => []OneDecision
<1>1. DecisionInv => OneDecision
  BY DEF DecisionInv
<1> QED BY <1>1, DecisionInvariant, PTL

------------------------------------------------------------------------------
(* The cap of each agent's pending requests and the cooldown between equal ones *)

\* The limits, for the requests of a store that are pending or may be so again.
Capped(requests, open) == \A a \in Agents :
  Cardinality({r \in open : requests[r].agent = a}) <= MaxPending
Apart(requests, open) == \A r, s \in open :
  r < s /\ Equivalent(requests[r], requests[s])
  => requests[r].created + Cooldown <= requests[s].created
Limited(requests, open) == Capped(requests, open) /\ Apart(requests, open)

\* In memory a request whose decision is under way may be pending again when
\* the decision is rolled back, and it counts until then.
UnderDecision(r) == \E h \in Handlers : lock = h /\ op[h].req = r
Open == {r \in RequestIds : request[r] # NoRequest /\ (IsPending(r) \/ UnderDecision(r))}
OpenInFile == {r \in RequestIds : disk.request[r].status = "pending"}

LimitInv ==
  /\ DecisionInv
  /\ Limited(request, Open)
  /\ Limited(disk.request, OpenInFile)

\* Sets of requests are finite.
LEMMA RequestsFinite ==
  ASSUME NEW S \in SUBSET RequestIds PROVE IsFiniteSet(S) /\ Cardinality(S) \in Nat
<1>1. IsFiniteSet(RequestIds)
  BY BoundsAssumption, FS_Interval DEF RequestIds
<1>2. IsFiniteSet(S)
  BY <1>1, FS_Subset
<1> QED BY <1>2, FS_CardinalityType

\* Fewer requests count no more.
LEMMA FewerRequests ==
  ASSUME NEW S \in SUBSET RequestIds, NEW T \in SUBSET S PROVE Cardinality(T) <= Cardinality(S)
BY RequestsFinite, FS_Subset

\* One more request counts at most one more.
LEMMA OneMoreRequest ==
  ASSUME NEW S \in SUBSET RequestIds, NEW n, NEW T \in SUBSET (S \cup {n})
  PROVE  Cardinality(T) <= Cardinality(S) + 1
<1>1. IsFiniteSet(S) /\ Cardinality(S) \in Nat
  BY RequestsFinite
<1>2. /\ IsFiniteSet(S \cup {n})
      /\ Cardinality(S \cup {n}) = IF n \in S THEN Cardinality(S) ELSE Cardinality(S) + 1
  BY <1>1, FS_AddElement
<1>3. Cardinality(T) <= Cardinality(S \cup {n})
  BY <1>2, FS_Subset
<1>4. Cardinality(T) \in Nat
  BY <1>2, FS_Subset, FS_CardinalityType
<1> QED BY <1>1, <1>2, <1>3, <1>4

\* The limits still hold of fewer requests, whatever became of their status.
LEMMA LimitedShrinks ==
  ASSUME NEW before, NEW open \in SUBSET RequestIds, Limited(before, open),
         NEW after, NEW left \in SUBSET open,
         \A r \in left : /\ after[r].agent = before[r].agent
                         /\ after[r].key = before[r].key
                         /\ after[r].created = before[r].created
  PROVE  Limited(after, left)
<1>1. Capped(after, left)
  <2> SUFFICES ASSUME NEW a \in Agents
               PROVE  Cardinality({r \in left : after[r].agent = a}) <= MaxPending
    BY DEF Capped
  <2> DEFINE S == {r \in open : before[r].agent = a}
             T == {r \in left : after[r].agent = a}
  <2>1. S \in SUBSET RequestIds /\ T \in SUBSET S
    OBVIOUS
  <2>2. Cardinality(T) <= Cardinality(S) /\ Cardinality(S) \in Nat /\ Cardinality(T) \in Nat
    <3>1. T \in SUBSET RequestIds
      BY <2>1
    <3> QED BY <2>1, <3>1, FewerRequests, RequestsFinite
  <2>3. Cardinality(S) <= MaxPending
    BY DEF Limited, Capped
  <2> HIDE DEF S, T
  <2>4. Cardinality(T) <= MaxPending
    BY <2>2, <2>3, PolicyAssumption
  <2> QED BY <2>4 DEF T
<1>2. Apart(after, left)
  BY DEF Limited, Apart, Equivalent
<1> QED BY <1>1, <1>2 DEF Limited

\* What has to be shown of a step that makes no new request: none that was not
\* pending, or under decision, becomes so.
LEMMA LimitStepBy ==
  ASSUME LimitInv, DecisionInv', disk' \in {disk, Memory}, Open' \subseteq Open,
         \A r \in Open' : /\ request'[r].agent = request[r].agent
                          /\ request'[r].key = request[r].key
                          /\ request'[r].created = request[r].created
  PROVE  LimitInv'
<1>1. Limited(request', Open')
  <2>1. Open \in SUBSET RequestIds
    BY DEF Open
  <2> QED BY <2>1, LimitedShrinks DEF LimitInv
<1>2. Limited(disk'.request, OpenInFile')
  <2>1. CASE disk' = disk
    BY <2>1 DEF LimitInv, OpenInFile
  <2>2. CASE disk' = Memory
    <3>1. disk'.request = request
      BY <2>2 DEF Memory
    <3>2. OpenInFile' \subseteq Open /\ Open \in SUBSET RequestIds
      BY <3>1 DEF OpenInFile, Open, IsPending, NoRequest
    <3>3. Limited(request, OpenInFile')
      BY <3>2, LimitedShrinks DEF LimitInv
    <3> QED BY <3>1, <3>3
  <2> QED BY <2>1, <2>2
<1> QED BY <1>1, <1>2 DEF LimitInv

\* A request is made when its agent is below the cap and no equivalent pending
\* one is younger than the cooldown, and no decision is under way then.
LEMMA LimitSaveRequest ==
  ASSUME LimitInv, NEW h \in Handlers, SaveRequest(h) PROVE LimitInv'
<1> DEFINE n == nextRequest
<1>1. DecisionInv'
  BY DecisionAcquire DEF LimitInv, Acquire
<1>2. /\ lock = NoHandler /\ lock' = h /\ disk' = disk /\ n \in RequestIds
      /\ ~AtPendingCap(op[h].agent) /\ ~CoolingDown(op[h])
      /\ op' = [op EXCEPT ![h].req = n] /\ pc[h] = "waiting" /\ op[h].kind = "request"
  BY DEF SaveRequest, Locks, MayCreate
<1>3. PICK rec : /\ rec.agent = op[h].agent /\ rec.key = op[h].key /\ rec.created = clock
                 /\ request' = [request EXCEPT ![n] = rec]
  BY DEF SaveRequest
<1>4. op[h] \in Call /\ op'[h].req = n
  <2>1. op[h] \in Call
    BY <1>2, DecisionTypes, CallOf DEF LimitInv
  <2> QED BY <1>2, <2>1, DecisionTypes DEF LimitInv, Call
<1>5. /\ request'[n] = rec
      /\ \A r \in RequestIds \ {n} : request'[r] = request[r]
  BY <1>2, <1>3, DecisionTypes DEF LimitInv
<1>6. Open = {r \in RequestIds : IsPending(r)}
  BY <1>2, HandlersAssumption DEF Open, UnderDecision, IsPending, NoRequest
<1>7. \A r \in Open' \ {n} : r \in Open
  BY <1>2, <1>4, <1>5, HandlersAssumption DEF Open, UnderDecision, IsPending
<1>8. \A r \in Open : r < n /\ r # n /\ request[r] \in LeaseRequest
  <2> SUFFICES ASSUME NEW r \in Open PROVE r < n /\ request[r] \in LeaseRequest
    BY DEF Open, RequestIds
  <2>1. r \in RequestIds /\ request[r] # NoRequest
    BY DEF Open
  <2>2. ~(r >= n)
    BY <2>1 DEF LimitInv, DecisionInv, FreshIds
  <2> QED BY <1>2, <2>1, <2>2, DecisionTypes DEF LimitInv, RequestIds
<1>9. Open' \subseteq RequestIds
  BY DEF Open
<1>10. Capped(request', Open')
  <2> SUFFICES ASSUME NEW a \in Agents
               PROVE  Cardinality({r \in Open' : request'[r].agent = a}) <= MaxPending
    BY DEF Capped
  <2> DEFINE S == {r \in Open : request[r].agent = a}
             T == {r \in Open' : request'[r].agent = a}
  <2>1. S \in SUBSET RequestIds /\ T \in SUBSET RequestIds
    BY <1>9 DEF Open
  <2>2. Cardinality(S) \in Nat /\ Cardinality(T) \in Nat
    BY <2>1, RequestsFinite
  <2>3. CASE a = op[h].agent
    <3>1. S = PendingOf(a)
      BY <1>6 DEF PendingOf
    <3>2. ~(Cardinality(S) >= MaxPending)
      BY <1>2, <2>3, <3>1 DEF AtPendingCap
    <3>3. T \in SUBSET (S \cup {n})
      BY <1>5, <1>7, <1>9
    <3> HIDE DEF S, T
    <3>4. Cardinality(T) <= Cardinality(S) + 1
      BY <2>1, <3>3, OneMoreRequest
    <3>5. Cardinality(T) <= MaxPending
      BY <2>2, <3>2, <3>4, PolicyAssumption
    <3> QED BY <3>5 DEF T
  <2>4. CASE a # op[h].agent
    <3>1. T \in SUBSET S
      BY <1>3, <1>5, <1>7, <1>9, <2>4
    <3>2. Cardinality(S) <= MaxPending
      BY DEF LimitInv, Limited, Capped
    <3> HIDE DEF S, T
    <3>3. Cardinality(T) <= Cardinality(S)
      BY <2>1, <3>1, FewerRequests
    <3>4. Cardinality(T) <= MaxPending
      BY <2>2, <3>2, <3>3, PolicyAssumption
    <3> QED BY <3>4 DEF T
  <2> QED BY <2>3, <2>4
<1>11. Apart(request', Open')
  <2> SUFFICES ASSUME NEW r \in Open', NEW s \in Open', r < s, Equivalent(request'[r], request'[s])
               PROVE  request'[r].created + Cooldown <= request'[s].created
    BY DEF Apart
  <2>1. CASE r # n /\ s # n
    BY <1>5, <1>7, <1>9, <2>1 DEF LimitInv, Limited, Apart
  <2>2. CASE r = n
    <3>1. s # n
      BY <1>9, <2>2 DEF RequestIds
    <3>2. s < n
      BY <1>7, <1>8, <3>1
    <3> QED BY <1>9, <2>2, <3>2 DEF RequestIds
  <2>3. CASE r # n /\ s = n
    <3>1. r \in Open /\ IsPending(r) /\ request'[r] = request[r] /\ request[r] \in LeaseRequest
      BY <1>5, <1>6, <1>7, <1>8, <1>9, <2>3
    <3>2. Equivalent(request[r], op[h])
      BY <1>3, <1>5, <2>3, <3>1 DEF Equivalent
    <3>3. ~(clock < request[r].created + Cooldown)
      BY <1>2, <1>9, <3>1, <3>2 DEF CoolingDown
    <3>4. request[r].created \in Nat /\ clock \in Nat
      BY <3>1, DecisionTypes DEF LimitInv, TypeOK, LeaseRequest
    <3> QED BY <1>3, <1>5, <2>3, <3>1, <3>3, <3>4, PolicyAssumption
  <2> QED BY <2>1, <2>2, <2>3
<1>12. Limited(disk'.request, OpenInFile')
  BY <1>2 DEF LimitInv, OpenInFile
<1> QED BY <1>1, <1>10, <1>11, <1>12 DEF LimitInv, Limited

\* The other steps of a call only take requests out of the open ones.
LEMMA LimitCall ==
  ASSUME LimitInv, NEW h \in Handlers, Enter(h) \/ Acquire(h) \/ Proceed(h), ~SaveRequest(h)
  PROVE  LimitInv'
<1> USE DEF store, history, ids
<1>1. DecisionInv'
  <2>1. Next
    BY DEF Next
  <2> QED BY <2>1, DecisionStep DEF LimitInv
<1>2. disk' \in {disk, Memory}
  BY DEF Enter, Acquire, RefuseRequest, ReuseLease, ReuseAuditFails, RefuseDecision, UpdateRequest,
     Proceed, SaveLease, CommitOk, CommitFails, AuditOk, AuditFails, UndoLease, UndoRequest,
     RecommitOk, RecommitFails
<1>3. CASE Enter(h)
  <2>1. UNCHANGED <<request, lock>> /\ pc[h] = "idle" /\ \E c : op' = [op EXCEPT ![h] = c]
    BY <1>3 DEF Enter, Goto
  <2>2. lock # h
    BY <2>1, DecisionTypes DEF LimitInv, MutationExclusive
  <2>3. \A r : UnderDecision(r)' => UnderDecision(r)
    BY <2>1, <2>2, DecisionTypes DEF LimitInv, UnderDecision
  <2>4. Open' \subseteq Open
    BY <2>1, <2>3 DEF Open, IsPending
  <2> QED BY <1>1, <1>2, <2>1, <2>4, LimitStepBy
<1>4. CASE RefuseRequest(h) \/ ReuseLease(h) \/ ReuseAuditFails(h) \/ RefuseDecision(h)
           \/ AuditOk(h) \/ RecommitOk(h) \/ RecommitFails(h)
  <2>1. request' = request /\ lock' = NoHandler
    BY <1>4 DEF RefuseRequest, ReuseLease, ReuseAuditFails, RefuseDecision, AuditOk, RecommitOk,
       RecommitFails, Finish
  <2>2. Open' \subseteq Open
    BY <2>1, HandlersAssumption DEF Open, UnderDecision, IsPending
  <2> QED BY <1>1, <1>2, <2>1, <2>2, LimitStepBy
<1>5. CASE UpdateRequest(h)
  <2> DEFINE r == op[h].req
  <2>1. /\ IsPending(r) /\ op' = op /\ lock' = h
        /\ \E s : request' = [request EXCEPT ![r].status = s]
        /\ pc[h] = "waiting" /\ op[h].kind \in Decisions
    BY <1>5 DEF UpdateRequest, MayDecide, Locks
  <2>2. r \in RequestIds /\ request[r] \in LeaseRequest
    <3>1. op[h] \in Call
      BY <2>1, DecisionTypes, CallOf DEF LimitInv
    <3>2. r \in RequestIds
      BY <2>1, <3>1 DEF Call, Decisions
    <3> QED BY <2>1, <3>2, DecisionTypes DEF LimitInv, IsPending, NoRequest
  <2>3. /\ \A q \in RequestIds \ {r} : request'[q] = request[q]
        /\ request'[r].agent = request[r].agent /\ request'[r].key = request[r].key
        /\ request'[r].created = request[r].created
    BY <2>1, <2>2, DecisionTypes DEF LimitInv, LeaseRequest
  <2>4. \A q \in RequestIds : UnderDecision(q)' => q = r
    BY <2>1, HandlersAssumption DEF UnderDecision
  <2>5. r \in Open
    BY <2>1, <2>2 DEF Open, IsPending, NoRequest
  <2>6. Open' \subseteq Open
    BY <2>3, <2>4, <2>5 DEF Open, IsPending
  <2>7. \A q \in Open' : q \in RequestIds
    BY DEF Open
  <2> QED BY <1>1, <1>2, <2>3, <2>6, <2>7, LimitStepBy
<1>6. CASE SaveLease(h) \/ CommitOk(h) \/ CommitFails(h) \/ AuditFails(h) \/ UndoLease(h)
  <2>1. request' = request /\ lock' = h /\ lock = h
    BY <1>6 DEF SaveLease, CommitOk, CommitFails, AuditFails, UndoLease, HasLock
  <2>2. op'[h].req = op[h].req
    <3>1. op[h] \in Call
      BY <2>1, DecisionTypes, CallOf DEF LimitInv, MutationExclusive
    <3>2. op' = op \/ op' = [op EXCEPT ![h].tok = nextToken]
      BY <1>6 DEF SaveLease, CommitOk, CommitFails, AuditFails, UndoLease
    <3> QED BY <3>1, <3>2, DecisionTypes DEF LimitInv, Call
  <2>3. \A r : UnderDecision(r)' => UnderDecision(r)
    BY <2>1, <2>2 DEF UnderDecision
  <2>4. Open' \subseteq Open
    BY <2>1, <2>3 DEF Open, IsPending
  <2> QED BY <1>1, <1>2, <2>1, <2>4, LimitStepBy
<1>7. CASE UndoRequest(h)
  <2> DEFINE r == op[h].req
  <2>1. /\ request' = [request EXCEPT ![r] = Original(op[h])] /\ op' = op /\ lock' = h /\ lock = h
        /\ pc[h] = "undoRequest"
    BY <1>7 DEF UndoRequest, Goto
  <2>2. r \in RequestIds /\ request[r].status = SuccessReply(op[h].kind)
    BY <2>1, DecisionTypes DEF LimitInv, MutationExclusive
  <2>3. request[r] \in LeaseRequest /\ r \in Open
    <3>1. request[r] # NoRequest
      BY <2>2 DEF NoRequest, SuccessReply, DecisionStatus
    <3> QED BY <2>1, <2>2, <3>1, DecisionTypes DEF LimitInv, Open, UnderDecision
  <2>4. /\ \A q \in RequestIds \ {r} : request'[q] = request[q]
        /\ request'[r] # NoRequest => /\ request'[r].agent = request[r].agent
                                      /\ request'[r].key = request[r].key
                                      /\ request'[r].created = request[r].created
    BY <2>1, <2>2, <2>3, DecisionTypes DEF LimitInv, LeaseRequest, Original
  <2>5. \A q \in RequestIds : UnderDecision(q)' => q = r
    BY <2>1, HandlersAssumption DEF UnderDecision
  <2>6. Open' \subseteq Open
    BY <2>3, <2>4, <2>5 DEF Open, IsPending
  <2>7. \A q \in Open' : q \in RequestIds /\ request'[q] # NoRequest
    BY DEF Open
  <2> QED BY <1>1, <1>2, <2>4, <2>6, <2>7, LimitStepBy
<1> QED BY <1>3, <1>4, <1>5, <1>6, <1>7 DEF Acquire, Proceed

\* Every step respects the limits; a restart because the file does.
LEMMA LimitStep == LimitInv /\ [Next]_vars => LimitInv'
<1> SUFFICES ASSUME LimitInv, [Next]_vars PROVE LimitInv'
  OBVIOUS
<1>0. DecisionInv'
  BY DecisionStep DEF LimitInv
<1>1. CASE \E h \in Handlers : Enter(h) \/ Acquire(h) \/ Proceed(h)
  BY <1>1, LimitCall, LimitSaveRequest
<1>2. CASE Crash
  <2>1. request' = disk.request /\ disk' = disk /\ lock' = NoHandler
    BY <1>2 DEF Crash
  <2>2. Open' \subseteq OpenInFile /\ OpenInFile' = OpenInFile /\ OpenInFile \in SUBSET RequestIds
    BY <2>1, HandlersAssumption DEF Open, OpenInFile, UnderDecision, IsPending
  <2>3. Limited(request', Open')
    BY <2>1, <2>2, LimitedShrinks DEF LimitInv
  <2> QED BY <1>0, <2>1, <2>2, <2>3 DEF LimitInv
<1>3. CASE Tick \/ UNCHANGED vars
  <2>1. UNCHANGED <<request, disk, lock, op>>
    BY <1>3 DEF Tick, vars, store
  <2> QED BY <1>0, <2>1 DEF LimitInv, Open, OpenInFile, UnderDecision, IsPending
<1> QED BY <1>1, <1>2, <1>3 DEF Next

\* The broker starts without requests.
LEMMA LimitInvariant == Spec => []LimitInv
<1>1. Init => LimitInv
  <2> SUFFICES ASSUME Init PROVE LimitInv
    OBVIOUS
  <2>1. DecisionInv
    <3>1. GateInv
      BY InitLock DEF Init, GateInv, DurableUnlessClosed, HasLock, Memory
    <3> QED BY <3>1 DEF Init, DecisionInv, FreshIds, UndecidedInFlight,
               AckedDecisionDurable, OneDecision, Decided, Memory
  <2>2. Open = {} /\ OpenInFile = {}
    BY DEF Init, Open, OpenInFile, Memory, NoRequest
  <2>3. \A requests : Limited(requests, {})
    <3>1. \A requests, a : {r \in {} : requests[r].agent = a} = {}
      OBVIOUS
    <3> QED BY <3>1, FS_EmptySet, PolicyAssumption DEF Limited, Capped, Apart
  <2> QED BY <2>1, <2>2, <2>3 DEF LimitInv
<1> QED BY <1>1, LimitStep, PTL DEF Spec

\* The pending cap holds for every agent, in memory and in the file, through
\* rollbacks that make requests pending again and restarts.
THEOREM PendingCapped == Spec => []PendingWithinCap
<1>1. LimitInv => PendingWithinCap
  <2> SUFFICES ASSUME LimitInv, NEW a \in Agents
               PROVE  /\ Cardinality(PendingOf(a)) <= MaxPending
                      /\ Cardinality({r \in RequestIds : disk.request[r].status = "pending"
                                         /\ disk.request[r].agent = a}) <= MaxPending
    BY DEF PendingWithinCap
  <2>1. {r \in RequestIds : disk.request[r].status = "pending" /\ disk.request[r].agent = a}
          = {r \in OpenInFile : disk.request[r].agent = a}
    BY DEF OpenInFile
  <2> DEFINE S == {r \in Open : request[r].agent = a}
  <2>2. PendingOf(a) \in SUBSET S /\ S \in SUBSET RequestIds /\ PendingOf(a) \in SUBSET RequestIds
    BY DEF PendingOf, Open, IsPending, NoRequest
  <2>3. Cardinality(S) <= MaxPending
    BY DEF LimitInv, Limited, Capped
  <2> HIDE DEF S
  <2>4. Cardinality(PendingOf(a)) <= MaxPending
    BY <2>2, <2>3, FewerRequests, RequestsFinite, PolicyAssumption
  <2> QED BY <2>1, <2>4 DEF LimitInv, Limited, Capped
<1> QED BY <1>1, LimitInvariant, PTL

\* Two pending requests for the same thing are at least a cooldown apart.
THEOREM CooldownRespected == Spec => []CooldownSeparates
<1>1. LimitInv => CooldownSeparates
  <2>1. \A r \in RequestIds : IsPending(r) => r \in Open
    BY DEF Open, IsPending, NoRequest
  <2> QED BY <2>1 DEF LimitInv, Limited, Apart, CooldownSeparates
<1> QED BY <1>1, LimitInvariant, PTL

------------------------------------------------------------------------------
(* Records *)

\* A reply with its record.
LEMMA OneMoreAnswer ==
  ASSUME AckedIsAudited, NEW rec, NEW ack,
         journal' = journal \cup {rec}, acked' = acked \cup {ack},
         rec.req = ack.req, rec.event \in RecordsFor(ack.reply)
  PROVE  AckedIsAudited'
<1>1. ASSUME NEW a \in acked' PROVE \E e \in journal' : e.req = a.req /\ e.event \in RecordsFor(a.reply)
  <2>1. CASE a = ack
    BY <2>1
  <2>2. CASE a \in acked
    BY <2>2 DEF AckedIsAudited
  <2> QED BY <2>1, <2>2
<1> QED BY <1>1 DEF AckedIsAudited

\* Every success reply was preceded by its audit record: the record is written
\* in the step before the reply and no step takes one away (auditCritical).
THEOREM AnswersAudited == Spec => []AckedIsAudited
<1> DEFINE AuditInv == LockInv /\ AckedIsAudited
<1>1. Init => AuditInv
  BY InitLock DEF Init, AckedIsAudited
<1>2. AuditInv /\ [Next]_vars => AuditInv'
  <2> SUFFICES ASSUME LockInv, AckedIsAudited, [Next]_vars PROVE AckedIsAudited'
    BY LockStep
  <2> USE DEF history
  <2>1. ASSUME acked' = acked, journal \subseteq journal' PROVE AckedIsAudited'
    BY <2>1 DEF AckedIsAudited
  <2>2. ASSUME NEW h \in Handlers, ReuseLease(h) PROVE AckedIsAudited'
    <3>1. PICK t \in Tokens :
            /\ journal' = journal \cup {[event |-> "request_reused_active_lease", req |-> lease[t].req]}
            /\ acked' = acked \cup {[reply |-> "reused", req |-> lease[t].req, tok |-> t]}
      BY <2>2 DEF ReuseLease, Reusable, ReuseRecord
    <3>2. "request_reused_active_lease" \in RecordsFor("reused")
      BY DEF RecordsFor
    <3> QED BY <3>1, <3>2, OneMoreAnswer
  <2>3. ASSUME NEW h \in Handlers, AuditOk(h) PROVE AckedIsAudited'
    <3>1. op[h] \in Call
      <4>1. pc[h] # "idle"
        BY <2>3 DEF AuditOk, HasLock
      <4> QED BY <4>1, CallOf DEF LockInv
    <3>2. /\ journal' = journal \cup {[event |-> SuccessEvent(op[h].kind), req |-> op[h].req]}
          /\ acked' = acked \cup {[reply |-> SuccessReply(op[h].kind), req |-> op[h].req, tok |-> op[h].tok]}
      BY <2>3 DEF AuditOk, Ack, SuccessRecord
    <3>3. op[h].kind = "request" \/ op[h].kind = "approve" \/ op[h].kind = "deny" \/ op[h].kind = "cancel"
      BY <3>1, CallKinds DEF Decisions
    <3>4. SuccessEvent(op[h].kind) \in RecordsFor(SuccessReply(op[h].kind))
      BY <3>3 DEF SuccessReply, SuccessEvent, DecisionStatus, RecordsFor
    <3> QED BY <3>2, <3>4, OneMoreAnswer
  <2>4. ASSUME NEW h \in Handlers, Enter(h) \/ Acquire(h) \/ Proceed(h), ~ReuseLease(h), ~AuditOk(h)
        PROVE  acked' = acked /\ journal \subseteq journal'
    <3>1. CASE ReuseAuditFails(h) \/ AuditFails(h)
      BY <3>1 DEF ReuseAuditFails, AuditFails
    <3>2. CASE ~ReuseAuditFails(h) /\ ~AuditFails(h)
      BY <2>4, <3>2 DEF Enter, Acquire, Proceed, RefuseRequest, SaveRequest, RefuseDecision, UpdateRequest,
         SaveLease, CommitOk, CommitFails, UndoLease, UndoRequest, RecommitOk, RecommitFails
    <3> QED BY <3>1, <3>2
  <2>5. CASE Crash \/ Tick \/ UNCHANGED vars
    BY <2>1, <2>5 DEF Crash, Tick, vars
  <2> QED BY <2>1, <2>2, <2>3, <2>4, <2>5 DEF Next
<1>3. AuditInv => AckedIsAudited
  OBVIOUS
<1> QED BY <1>1, <1>2, <1>3, PTL DEF Spec

------------------------------------------------------------------------------
(* Leases and approvals *)

ApprovedIn(requests) == {r \in RequestIds : requests[r].status = "approved"}

\* Leases and a set of requests correspond one to one.
Paired(approved, leases) ==
  /\ \A t \in Tokens : leases[t] # NoLease => leases[t].req \in approved
  /\ \A t, u \in Tokens : leases[t] # NoLease /\ leases[t].req = leases[u].req => t = u
  /\ \A r \in approved : \E t \in Tokens : leases[t].req = r

\* For snapshots, this is consistency.
LEMMA PairedSnapshot ==
  ASSUME NEW s \in Snapshot, Paired(ApprovedIn(s.request), s.lease) PROVE Consistent(s)
BY DEF Consistent, Paired, ApprovedIn

\* An approval's lease pairs the request that was approved without one.
LEMMA PairedGrows ==
  ASSUME NEW A \in SUBSET RequestIds, NEW leases \in [Tokens -> Lease \cup {NoLease}],
         NEW r \in A, NEW t \in Tokens, NEW rec, rec.req = r,
         Paired(A \ {r}, leases), leases[t] = NoLease
  PROVE  Paired(A, [leases EXCEPT ![t] = rec])
<1> DEFINE after == [leases EXCEPT ![t] = rec]
<1>1. /\ after[t] = rec
      /\ \A u \in Tokens \ {t} : after[u] = leases[u]
  OBVIOUS
<1>2. NoLease.req = 0 /\ 0 \notin RequestIds
  BY DEF NoLease, RequestIds
<1>3. rec # NoLease
  BY <1>2
<1> HIDE DEF after
<1>4. \A u \in Tokens : after[u] # NoLease => after[u].req \in A
  BY <1>1 DEF Paired
<1>5. \A u \in Tokens \ {t} : after[u] # NoLease => after[u].req # r
  BY <1>1 DEF Paired
<1>6. \A u \in Tokens \ {t} : after[u].req = r => after[u] # NoLease
  BY <1>2
<1>7. \A u, v \in Tokens : after[u] # NoLease /\ after[u].req = after[v].req => u = v
  BY <1>1, <1>5, <1>6 DEF Paired
<1>8. \A q \in A : \E u \in Tokens : after[u].req = q
  <2>1. ASSUME NEW q \in A, q # r PROVE \E u \in Tokens : after[u].req = q
    <3>1. PICK u \in Tokens : leases[u].req = q
      BY <2>1 DEF Paired
    <3>2. u # t
      BY <1>2, <3>1
    <3> QED BY <1>1, <3>1, <3>2
  <2> QED BY <1>1, <2>1
<1> QED BY <1>4, <1>7, <1>8 DEF Paired, after

\* The rollback's deletion leaves the request without one, and the others as
\* they were.
LEMMA PairedShrinks ==
  ASSUME NEW A \in SUBSET RequestIds, NEW leases \in [Tokens -> Lease \cup {NoLease}],
         NEW r \in RequestIds, NEW t \in Tokens, leases[t].req = r, Paired(A, leases)
  PROVE  Paired(A \ {r}, [leases EXCEPT ![t] = NoLease])
<1> DEFINE after == [leases EXCEPT ![t] = NoLease]
<1>1. /\ after[t] = NoLease
      /\ \A u \in Tokens \ {t} : after[u] = leases[u]
  OBVIOUS
<1>2. NoLease.req = 0 /\ 0 \notin RequestIds
  BY DEF NoLease, RequestIds
<1> HIDE DEF after
<1>3. \A u \in Tokens : after[u] # NoLease => u # t /\ after[u].req \in A /\ after[u].req # r
  BY <1>1 DEF Paired
<1>4. \A u, v \in Tokens : after[u] # NoLease /\ after[u].req = after[v].req => u = v
  BY <1>1, <1>2, <1>3 DEF Paired
<1>5. \A q \in A \ {r} : \E u \in Tokens : after[u].req = q
  BY <1>1 DEF Paired
<1> QED BY <1>3, <1>4, <1>5 DEF Paired, after

\* Tokens not handed out yet name no lease, in memory or in the file.
FreshTokens == \A t \in Tokens : t >= nextToken =>
  lease[t] = NoLease /\ disk.lease[t] = NoLease

\* An approval between its two changes to the store, or between their undoing.
Half(h) ==
  IF op[h].kind = "approve" /\ pc[h] \in {"saveLease", "undoRequest"} THEN {op[h].req} ELSE {}

LeaseInFlight(h) == op[h].kind = "approve" /\ pc[h] \in {"commit", "audit", "undoLease"}

\* The file is always paired, memory up to the approval that is half made.
PairInv ==
  /\ DecisionInv
  /\ FreshTokens
  /\ Paired(ApprovedIn(disk.request), disk.lease)
  /\ lock = NoHandler => Paired(ApprovedIn(request), lease)
  /\ \A h \in Handlers : lock = h =>
       /\ Paired(ApprovedIn(request) \ Half(h), lease)
       /\ LeaseInFlight(h) => lease[op[h].tok].req = op[h].req

\* The types of the parts.
LEMMA PairTypes ==
  ASSUME PairInv
  PROVE  /\ LockInv /\ TypeOK /\ MutationExclusive /\ DecisionInv
         /\ request \in [RequestIds -> LeaseRequest \cup {NoRequest}]
         /\ lease \in [Tokens -> Lease \cup {NoLease}]
         /\ disk.lease \in [Tokens -> Lease \cup {NoLease}]
         /\ pc \in [Handlers -> Steps] /\ op \in [Handlers -> Call \cup {NoCall}]
BY DecisionTypes DEF PairInv, TypeOK, Memory, Snapshot

\* What has to be shown of a step of the handler that gets or has the lock.
LEMMA PairStepBy ==
  ASSUME PairInv, DecisionInv', FreshTokens', NEW h \in Handlers,
         disk' \in {disk, Memory},
         disk' # disk => Paired(ApprovedIn(request), lease),
         lock' \in {h, NoHandler},
         lock' = NoHandler => Paired(ApprovedIn(request'), lease'),
         lock' = h => /\ Paired(ApprovedIn(request') \ Half(h)', lease')
                      /\ LeaseInFlight(h)' => lease'[op'[h].tok].req = op'[h].req
  PROVE  PairInv'
<1>1. Paired(ApprovedIn(disk'.request), disk'.lease)
  BY DEF PairInv, Memory
<1>2. ASSUME NEW g \in Handlers, lock' = g
      PROVE  /\ Paired(ApprovedIn(request') \ Half(g)', lease')
             /\ LeaseInFlight(g)' => lease'[op'[g].tok].req = op'[g].req
  BY <1>2, HandlersAssumption
<1> QED BY <1>1, <1>2 DEF PairInv

\* The steps that get the lock decide nothing yet, but for an approval, which
\* from here on is half made.
LEMMA PairAcquire ==
  ASSUME PairInv, NEW h \in Handlers, Acquire(h) PROVE PairInv'
<1> USE DEF store, history, ids
<1>1. DecisionInv'
  BY DecisionAcquire DEF PairInv
<1>2. /\ disk' = disk /\ lease' = lease /\ nextToken' = nextToken /\ lock = NoHandler
      /\ lock' \in {h, NoHandler}
  BY DEF Acquire, RefuseRequest, ReuseLease, ReuseAuditFails, SaveRequest,
     RefuseDecision, UpdateRequest, Locks, Finish
<1>3. FreshTokens'
  BY <1>2 DEF PairInv, FreshTokens
<1>4. Paired(ApprovedIn(request), lease)
  BY <1>2 DEF PairInv
<1>5. CASE RefuseRequest(h) \/ ReuseLease(h) \/ ReuseAuditFails(h) \/ RefuseDecision(h)
  <2>1. request' = request /\ lock' = NoHandler
    BY <1>5 DEF RefuseRequest, ReuseLease, ReuseAuditFails, RefuseDecision, Finish
  <2> QED BY <1>1, <1>2, <1>3, <1>4, <2>1, HandlersAssumption, PairStepBy
<1>6. CASE SaveRequest(h)
  <2> DEFINE n == nextRequest
  <2>1. /\ n \in RequestIds /\ lock' = h /\ op[h] \in Call /\ op[h].kind = "request"
        /\ \E rec : rec.status = "pending" /\ request' = [request EXCEPT ![n] = rec]
        /\ op' = [op EXCEPT ![h].req = n]
    <3>1. pc[h] = "waiting" /\ op[h].kind = "request"
      BY <1>6 DEF SaveRequest, Locks
    <3>2. op[h] \in Call
      BY <3>1, PairTypes, CallOf
    <3> QED BY <1>6, <3>1, <3>2 DEF SaveRequest
  <2>2. request[n].status # "approved"
    BY <2>1 DEF PairInv, DecisionInv, FreshIds, NoRequest, RequestIds
  <2>3. ApprovedIn(request') = ApprovedIn(request)
    BY <2>1, <2>2, PairTypes DEF ApprovedIn
  <2>4. op'[h].kind = "request"
    BY <2>1, PairTypes DEF Call
  <2>5. Half(h)' = {} /\ ~LeaseInFlight(h)'
    BY <2>4 DEF Half, LeaseInFlight
  <2>6. ApprovedIn(request') \ Half(h)' = ApprovedIn(request)
    BY <2>3, <2>5
  <2> QED BY <1>1, <1>2, <1>3, <1>4, <2>1, <2>5, <2>6, HandlersAssumption, PairStepBy
<1>7. CASE UpdateRequest(h)
  <2> DEFINE r == op[h].req
             status == DecisionStatus(op[h].kind)
  <2>1. /\ r \in RequestIds /\ request[r].status = "pending" /\ lock' = h
        /\ op[h] \in Call /\ op[h].kind \in Decisions /\ op' = op
        /\ request' = [request EXCEPT ![r].status = status]
        /\ pc' = [pc EXCEPT ![h] = NextStep(op[h].kind)]
    <3>1. pc[h] = "waiting" /\ op[h].kind \in Decisions
      BY <1>7 DEF UpdateRequest, Locks
    <3>2. op[h] \in Call
      BY <3>1, PairTypes, CallOf
    <3>3. r \in RequestIds
      BY <3>1, <3>2 DEF Call, Decisions
    <3> QED BY <1>7, <3>1, <3>2, <3>3 DEF UpdateRequest, MayDecide, IsPending
  <2>2. request[r] \in LeaseRequest
    BY <2>1, PairTypes DEF NoRequest
  <2>3. /\ request'[r].status = status
        /\ \A q \in RequestIds \ {r} : request'[q] = request[q]
    BY <2>1, <2>2, PairTypes DEF LeaseRequest
  <2>4. pc'[h] = NextStep(op[h].kind)
    BY <2>1, PairTypes
  <2>5. ApprovedIn(request') \ Half(h)' = ApprovedIn(request) /\ ~LeaseInFlight(h)'
    <3>1. CASE op[h].kind = "approve"
      <4>1. Half(h)' = {r} /\ ~LeaseInFlight(h)'
        BY <2>1, <2>4, <3>1 DEF Half, LeaseInFlight, NextStep
      <4> QED BY <2>1, <2>3, <4>1 DEF ApprovedIn
    <3>2. CASE op[h].kind # "approve"
      <4>1. Half(h)' = {} /\ ~LeaseInFlight(h)'
        BY <2>1, <3>2 DEF Half, LeaseInFlight
      <4>2. status = "denied"
        BY <3>2 DEF DecisionStatus
      <4> QED BY <2>1, <2>3, <4>1, <4>2 DEF ApprovedIn
    <3> QED BY <3>1, <3>2
  <2> QED BY <1>1, <1>2, <1>3, <1>4, <2>1, <2>5, HandlersAssumption, PairStepBy
<1> QED BY <1>5, <1>6, <1>7 DEF Acquire

\* The steps of the approval and of its rollback: the lease is saved for the
\* request that has none, deleted before its request is pending again, and the
\* file is written only in between.
LEMMA PairProceed ==
  ASSUME PairInv, NEW h \in Handlers, Proceed(h) PROVE PairInv'
<1> USE DEF store, history, ids
<1> DEFINE r == op[h].req
<1>1. DecisionInv'
  BY DecisionProceed DEF PairInv
<1>2. lock = h /\ pc[h] \notin {"idle", "waiting"}
  BY DEF Proceed, HasLock, Goto, SaveLease, CommitOk, CommitFails, AuditOk,
     AuditFails, UndoLease, UndoRequest, RecommitOk, RecommitFails
<1>3. op[h] \in Call /\ r \in RequestIds
  BY <1>2, PairTypes, CallOf DEF MutationExclusive
<1>4. /\ Paired(ApprovedIn(request) \ Half(h), lease)
      /\ LeaseInFlight(h) => lease[op[h].tok].req = r
  BY <1>2 DEF PairInv
<1>5. pc[h] # "recommit" => request[r].status = SuccessReply(op[h].kind)
  BY <1>2, PairTypes DEF MutationExclusive
<1>6. CASE SaveLease(h)
  <2> DEFINE t == nextToken
  <2>1. /\ t \in Tokens /\ pc[h] = "saveLease" /\ lock' = lock /\ t' = t + 1
        /\ request' = request /\ disk' = disk
        /\ pc' = [pc EXCEPT ![h] = "commit"] /\ op' = [op EXCEPT ![h].tok = t]
    BY <1>6 DEF SaveLease, HasLock
  <2>2. PICK rec : rec.req = r /\ lease' = [lease EXCEPT ![t] = rec]
    BY <1>6 DEF SaveLease
  <2>3. op[h].kind = "approve"
    BY <2>1, PairTypes DEF MutationExclusive
  <2>4. r \in ApprovedIn(request)
    BY <1>3, <1>5, <2>1, <2>3 DEF ApprovedIn, SuccessReply, DecisionStatus
  <2>5. Half(h) = {r}
    BY <2>1, <2>3 DEF Half
  <2>6. lease[t] = NoLease /\ disk.lease[t] = NoLease
    BY <2>1 DEF PairInv, FreshTokens, Tokens
  <2>7. Paired(ApprovedIn(request), lease')
    <3>1. ApprovedIn(request) \in SUBSET RequestIds
      BY DEF ApprovedIn
    <3> QED BY <1>4, <2>1, <2>2, <2>4, <2>5, <2>6, <3>1, PairTypes, PairedGrows
  <2>8. FreshTokens'
    BY <2>1, <2>2, PairTypes DEF PairInv, FreshTokens, Tokens
  <2>9. op'[h].tok = t /\ op'[h].req = r /\ pc'[h] = "commit"
    BY <1>3, <2>1, PairTypes DEF Call
  <2>10. lease'[t].req = r
    BY <2>1, <2>2, PairTypes
  <2>11. ApprovedIn(request') \ Half(h)' = ApprovedIn(request)
    BY <2>1, <2>9 DEF Half
  <2> QED BY <1>1, <1>2, <2>1, <2>7, <2>8, <2>9, <2>10, <2>11, HandlersAssumption, PairStepBy
<1>7. CASE CommitOk(h) \/ CommitFails(h) \/ AuditOk(h) \/ AuditFails(h) \/ RecommitOk(h) \/ RecommitFails(h)
  <2>1. /\ request' = request /\ lease' = lease /\ nextToken' = nextToken
        /\ disk' \in {disk, Memory} /\ lock' \in {h, NoHandler}
        /\ pc[h] \in {"commit", "audit", "recommit"}
    BY <1>2, <1>7 DEF CommitOk, CommitFails, AuditOk, AuditFails, RecommitOk, RecommitFails,
       HasLock, Goto, Finish
  <2>2. Half(h) = {}
    BY <2>1 DEF Half
  <2>3. Paired(ApprovedIn(request), lease)
    <3>1. ApprovedIn(request) \ Half(h) = ApprovedIn(request)
      BY <2>2
    <3> QED BY <1>4, <3>1
  <2>4. FreshTokens'
    BY <2>1 DEF PairInv, FreshTokens, Memory
  <2>5. lock' = h => /\ op' = op /\ Half(h)' = {} /\ pc[h] # "recommit"
                     /\ LeaseInFlight(h)' => LeaseInFlight(h)
    <3> SUFFICES ASSUME lock' = h PROVE op' = op /\ Half(h)' = {} /\ pc[h] # "recommit"
                                        /\ (LeaseInFlight(h)' => LeaseInFlight(h))
      OBVIOUS
    <3>1. CASE CommitOk(h)
      <4>1. op' = op /\ pc[h] = "commit" /\ pc'[h] = "audit"
        BY <3>1, PairTypes DEF CommitOk, Goto
      <4> QED BY <4>1 DEF Half, LeaseInFlight
    <3>2. CASE CommitFails(h) \/ AuditFails(h)
      <4>1. op' = op /\ pc[h] \in {"commit", "audit"} /\ pc'[h] = RollbackStart(op[h].kind)
        BY <3>2, PairTypes DEF CommitFails, AuditFails, HasLock
      <4> QED BY <4>1 DEF Half, LeaseInFlight, RollbackStart
    <3>3. CASE AuditOk(h) \/ RecommitOk(h) \/ RecommitFails(h)
      BY <3>3, HandlersAssumption DEF AuditOk, RecommitOk, RecommitFails, Finish
    <3> QED BY <1>7, <3>1, <3>2, <3>3
  <2>6. lock' = h => ApprovedIn(request') \ Half(h)' = ApprovedIn(request)
    BY <2>1, <2>5
  <2> QED BY <1>1, <1>4, <2>1, <2>3, <2>4, <2>5, <2>6, PairStepBy
<1>8. CASE UndoLease(h)
  <2> DEFINE t == op[h].tok
  <2>1. /\ pc[h] = "undoLease" /\ pc' = [pc EXCEPT ![h] = "undoRequest"]
        /\ lease' = [lease EXCEPT ![t] = NoLease]
        /\ UNCHANGED <<request, disk, lock, op, nextToken>>
    BY <1>8 DEF UndoLease, Goto
  <2>2. op[h].kind = "approve" /\ t \in Tokens
    BY <2>1, PairTypes DEF MutationExclusive
  <2>3. Half(h) = {} /\ LeaseInFlight(h) /\ Half(h)' = {r} /\ ~LeaseInFlight(h)'
    <3>1. pc'[h] = "undoRequest"
      BY <2>1, PairTypes
    <3> QED BY <2>1, <2>2, <3>1 DEF Half, LeaseInFlight
  <2>4. Paired(ApprovedIn(request') \ Half(h)', lease')
    <3>1. ApprovedIn(request) \ Half(h) = ApprovedIn(request) /\ ApprovedIn(request) \in SUBSET RequestIds
      BY <2>3 DEF ApprovedIn
    <3>2. Paired(ApprovedIn(request) \ {r}, lease')
      BY <1>3, <1>4, <2>1, <2>2, <2>3, <3>1, PairTypes, PairedShrinks
    <3> QED BY <2>1, <2>3, <3>2
  <2>5. FreshTokens'
    BY <2>1, <2>2, PairTypes DEF PairInv, FreshTokens
  <2> QED BY <1>1, <1>2, <2>1, <2>3, <2>4, <2>5, HandlersAssumption, PairStepBy
<1>9. CASE UndoRequest(h)
  <2>1. /\ pc[h] = "undoRequest" /\ pc' = [pc EXCEPT ![h] = "recommit"]
        /\ request' = [request EXCEPT ![r] = Original(op[h])]
        /\ UNCHANGED <<lease, disk, lock, op, nextToken>>
    BY <1>9 DEF UndoRequest, Goto
  <2>2. Original(op[h]).status # "approved"
    <3>1. request[r] \in LeaseRequest \/ request[r] = NoRequest
      BY <1>3, PairTypes
    <3> QED BY <3>1 DEF Original, NoRequest, LeaseRequest
  <2>3. ApprovedIn(request') = ApprovedIn(request) \ {r}
    BY <1>3, <2>1, <2>2, PairTypes DEF ApprovedIn
  <2>4. ApprovedIn(request) \ {r} = ApprovedIn(request) \ Half(h)
    <3>1. CASE op[h].kind = "approve"
      BY <2>1, <3>1 DEF Half
    <3>2. CASE op[h].kind # "approve"
      <4>1. Half(h) = {} /\ request[r].status # "approved"
        BY <1>5, <2>1, <3>2 DEF Half, SuccessReply, DecisionStatus
      <4> QED BY <4>1 DEF ApprovedIn
    <3> QED BY <3>1, <3>2
  <2>5. Half(h)' = {} /\ ~LeaseInFlight(h)'
    <3>1. pc'[h] = "recommit"
      BY <2>1, PairTypes
    <3> QED BY <3>1 DEF Half, LeaseInFlight
  <2>6. Paired(ApprovedIn(request') \ Half(h)', lease')
    <3>1. ApprovedIn(request') \ Half(h)' = ApprovedIn(request) \ Half(h)
      BY <2>3, <2>4, <2>5
    <3> QED BY <1>4, <2>1, <3>1
  <2>7. FreshTokens'
    BY <2>1 DEF PairInv, FreshTokens
  <2> QED BY <1>1, <1>2, <2>1, <2>5, <2>6, <2>7, HandlersAssumption, PairStepBy
<1> QED BY <1>6, <1>7, <1>8, <1>9 DEF Proceed

\* A call that enters has not locked; a restart reads a file that is paired.
LEMMA PairStep == PairInv /\ [Next]_vars => PairInv'
<1> SUFFICES ASSUME PairInv, [Next]_vars PROVE PairInv'
  OBVIOUS
<1> USE DEF store, history, ids
<1>0. DecisionInv'
  BY DecisionStep DEF PairInv
<1>1. ASSUME NEW h \in Handlers, Enter(h) PROVE PairInv'
  <2>1. /\ UNCHANGED <<request, lease, disk, nextToken, lock>>
        /\ pc[h] = "idle" /\ pc' = [pc EXCEPT ![h] = "waiting"]
        /\ \E c : op' = [op EXCEPT ![h] = c]
    BY <1>1 DEF Enter, Goto
  <2>2. lock # h
    BY <2>1, PairTypes DEF MutationExclusive
  <2>3. ASSUME NEW g \in Handlers, lock = g
        PROVE  op'[g] = op[g] /\ Half(g)' = Half(g) /\ LeaseInFlight(g)' = LeaseInFlight(g)
    <3>1. op'[g] = op[g] /\ pc'[g] = pc[g]
      BY <2>1, <2>2, <2>3, PairTypes
    <3> QED BY <3>1 DEF Half, LeaseInFlight
  <2> QED BY <1>0, <2>1, <2>3 DEF PairInv, FreshTokens
<1>2. CASE \E h \in Handlers : Acquire(h) \/ Proceed(h)
  BY <1>2, PairAcquire, PairProceed
<1>3. CASE Crash
  <2>1. /\ request' = disk.request /\ lease' = disk.lease /\ lock' = NoHandler
        /\ UNCHANGED <<disk, nextToken>>
    BY <1>3 DEF Crash
  <2> QED BY <1>0, <2>1, HandlersAssumption DEF PairInv, FreshTokens
<1>4. CASE Tick \/ UNCHANGED vars
  <2>1. UNCHANGED <<request, lease, disk, nextToken, lock, op, pc>>
    BY <1>4 DEF Tick, vars
  <2> QED BY <1>0, <2>1 DEF PairInv, FreshTokens, Half, LeaseInFlight
<1> QED BY <1>1, <1>2, <1>3, <1>4 DEF Next

\* The broker starts without leases.
LEMMA PairInit == Init => PairInv
<1> SUFFICES ASSUME Init PROVE PairInv
  OBVIOUS
<1>1. DecisionInv
  <2>1. GateInv
    BY InitLock DEF Init, GateInv, DurableUnlessClosed, HasLock, Memory
  <2> QED BY <2>1 DEF Init, DecisionInv, FreshIds, UndecidedInFlight,
             AckedDecisionDurable, OneDecision, Decided, Memory
<1>2. ApprovedIn(request) = {} /\ disk.request = request /\ disk.lease = lease
  BY DEF Init, ApprovedIn, NoRequest, Memory
<1>3. Paired(ApprovedIn(request), lease) /\ FreshTokens
  BY <1>2 DEF Init, Paired, FreshTokens
<1>4. lock = NoHandler
  BY DEF Init
<1> QED BY <1>1, <1>2, <1>3, <1>4, HandlersAssumption DEF PairInv

\* And they stay paired.
LEMMA PairInvariant == Spec => []PairInv
BY PairInit, PairStep, PTL DEF Spec

\* No crash, failed commit or rollback leaves an approved request without its
\* lease or a lease without its approved request, in the file at any time and
\* in memory between mutations (ApproveRequest and its rollback).
THEOREM LeasesPaired == Spec => []LeaseIffApproved
<1>1. PairInv => LeaseIffApproved
  <2> SUFFICES ASSUME PairInv PROVE LeaseIffApproved
    OBVIOUS
  <2>1. disk \in Snapshot /\ Memory \in Snapshot
    BY PairTypes DEF TypeOK
  <2>2. Consistent(disk)
    BY <2>1, PairedSnapshot DEF PairInv
  <2>3. lock = NoHandler => Consistent(Memory)
    BY <2>1, PairedSnapshot DEF PairInv, Memory
  <2> QED BY <2>2, <2>3 DEF LeaseIffApproved
<1> QED BY <1>1, PairInvariant, PTL

------------------------------------------------------------------------------
(* Tokens that were handed out *)

HandedOut == {a \in acked : a.reply \in {"approved", "reused"}}

\* What was handed out is in memory and in the file.
HandedKept == \A a \in HandedOut :
  /\ a.tok \in Tokens /\ lease[a.tok] # NoLease
  /\ lease[a.tok].req = a.req
  /\ disk.lease[a.tok] = lease[a.tok]

\* A lease in memory is in the file, but for the one of the approval under way,
UnderWay(t) == \E h \in Handlers : lock = h /\ LeaseInFlight(h) /\ op[h].tok = t
LeasesInFile == \A t \in Tokens :
  lease[t] # NoLease => disk.lease[t] = lease[t] \/ UnderWay(t)

\* and that one has not been handed out, by the approval or by a reuse.
NotHandedOut == \A a \in HandedOut : ~UnderWay(a.tok)

HandInv == PairInv /\ HandedKept /\ LeasesInFile /\ NotHandedOut

\* A step that tells nobody of a lease, and changes none that was handed out.
LEMMA HandedStay ==
  ASSUME HandInv, acked' = acked, disk' \in {disk, Memory},
         \A a \in HandedOut : lease'[a.tok] = lease[a.tok]
  PROVE  HandedKept'
<1>1. HandedOut' = HandedOut
  BY DEF HandedOut
<1>2. ASSUME NEW a \in HandedOut PROVE disk'.lease[a.tok] = lease[a.tok]
  BY DEF HandInv, HandedKept, Memory
<1> QED BY <1>1, <1>2 DEF HandInv, HandedKept

\* With nothing under way, and with the file that memory is, every lease in
\* memory is in the file.
LEMMA AllInFile ==
  ASSUME HandInv, lock = NoHandler \/ disk = Memory, NEW t \in Tokens, lease[t] # NoLease
  PROVE  disk.lease[t] = lease[t]
BY HandlersAssumption DEF HandInv, LeasesInFile, UnderWay, Memory

\* Getting the lock changes no lease; a reuse hands out one that is in the file.
LEMMA HandAcquire ==
  ASSUME HandInv, NEW h \in Handlers, Acquire(h) PROVE HandInv'
<1> USE DEF store, history, ids
<1>1. PairInv'
  BY PairAcquire DEF HandInv
<1>2. lease' = lease /\ disk' = disk /\ lock = NoHandler /\ lock' \in {h, NoHandler}
  BY DEF Acquire, RefuseRequest, ReuseLease, ReuseAuditFails, SaveRequest,
     RefuseDecision, UpdateRequest, Locks, Finish
<1>3. LeasesInFile'
  BY <1>2, AllInFile DEF LeasesInFile
<1>4. \A t : ~UnderWay(t)'
  <2>1. CASE lock' = NoHandler
    BY <2>1, HandlersAssumption DEF UnderWay
  <2>2. CASE lock' # NoHandler
    <3>1. CASE SaveRequest(h)
      <4>1. pc[h] = "waiting" /\ op[h].kind = "request" /\ op' = [op EXCEPT ![h].req = nextRequest]
        BY <3>1 DEF SaveRequest, Locks
      <4>2. op[h] \in Call
        BY <4>1, PairTypes, CallOf DEF HandInv
      <4>3. op'[h].kind = "request"
        BY <4>1, <4>2, PairTypes DEF HandInv, Call
      <4>4. ~LeaseInFlight(h)'
        BY <4>3 DEF LeaseInFlight
      <4> QED BY <1>2, <2>2, <4>4 DEF UnderWay
    <3>2. CASE UpdateRequest(h)
      <4>1. op' = op /\ pc'[h] = NextStep(op[h].kind)
        BY <3>2, PairTypes DEF UpdateRequest, HandInv
      <4>2. ~LeaseInFlight(h)'
        BY <4>1 DEF LeaseInFlight, NextStep
      <4> QED BY <1>2, <2>2, <4>2 DEF UnderWay
    <3> QED BY <2>2, <3>1, <3>2, HandlersAssumption DEF Acquire, RefuseRequest, ReuseLease,
            ReuseAuditFails, RefuseDecision, Finish
  <2> QED BY <2>1, <2>2
<1>5. HandedKept'
  <2>1. CASE ReuseLease(h)
    <3>1. PICK t \in Tokens : /\ lease[t] # NoLease
                              /\ acked' = acked \cup {[reply |-> "reused", req |-> lease[t].req, tok |-> t]}
      BY <2>1 DEF ReuseLease, Reusable, Live
    <3>2. disk.lease[t] = lease[t]
      BY <1>2, <3>1, AllInFile
    <3> QED BY <1>2, <3>1, <3>2 DEF HandInv, HandedKept, HandedOut
  <2>2. CASE ~ReuseLease(h)
    <3>1. acked' = acked
      BY <2>2 DEF Acquire, RefuseRequest, ReuseAuditFails, SaveRequest, RefuseDecision, UpdateRequest
    <3> QED BY <1>2, <3>1, HandedStay
  <2> QED BY <2>1, <2>2
<1>6. NotHandedOut'
  BY <1>4 DEF NotHandedOut
<1> QED BY <1>1, <1>3, <1>5, <1>6 DEF HandInv

\* The mutation under the lock adds or deletes only its own lease, and answers
\* when the file holds it.
LEMMA HandProceed ==
  ASSUME HandInv, NEW h \in Handlers, Proceed(h) PROVE HandInv'
<1> USE DEF store, history, ids
<1>1. PairInv'
  BY PairProceed DEF HandInv
<1>2. lock = h /\ pc[h] \notin {"idle", "waiting"}
  BY DEF Proceed, HasLock, Goto, SaveLease, CommitOk, CommitFails, AuditOk,
     AuditFails, UndoLease, UndoRequest, RecommitOk, RecommitFails
<1>3. op[h] \in Call
  BY <1>2, PairTypes, CallOf DEF HandInv
<1>4. \A t : UnderWay(t) <=> LeaseInFlight(h) /\ op[h].tok = t
  BY <1>2 DEF UnderWay
<1>5. CASE SaveLease(h)
  <2> DEFINE t == nextToken
  <2>1. /\ t \in Tokens /\ pc[h] = "saveLease" /\ lock' = lock /\ acked' = acked /\ disk' = disk
        /\ pc' = [pc EXCEPT ![h] = "commit"] /\ op' = [op EXCEPT ![h].tok = t]
        /\ \E rec : lease' = [lease EXCEPT ![t] = rec]
    BY <1>5 DEF SaveLease, HasLock
  <2>2. lease[t] = NoLease
    BY <2>1 DEF HandInv, PairInv, FreshTokens, Tokens
  <2>3. \A u \in Tokens \ {t} : lease'[u] = lease[u]
    BY <2>1, PairTypes DEF HandInv
  <2>4. \A a \in HandedOut : a.tok # t
    BY <2>2 DEF HandInv, HandedKept
  <2>5. HandedKept'
    <3>1. \A a \in HandedOut : lease'[a.tok] = lease[a.tok]
      BY <2>3, <2>4 DEF HandInv, HandedKept
    <3> QED BY <2>1, <3>1, HandedStay
  <2>6. op[h].kind = "approve"
    BY <2>1, PairTypes DEF HandInv, MutationExclusive
  <2>7. op'[h].tok = t /\ op'[h].kind = "approve" /\ pc'[h] = "commit"
    BY <1>3, <2>1, <2>6, PairTypes DEF HandInv, Call
  <2>8. \A u : UnderWay(u)' <=> u = t
    BY <1>2, <2>1, <2>7 DEF UnderWay, LeaseInFlight
  <2>9. \A u : ~UnderWay(u)
    BY <1>4, <2>1 DEF LeaseInFlight
  <2>10. LeasesInFile'
    BY <2>1, <2>3, <2>8, <2>9 DEF HandInv, LeasesInFile
  <2>11. NotHandedOut'
    BY <2>1, <2>4, <2>8 DEF NotHandedOut, HandedOut
  <2> QED BY <1>1, <2>5, <2>10, <2>11 DEF HandInv
<1>6. CASE AuditOk(h)
  <2> DEFINE new == [reply |-> SuccessReply(op[h].kind), req |-> op[h].req, tok |-> op[h].tok]
  <2>1. /\ acked' = acked \cup {new} /\ lock' = NoHandler
        /\ UNCHANGED <<lease, disk>> /\ pc[h] = "audit"
    BY <1>6 DEF AuditOk, Ack, Finish, HasLock
  <2>2. disk = Memory
    BY <1>2, <2>1, PairTypes DEF HandInv, PairInv, DecisionInv, GateInv, HasLock
  <2>3. \A t : ~UnderWay(t)'
    BY <2>1, HandlersAssumption DEF UnderWay
  <2>4. LeasesInFile' /\ NotHandedOut'
    <3>1. LeasesInFile'
      BY <2>1, <2>2, AllInFile DEF LeasesInFile
    <3> QED BY <3>1, <2>3 DEF NotHandedOut
  <2>5. new.reply \in {"approved", "reused"} => op[h].kind = "approve"
    <3>1. SuccessReply(op[h].kind) \in {"approved", "reused"} => op[h].kind = "approve"
      BY DEF SuccessReply, DecisionStatus
    <3> QED BY <3>1
  <2>6. op[h].kind = "approve" => op[h].tok \in Tokens /\ lease[op[h].tok].req = op[h].req
    BY <1>2, <2>1, PairTypes DEF HandInv, PairInv, MutationExclusive, LeaseInFlight
  <2>7. op[h].kind = "approve" => lease[op[h].tok] # NoLease
    <3>1. op[h].req \in RequestIds
      BY <1>2, PairTypes DEF HandInv, MutationExclusive
    <3> QED BY <2>6, <3>1 DEF NoLease, RequestIds
  <2>8. HandedKept'
    BY <2>1, <2>2, <2>5, <2>6, <2>7 DEF HandInv, HandedKept, HandedOut, Memory
  <2> QED BY <1>1, <2>4, <2>8 DEF HandInv
<1>7. CASE UndoLease(h)
  <2> DEFINE t == op[h].tok
  <2>1. /\ pc[h] = "undoLease" /\ pc' = [pc EXCEPT ![h] = "undoRequest"]
        /\ lease' = [lease EXCEPT ![t] = NoLease]
        /\ UNCHANGED <<disk, lock, op, acked>>
    BY <1>7 DEF UndoLease, Goto
  <2>2. op[h].kind = "approve" /\ t \in Tokens
    BY <2>1, PairTypes DEF HandInv, MutationExclusive
  <2>3. UnderWay(t)
    BY <1>4, <2>1, <2>2 DEF LeaseInFlight
  <2>4. \A u \in Tokens \ {t} : lease'[u] = lease[u] /\ ~UnderWay(u)
    BY <1>4, <2>1, PairTypes DEF HandInv
  <2>5. lease'[t] = NoLease
    BY <2>1, <2>2, PairTypes DEF HandInv
  <2>6. \A a \in HandedOut : lease'[a.tok] = lease[a.tok]
    BY <2>3, <2>4 DEF HandInv, HandedKept, NotHandedOut
  <2>7. HandedKept'
    BY <2>1, <2>6, HandedStay
  <2>8. LeasesInFile'
    BY <2>1, <2>4, <2>5 DEF HandInv, LeasesInFile
  <2>9. \A u : ~UnderWay(u)'
    <3>1. pc'[h] = "undoRequest"
      BY <2>1, PairTypes DEF HandInv
    <3> QED BY <1>2, <2>1, <3>1 DEF UnderWay, LeaseInFlight
  <2> QED BY <1>1, <2>7, <2>8, <2>9 DEF HandInv, NotHandedOut
<1>8. CASE CommitOk(h) \/ CommitFails(h) \/ AuditFails(h) \/ UndoRequest(h) \/ RecommitOk(h) \/ RecommitFails(h)
  <2>1. /\ lease' = lease /\ acked' = acked /\ disk' \in {disk, Memory}
        /\ lock' = NoHandler \/ (lock' = h /\ op' = op)
    <3>1. CASE CommitOk(h) \/ CommitFails(h) \/ AuditFails(h) \/ UndoRequest(h)
      BY <1>2, <3>1 DEF CommitOk, CommitFails, AuditFails, UndoRequest
    <3>2. CASE RecommitOk(h) \/ RecommitFails(h)
      BY <3>2 DEF RecommitOk, RecommitFails, Finish
    <3> QED BY <1>8, <3>1, <3>2
  <2>2. HandedKept'
    BY <2>1, HandedStay
  <2>3. CASE CommitOk(h) \/ CommitFails(h) \/ AuditFails(h)
    <3>1. pc[h] \in {"commit", "audit"} /\ pc'[h] \in {"audit", RollbackStart(op[h].kind)} /\ lock' = h
      BY <1>2, <2>3, PairTypes DEF HandInv, CommitOk, CommitFails, AuditFails, HasLock, Goto
    <3>2. LeaseInFlight(h)' <=> LeaseInFlight(h)
      <4>1. op' = op
        BY <2>1, <3>1, HandlersAssumption
      <4> QED BY <3>1, <4>1 DEF LeaseInFlight, RollbackStart
    <3>3. \A t : UnderWay(t)' <=> UnderWay(t)
      <4>1. op' = op
        BY <2>1, <3>1, HandlersAssumption
      <4> QED BY <1>4, <3>1, <3>2, <4>1 DEF UnderWay
    <3>4. LeasesInFile' /\ NotHandedOut'
      BY <2>1, <3>3 DEF HandInv, LeasesInFile, NotHandedOut, HandedOut, Memory
    <3> QED BY <1>1, <2>2, <3>4 DEF HandInv
  <2>4. CASE UndoRequest(h) \/ RecommitOk(h) \/ RecommitFails(h)
    <3>1. pc[h] \in {"undoRequest", "recommit"} /\ (lock' = h => pc'[h] = "recommit")
      BY <1>2, <2>4, PairTypes, HandlersAssumption
         DEF HandInv, UndoRequest, RecommitOk, RecommitFails, HasLock, Goto, Finish
    <3>2. \A t : ~UnderWay(t) /\ ~UnderWay(t)'
      BY <1>4, <2>1, <3>1, HandlersAssumption DEF UnderWay, LeaseInFlight
    <3>3. LeasesInFile' /\ NotHandedOut'
      BY <2>1, <3>2 DEF HandInv, LeasesInFile, NotHandedOut, Memory
    <3> QED BY <1>1, <2>2, <3>3 DEF HandInv
  <2> QED BY <1>8, <2>3, <2>4
<1> QED BY <1>5, <1>6, <1>7, <1>8 DEF Proceed

\* A restart reads back every lease that was handed out.
LEMMA HandStep == HandInv /\ [Next]_vars => HandInv'
<1> SUFFICES ASSUME HandInv, [Next]_vars PROVE HandInv'
  OBVIOUS
<1> USE DEF store, history, ids
<1>0. PairInv'
  BY PairStep DEF HandInv
<1>1. ASSUME NEW h \in Handlers, Enter(h) PROVE HandInv'
  <2>1. /\ UNCHANGED <<lease, disk, lock, acked>> /\ pc[h] = "idle"
        /\ pc' = [pc EXCEPT ![h] = "waiting"] /\ \E c : op' = [op EXCEPT ![h] = c]
    BY <1>1 DEF Enter, Goto
  <2>2. lock # h
    BY <2>1, PairTypes DEF HandInv, MutationExclusive
  <2>3. \A g \in Handlers : lock = g => op'[g] = op[g] /\ pc'[g] = pc[g]
    BY <2>1, <2>2, PairTypes DEF HandInv
  <2>4. \A t : UnderWay(t)' <=> UnderWay(t)
    BY <2>1, <2>3 DEF UnderWay, LeaseInFlight
  <2> QED BY <1>0, <2>1, <2>4 DEF HandInv, HandedKept, LeasesInFile, NotHandedOut, HandedOut
<1>2. CASE \E h \in Handlers : Acquire(h) \/ Proceed(h)
  BY <1>2, HandAcquire, HandProceed
<1>3. CASE Crash
  <2>1. /\ lease' = disk.lease /\ lock' = NoHandler /\ UNCHANGED <<disk, acked>>
    BY <1>3 DEF Crash
  <2>2. \A t : ~UnderWay(t)'
    BY <2>1, HandlersAssumption DEF UnderWay
  <2> QED BY <1>0, <2>1, <2>2 DEF HandInv, HandedKept, LeasesInFile, NotHandedOut, HandedOut
<1>4. CASE Tick \/ UNCHANGED vars
  <2>1. UNCHANGED <<lease, disk, lock, op, pc, acked>>
    BY <1>4 DEF Tick, vars
  <2> QED BY <1>0, <2>1
          DEF HandInv, HandedKept, LeasesInFile, NotHandedOut, HandedOut, UnderWay, LeaseInFlight
<1> QED BY <1>1, <1>2, <1>3, <1>4 DEF Next

\* A lease token an agent got from an approval or from reuse stays valid, in
\* memory and in the file: no rollback ever deletes one that was handed out.
THEOREM HandedOutKept == Spec => []HandedOutLeaseDurable
<1>1. Init => HandInv
  <2> SUFFICES ASSUME Init PROVE HandInv
    OBVIOUS
  <2>1. PairInv
    BY PairInit
  <2> QED BY <2>1 DEF Init, HandInv, HandedKept, LeasesInFile, NotHandedOut, HandedOut
<1>2. HandInv => HandedOutLeaseDurable
  BY DEF HandInv, HandedKept, HandedOut, HandedOutLeaseDurable
<1> QED BY <1>1, <1>2, HandStep, PTL DEF Spec

------------------------------------------------------------------------------
(* LeaseBroker implements LeaseContract: a mutation takes effect for the contract
   in the step that answers it, and a restart advances at most the one request
   whose file entry is ahead of what its callers were told *)

InFlightSteps == {"saveLease", "commit", "audit", "undoLease", "undoRequest"}

\* The outcome a mutation under way started from.
Before(c) == IF c.kind = "request" THEN "absent" ELSE "pending"

\* With nothing under way, outcomes are what the requests say.
LEMMA OutcomeFree ==
  ASSUME lock = NoHandler
  PROVE  Outcome = [r \in RequestIds |-> request[r].status]
BY HandlersAssumption DEF Outcome, InFlight

\* While a mutation is under way its request still has its old outcome.
LEMMA OutcomeHeld ==
  ASSUME NEW h \in Handlers, lock = h, NEW r \in RequestIds
  PROVE  Outcome[r] = IF pc[h] \in InFlightSteps /\ r = op[h].req
                      THEN Before(op[h]) ELSE request[r].status
BY DEF Outcome, InFlight, InFlightSteps, Before

\* The request under way is one step ahead of its outcome, and no other is.
LEMMA MemoryAhead ==
  ASSUME PairInv, NEW r \in RequestIds, request[r].status # Outcome[r]
  PROVE  /\ lock \in Handlers /\ r = op[lock].req
         /\ Contract!Advances(Outcome[r], request[r].status)
         /\ request[r].status = SuccessReply(op[lock].kind)
<1>1. lock \in Handlers
  BY OutcomeFree, PairTypes DEF TypeOK
<1>2. pc[lock] \in InFlightSteps /\ r = op[lock].req /\ Outcome[r] = Before(op[lock])
  BY <1>1, OutcomeHeld
<1>3. request[r].status = SuccessReply(op[lock].kind)
  BY <1>1, <1>2, PairTypes DEF MutationExclusive, InFlightSteps
<1> QED BY <1>1, <1>2, <1>3 DEF Before, SuccessReply, DecisionStatus, Contract!Advances, Contract!Decisions

\* The file is ahead of the outcomes in at most one request.
Ahead(r) == disk.request[r].status # Outcome[r]
FileAhead ==
  /\ \A r \in RequestIds : Ahead(r) => Contract!Advances(Outcome[r], disk.request[r].status)
  /\ \A r, s \in RequestIds : Ahead(r) /\ Ahead(s) => r = s

RefinementInv == PairInv /\ FileAhead

Told == {<<a.reply, a.req>> : a \in acked}

\* One more answer is one more thing told.
LEMMA ToldGrows ==
  ASSUME NEW ack, acked' = acked \cup {ack}
  PROVE  Told' = Told \cup {<<ack.reply, ack.req>>}
<1>1. \A S, T : T = S \cup {ack} =>
        {<<a.reply, a.req>> : a \in T} = {<<a.reply, a.req>> : a \in S} \cup {<<ack.reply, ack.req>>}
  BY Zenon
<1> QED BY <1>1 DEF Told

\* Nothing the contract can see changes in any step of a call but the answers.
LEMMA QuietAcquire ==
  ASSUME PairInv, NEW h \in Handlers, Enter(h) \/ (Acquire(h) /\ ~ReuseLease(h))
  PROVE  Outcome' = Outcome /\ disk' = disk /\ acked' = acked
<1> USE DEF store, history, ids
<1>0. disk' = disk /\ acked' = acked
  BY DEF Enter, Acquire, RefuseRequest, ReuseAuditFails, SaveRequest, RefuseDecision, UpdateRequest
<1>1. CASE Enter(h)
  <2>1. /\ UNCHANGED <<request, lock>> /\ pc[h] = "idle"
        /\ pc' = [pc EXCEPT ![h] = "waiting"] /\ \E c : op' = [op EXCEPT ![h] = c]
    BY <1>1 DEF Enter, Goto
  <2>2. lock # h
    BY <2>1, PairTypes DEF MutationExclusive
  <2>3. \A g \in Handlers : lock = g => op'[g] = op[g] /\ pc'[g] = pc[g]
    BY <2>1, <2>2, PairTypes
  <2>4. \A r \in RequestIds : InFlight(r)' <=> InFlight(r)
    BY <2>1, <2>3 DEF InFlight
  <2>5. \A r \in RequestIds : InFlight(r) => op'[lock'] = op[lock]
    BY <2>1, <2>3 DEF InFlight
  <2> QED BY <1>0, <2>1, <2>4, <2>5 DEF Outcome
<1>2. CASE RefuseRequest(h) \/ ReuseAuditFails(h) \/ RefuseDecision(h)
  <2>1. request' = request /\ lock = NoHandler /\ lock' = NoHandler
    BY <1>2 DEF RefuseRequest, ReuseAuditFails, RefuseDecision, Locks, Finish
  <2>2. \A r : ~InFlight(r) /\ ~InFlight(r)'
    BY <2>1, HandlersAssumption DEF InFlight
  <2> QED BY <1>0, <2>1, <2>2 DEF Outcome
<1>3. CASE SaveRequest(h) \/ UpdateRequest(h)
  <2>1. lock = NoHandler /\ lock' = h /\ pc[h] = "waiting" /\ op[h] \in Call
    <3>1. lock = NoHandler /\ lock' = h /\ pc[h] = "waiting"
      BY <1>3 DEF SaveRequest, UpdateRequest, Locks
    <3> QED BY <3>1, PairTypes, CallOf
  <2>2. /\ pc'[h] \in InFlightSteps /\ op'[h].req \in RequestIds
        /\ request[op'[h].req].status = Before(op'[h])
        /\ \A r \in RequestIds : r # op'[h].req => request'[r] = request[r]
    <3>1. CASE SaveRequest(h)
      <4>1. /\ nextRequest \in RequestIds /\ op[h].kind = "request"
            /\ op' = [op EXCEPT ![h].req = nextRequest] /\ pc' = [pc EXCEPT ![h] = "commit"]
            /\ \E rec : request' = [request EXCEPT ![nextRequest] = rec]
        BY <3>1 DEF SaveRequest, Locks
      <4>2. op'[h].req = nextRequest /\ op'[h].kind = "request" /\ pc'[h] = "commit"
        BY <2>1, <4>1, PairTypes DEF Call
      <4>3. request[nextRequest].status = "absent"
        BY <4>1 DEF PairInv, DecisionInv, FreshIds, NoRequest, RequestIds
      <4> QED BY <4>1, <4>2, <4>3, PairTypes DEF InFlightSteps, Before
    <3>2. CASE UpdateRequest(h)
      <4>1. /\ op[h].kind \in Decisions /\ IsPending(op[h].req) /\ op' = op
            /\ pc' = [pc EXCEPT ![h] = NextStep(op[h].kind)]
            /\ \E s : request' = [request EXCEPT ![op[h].req].status = s]
        BY <3>2 DEF UpdateRequest, Locks, MayDecide
      <4>2. op[h].req \in RequestIds /\ op[h].kind # "request"
        BY <2>1, <4>1 DEF Call, Decisions
      <4>3. pc'[h] \in InFlightSteps
        BY <4>1, PairTypes DEF NextStep, InFlightSteps
      <4> QED BY <4>1, <4>2, <4>3, PairTypes DEF Before, IsPending
    <3> QED BY <1>3, <3>1, <3>2
  <2>3. \A r \in RequestIds : InFlight(r)' <=> r = op'[h].req
    BY <2>1, <2>2 DEF InFlight, InFlightSteps
  <2>4. \A r \in RequestIds : ~InFlight(r)
    BY <2>1, HandlersAssumption DEF InFlight
  <2> QED BY <1>0, <2>1, <2>2, <2>3, <2>4 DEF Outcome, Before
<1> QED BY <1>1, <1>2, <1>3 DEF Acquire

\* Nor in the steps under the lock: what is undone was not in effect yet.
LEMMA QuietProceed ==
  ASSUME PairInv, NEW h \in Handlers, Proceed(h), ~AuditOk(h)
  PROVE  Outcome' = Outcome /\ disk' \in {disk, Memory} /\ acked' = acked
<1> USE DEF store, history, ids
<1> DEFINE r == op[h].req
<1>0. disk' \in {disk, Memory} /\ acked' = acked
  BY DEF Proceed, SaveLease, CommitOk, CommitFails, AuditFails, UndoLease, UndoRequest,
     RecommitOk, RecommitFails
<1>1. lock = h /\ pc[h] \notin {"idle", "waiting"}
  BY DEF Proceed, HasLock, Goto, SaveLease, CommitOk, CommitFails, AuditOk,
     AuditFails, UndoLease, UndoRequest, RecommitOk, RecommitFails
<1>2. op[h] \in Call /\ r \in RequestIds
  BY <1>1, PairTypes, CallOf DEF MutationExclusive
<1>3. CASE SaveLease(h) \/ CommitOk(h) \/ CommitFails(h) \/ AuditFails(h) \/ UndoLease(h)
  <2>1. request' = request /\ lock' = h
    BY <1>1, <1>3 DEF SaveLease, CommitOk, CommitFails, AuditFails, UndoLease
  <2>2. op'[h].req = r /\ op'[h].kind = op[h].kind
    <3>1. op' = op \/ op' = [op EXCEPT ![h].tok = nextToken]
      BY <1>3 DEF SaveLease, CommitOk, CommitFails, AuditFails, UndoLease
    <3> QED BY <1>2, <3>1, PairTypes DEF Call
  <2>3. pc[h] \in InFlightSteps /\ pc'[h] \in InFlightSteps
    BY <1>3, PairTypes DEF SaveLease, CommitOk, CommitFails, AuditFails, UndoLease, HasLock, Goto,
       RollbackStart, InFlightSteps
  <2>4. \A q \in RequestIds : (InFlight(q)' <=> q = r) /\ (InFlight(q) <=> q = r)
    BY <1>1, <2>1, <2>2, <2>3 DEF InFlight, InFlightSteps
  <2> QED BY <1>0, <1>1, <2>1, <2>2, <2>4 DEF Outcome
<1>4. CASE UndoRequest(h)
  <2>1. /\ request' = [request EXCEPT ![r] = Original(op[h])] /\ op' = op /\ lock' = h
        /\ pc[h] = "undoRequest" /\ pc' = [pc EXCEPT ![h] = "recommit"]
    BY <1>1, <1>4 DEF UndoRequest, Goto
  <2>2. request[r] \in LeaseRequest
    <3>1. request[r] # NoRequest
      BY <1>1, <2>1, PairTypes DEF MutationExclusive, NoRequest, SuccessReply, DecisionStatus
    <3> QED BY <1>2, <3>1, PairTypes
  <2>3. Original(op[h]).status = Before(op[h])
    BY <2>2 DEF Original, Before, NoRequest, LeaseRequest
  <2>4. /\ request'[r].status = Before(op[h])
        /\ \A q \in RequestIds \ {r} : request'[q] = request[q]
    BY <1>2, <2>1, <2>3, PairTypes
  <2>5. pc'[h] = "recommit"
    BY <2>1, PairTypes
  <2>6. \A q \in RequestIds : ~InFlight(q)' /\ (InFlight(q) <=> q = r)
    BY <1>1, <2>1, <2>5 DEF InFlight
  <2> QED BY <1>0, <1>1, <2>4, <2>6 DEF Outcome, Before
<1>5. CASE RecommitOk(h) \/ RecommitFails(h)
  <2>1. request' = request /\ lock' = NoHandler /\ pc[h] = "recommit"
    BY <1>5 DEF RecommitOk, RecommitFails, HasLock, Finish
  <2>2. \A q \in RequestIds : ~InFlight(q)' /\ ~InFlight(q)
    BY <1>1, <2>1, HandlersAssumption DEF InFlight
  <2> QED BY <1>0, <2>1, <2>2 DEF Outcome
<1> QED BY <1>3, <1>4, <1>5 DEF Proceed

\* A step that changes no outcome leaves the file as far ahead as it was, or as
\* memory is.
LEMMA AheadKeeps ==
  ASSUME RefinementInv, Outcome' = Outcome, disk' \in {disk, Memory} PROVE FileAhead'
<1>1. CASE disk' = disk
  BY <1>1 DEF RefinementInv, FileAhead, Ahead
<1>2. CASE disk' = Memory
  <2>1. \A r \in RequestIds : Ahead(r)' => /\ r = op[lock].req
                                           /\ Contract!Advances(Outcome[r], request[r].status)
    BY <1>2, MemoryAhead DEF RefinementInv, Ahead, Memory
  <2> QED BY <1>2, <2>1 DEF FileAhead, Ahead, Memory
<1> QED BY <1>1, <1>2

\* Every step keeps the file at most one request ahead.
LEMMA RefinementStep == RefinementInv /\ [Next]_vars => RefinementInv'
<1> SUFFICES ASSUME RefinementInv, [Next]_vars PROVE FileAhead'
  BY PairStep DEF RefinementInv
<1> USE DEF store, history, ids
<1>1. ASSUME NEW h \in Handlers, Enter(h) \/ (Acquire(h) /\ ~ReuseLease(h)) PROVE FileAhead'
  BY <1>1, QuietAcquire, AheadKeeps DEF RefinementInv
<1>2. ASSUME NEW h \in Handlers, Proceed(h), ~AuditOk(h) PROVE FileAhead'
  BY <1>2, QuietProceed, AheadKeeps DEF RefinementInv
<1>3. ASSUME NEW h \in Handlers, ReuseLease(h) PROVE FileAhead'
  <2>1. UNCHANGED <<request, disk>> /\ lock = NoHandler /\ lock' = NoHandler
    BY <1>3 DEF ReuseLease, Locks, Finish
  <2>2. Outcome' = Outcome
    BY <2>1, HandlersAssumption DEF Outcome, InFlight
  <2> QED BY <2>1, <2>2, AheadKeeps
<1>4. ASSUME NEW h \in Handlers, AuditOk(h) PROVE FileAhead'
  <2>1. UNCHANGED <<request, disk>> /\ lock' = NoHandler /\ HasLock(h, "audit")
    BY <1>4 DEF AuditOk, Finish
  <2>2. disk'.request = request'
    BY <2>1 DEF RefinementInv, PairInv, DecisionInv, GateInv, Memory
  <2>3. \A r \in RequestIds : Outcome'[r] = request'[r].status
    BY <2>1, HandlersAssumption DEF Outcome, InFlight
  <2> QED BY <2>2, <2>3 DEF FileAhead, Ahead
<1>5. CASE Crash
  <2>1. request' = disk.request /\ disk' = disk /\ lock' = NoHandler
    BY <1>5 DEF Crash
  <2>2. \A r \in RequestIds : Outcome'[r] = disk'.request[r].status
    BY <2>1, HandlersAssumption DEF Outcome, InFlight
  <2> QED BY <2>2 DEF FileAhead, Ahead
<1>6. CASE Tick \/ UNCHANGED vars
  <2>1. UNCHANGED <<request, disk, lock, op, pc>>
    BY <1>6 DEF Tick, vars
  <2> QED BY <2>1, AheadKeeps DEF Outcome, InFlight
<1> QED BY <1>1, <1>2, <1>3, <1>4, <1>5, <1>6 DEF Next

\* The answer of a mutation serves its outcome.
LEMMA AnswerServes ==
  ASSUME PairInv, NEW h \in Handlers, AuditOk(h)
  PROVE  \E r \in RequestIds, to \in {"pending"} \cup Contract!Decisions : Contract!Serve(r, to)
<1> DEFINE r == op[h].req
           to == SuccessReply(op[h].kind)
<1>1. /\ lock = h /\ pc[h] = "audit" /\ lock' = NoHandler /\ request' = request
      /\ acked' = acked \cup {[reply |-> to, req |-> r, tok |-> op[h].tok]}
  BY DEF AuditOk, Ack, Finish, HasLock, store
<1>2. r \in RequestIds /\ request[r].status = to
  BY <1>1, PairTypes DEF MutationExclusive
<1>3. \A q \in RequestIds : Outcome[q] = IF q = r THEN Before(op[h]) ELSE request[q].status
  BY <1>1, OutcomeHeld DEF InFlightSteps
<1>4. \A q \in RequestIds : Outcome'[q] = request[q].status
  BY <1>1, HandlersAssumption DEF Outcome, InFlight
<1>5. Outcome' = [Outcome EXCEPT ![r] = to]
  <2>1. Outcome = [q \in RequestIds |-> Outcome[q]] /\ Outcome' = [q \in RequestIds |-> Outcome'[q]]
    BY DEF Outcome
  <2> QED BY <1>2, <1>3, <1>4, <2>1
<1>6. Contract!Advances(Outcome[r], to) /\ to \in {"pending"} \cup Contract!Decisions
  BY <1>2, <1>3 DEF Before, SuccessReply, DecisionStatus, Contract!Advances, Contract!Decisions
<1>7. Told' = Told \cup {<<to, r>>}
  <2> DEFINE ack == [reply |-> to, req |-> r, tok |-> op[h].tok]
  <2>1. acked' = acked \cup {ack} /\ ack.reply = to /\ ack.req = r
    BY <1>1
  <2> HIDE DEF ack, to, r
  <2> QED BY <2>1, ToldGrows
<1> QED BY <1>2, <1>5, <1>6, <1>7 DEF Contract!Serve, Told

\* A reuse repeats an approval.
LEMMA ReuseRepeats ==
  ASSUME PairInv, NEW h \in Handlers, ReuseLease(h)
  PROVE  \E r \in RequestIds : Contract!Repeat(r)
<1>1. lock = NoHandler /\ lock' = NoHandler /\ request' = request
  BY DEF ReuseLease, Locks, Finish, store
<1>2. PICK t \in Tokens : /\ lease[t] # NoLease
                          /\ acked' = acked \cup {[reply |-> "reused", req |-> lease[t].req, tok |-> t]}
  BY DEF ReuseLease, Reusable, Live
<1> DEFINE r == lease[t].req
<1>3. r \in ApprovedIn(request)
  BY <1>1, <1>2 DEF PairInv, Paired
<1>4. Outcome' = Outcome /\ r \in RequestIds /\ Outcome[r] = "approved"
  BY <1>1, <1>3, HandlersAssumption DEF Outcome, InFlight, ApprovedIn
<1>5. Told' = Told \cup {<<"reused", r>>}
  <2> DEFINE ack == [reply |-> "reused", req |-> r, tok |-> t]
  <2>1. acked' = acked \cup {ack} /\ ack.reply = "reused" /\ ack.req = r
    BY <1>2
  <2> HIDE DEF ack, r
  <2> QED BY <2>1, ToldGrows
<1> QED BY <1>4, <1>5 DEF Contract!Repeat, Told

\* A restart advances the request the file was ahead in, if there is one.
LEMMA CrashRestarts ==
  ASSUME RefinementInv, Crash
  PROVE  \/ \E r \in RequestIds, to \in {"pending"} \cup Contract!Decisions : Contract!Restart(r, to)
         \/ UNCHANGED Contract!vars
<1>1. request' = disk.request /\ lock' = NoHandler /\ acked' = acked
  BY DEF Crash, history
<1>2. \A r \in RequestIds : Outcome'[r] = disk.request[r].status
  BY <1>1, HandlersAssumption DEF Outcome, InFlight
<1>3. Outcome = [r \in RequestIds |-> Outcome[r]] /\ Outcome' = [r \in RequestIds |-> Outcome'[r]]
  BY DEF Outcome
<1>4. Told' = Told
  BY <1>1 DEF Told
<1>5. CASE \A r \in RequestIds : ~Ahead(r)
  <2>1. Outcome' = Outcome
    BY <1>2, <1>3, <1>5 DEF Ahead
  <2> QED BY <1>4, <2>1 DEF Contract!vars, Told
<1>6. CASE \E r \in RequestIds : Ahead(r)
  <2>1. PICK r \in RequestIds : Ahead(r)
    BY <1>6
  <2> DEFINE to == disk.request[r].status
  <2>2. Contract!Advances(Outcome[r], to) /\ \A q \in RequestIds : q # r => ~Ahead(q)
    BY <2>1 DEF RefinementInv, FileAhead
  <2>3. Outcome' = [Outcome EXCEPT ![r] = to]
    BY <1>2, <1>3, <2>2 DEF Ahead
  <2>4. to \in {"pending"} \cup Contract!Decisions
    BY <2>2 DEF Contract!Advances
  <2>5. Contract!Restart(r, to)
    BY <1>4, <2>2, <2>3 DEF Contract!Restart, Told
  <2> QED BY <2>4, <2>5
<1> QED BY <1>5, <1>6

\* Every step of the broker is a step of the contract, or one it cannot see.
LEMMA StepRefines == RefinementInv /\ [Next]_vars => [Contract!Next]_(Contract!vars)
<1> SUFFICES ASSUME RefinementInv, [Next]_vars PROVE [Contract!Next]_(Contract!vars)
  OBVIOUS
<1>0. PairInv
  BY DEF RefinementInv
<1>1. ASSUME Outcome' = Outcome, acked' = acked PROVE UNCHANGED Contract!vars
  BY <1>1 DEF Contract!vars
<1>2. ASSUME NEW h \in Handlers, Enter(h) \/ (Acquire(h) /\ ~ReuseLease(h)) PROVE UNCHANGED Contract!vars
  BY <1>0, <1>1, <1>2, QuietAcquire
<1>3. ASSUME NEW h \in Handlers, Proceed(h), ~AuditOk(h) PROVE UNCHANGED Contract!vars
  BY <1>0, <1>1, <1>3, QuietProceed
<1>4. ASSUME NEW h \in Handlers, ReuseLease(h) PROVE Contract!Next
  BY <1>0, <1>4, ReuseRepeats DEF Contract!Next
<1>5. ASSUME NEW h \in Handlers, AuditOk(h) PROVE Contract!Next
  BY <1>0, <1>5, AnswerServes DEF Contract!Next
<1>6. CASE Crash
  BY <1>6, CrashRestarts DEF Contract!Next
<1>7. CASE Tick \/ UNCHANGED vars
  <2>1. UNCHANGED <<request, lock, op, pc, acked>>
    BY <1>7 DEF Tick, vars, store, history
  <2>2. Outcome' = Outcome
    BY <2>1 DEF Outcome, InFlight
  <2> QED BY <1>1, <2>1, <2>2
<1> QED BY <1>2, <1>3, <1>4, <1>5, <1>6, <1>7 DEF Next

\* Callers see outcomes that only move forward, answered exactly when they take
\* effect; a restart reveals at most one change nobody was told had succeeded
\* (app.Service with its durability gate and rollback).
THEOREM BrokerImplementsContract == Spec => ImplementsContract
<1>1. Init => RefinementInv
  <2> SUFFICES ASSUME Init PROVE RefinementInv
    OBVIOUS
  <2>1. \A r \in RequestIds : Outcome[r] = disk.request[r].status
    BY HandlersAssumption DEF Init, Outcome, InFlight, Memory
  <2> QED BY <2>1, PairInit DEF RefinementInv, FileAhead, Ahead
<1>2. Init => Contract!Init
  BY HandlersAssumption DEF Init, Contract!Init, Outcome, InFlight, NoRequest
<1> QED BY <1>1, <1>2, RefinementStep, StepRefines, PTL DEF Spec, ImplementsContract, Contract!Spec
==============================================================================
