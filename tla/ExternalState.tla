----------------------------- MODULE ExternalState -----------------------------
(***************************************************************************)
(* Requests and leases kept by a remote service (state_store.type=         *)
(* external) instead of in the broker: each write of a mutation is a call  *)
(* of its own, and so is each undo.  A write may fail, may be applied and  *)
(* its answer lost, or may be applied only after the broker gave up on it. *)
(*                                                                         *)
(* One mutation runs at a time (MutationLock); reads change nothing and    *)
(* are left out.                                                           *)
(***************************************************************************)
EXTENDS Naturals, FiniteSets, Sequences

CONSTANTS MaxRemoteRequests, MaxRemoteLeases,  \* bounds: requests and leases made
          MaxTroubles                          \* bound: failures, lost answers and stops

ASSUME ExternalAssumption == {MaxRemoteRequests, MaxRemoteLeases, MaxTroubles} \subseteq Nat

VARIABLES stored,   \* the service: each request's status, each lease's request
          call,     \* the mutation that runs, the step it is at and what is to be undone
          remoteGate,  \* is the durability gate closed
          delayed,  \* writes the service may still apply
          answered, \* history: mutations answered with success
          overtaken, \* history: requests a delayed write has reached
          made,     \* requests and leases made so far
          troubles  \* failed, lost: writes refused, writes whose answer was lost; stops

remoteVars == <<stored, call, remoteGate, delayed, answered, overtaken, made, troubles>>

RemoteIds == 1..MaxRemoteRequests
RemoteTokens == 1..MaxRemoteLeases
NoCallRuns == [kind |-> "none", req |-> 0, tok |-> 0, pc |-> "none", undo |-> <<>>]
NoLeaseOf == 0

\* A write: a request's status (a deletion is "none"), or a lease's request.
PutRequest(r, status) == [on |-> "request", key |-> r, to |-> status]
PutLease(t, r) == [on |-> "lease", key |-> t, to |-> r]
Apply(w) == IF w.on = "request" THEN [stored EXCEPT !.request[w.key] = w.to]
            ELSE [stored EXCEPT !.lease[w.key] = w.to]

ExternalInit ==
  /\ stored = [request |-> [r \in RemoteIds |-> "none"], lease |-> [t \in RemoteTokens |-> NoLeaseOf]]
  /\ call = NoCallRuns /\ remoteGate = "open"
  /\ delayed = {} /\ answered = {} /\ overtaken = {}
  /\ made = [requests |-> 0, leases |-> 0]
  /\ troubles = [failed |-> 0, lost |-> 0, stops |-> 0]

Trouble(kind) ==
  /\ troubles.failed + troubles.lost + troubles.stops < MaxTroubles
  /\ troubles' = [troubles EXCEPT ![kind] = @ + 1]

\* One PUT or DELETE and where it leaves the mutation: at done when a success was
\* answered, at failed otherwise.
send(w, done, failed) ==
  \/ stored' = Apply(w) /\ call' = done /\ UNCHANGED <<delayed, troubles>>
  \/ Trouble("failed") /\ call' = failed /\ UNCHANGED <<stored, delayed>>
  \/ Trouble("lost") /\ call' = failed /\ stored' = Apply(w) /\ UNCHANGED delayed
  \/ Trouble("lost") /\ call' = failed /\ delayed' = delayed \cup {w} /\ UNCHANGED stored

-----------------------------------------------------------------------------
DecisionOf(kind) == IF kind = "approve" THEN "approved" ELSE "denied"
Begin(kind, r, t) == call' = [kind |-> kind, req |-> r, tok |-> t, pc |-> "request", undo |-> <<>>]

\* The handler's gate and, for a decision, the read of a pending request.
BeginCall ==
  /\ call = NoCallRuns /\ remoteGate = "open"
  /\ \/ /\ made.requests < MaxRemoteRequests
        /\ made' = [made EXCEPT !.requests = @ + 1] /\ Begin("request", made.requests + 1, 0)
     \/ \E r \in RemoteIds : /\ stored.request[r] = "pending" /\ made.leases < MaxRemoteLeases
                             /\ made' = [made EXCEPT !.leases = @ + 1] /\ Begin("approve", r, made.leases + 1)
     \/ \E r \in RemoteIds, kind \in {"deny", "cancel"} :
          stored.request[r] = "pending" /\ Begin(kind, r, 0) /\ UNCHANGED made
  /\ UNCHANGED <<stored, remoteGate, delayed, answered, overtaken, troubles>>

\* The first write: an error of it is returned as it is.
WriteRequest ==
  /\ call.pc = "request"
  /\ LET status == IF call.kind = "request" THEN "pending" ELSE DecisionOf(call.kind)
         back == IF call.kind = "request" THEN "none" ELSE "pending"
         next == [call EXCEPT !.pc = IF call.kind = "approve" THEN "lease" ELSE "audit",
                              !.undo = <<PutRequest(call.req, back)>>]
     IN send(PutRequest(call.req, status), next, NoCallRuns)
  /\ UNCHANGED <<remoteGate, answered, overtaken, made>>

\* An approval's lease: after an error the request is put back, once.
WriteLease_NoUndo ==
  /\ call.pc = "lease"
  /\ send(PutLease(call.tok, call.req),
          [call EXCEPT !.pc = "audit", !.undo = <<PutLease(call.tok, NoLeaseOf)>> \o @],
          NoCallRuns)
  /\ UNCHANGED <<remoteGate, answered, overtaken, made>>
WriteLease ==
  /\ call.pc = "lease"
  /\ send(PutLease(call.tok, call.req),
          [call EXCEPT !.pc = "audit", !.undo = <<PutLease(call.tok, NoLeaseOf)>> \o @],
          [call EXCEPT !.pc = "undo"])
  /\ UNCHANGED <<remoteGate, answered, overtaken, made>>

\* The audit record: without it everything is undone and the gate is closed.
Audit ==
  /\ call.pc = "audit"
  /\ \/ /\ call' = NoCallRuns
        /\ answered' = answered \cup {[kind |-> call.kind, req |-> call.req, tok |-> call.tok]}
        /\ UNCHANGED <<remoteGate, troubles>>
     \/ /\ Trouble("failed") /\ remoteGate' = "closed"
        /\ call' = [call EXCEPT !.pc = "undo"] /\ UNCHANGED answered
  /\ UNCHANGED <<stored, delayed, overtaken, made>>

\* rollbackRequestLeaseMutation: every undo is tried, whatever became of the one
\* before; nothing follows from its error but the text of the answer.
Undo ==
  /\ call.pc = "undo"
  /\ LET next == IF Len(call.undo) = 1 THEN NoCallRuns ELSE [call EXCEPT !.undo = Tail(@)]
     IN send(Head(call.undo), next, next)
  /\ UNCHANGED <<remoteGate, answered, overtaken, made>>

\* A write the broker gave up on reaches the service after all.
Arrives ==
  \E w \in delayed :
    /\ stored' = Apply(w) /\ delayed' = delayed \ {w}
    /\ overtaken' = overtaken \cup {IF w.on = "request" THEN w.key
                                    ELSE IF w.to = NoLeaseOf THEN stored.lease[w.key] ELSE w.to}
    /\ UNCHANGED <<call, remoteGate, answered, made, troubles>>

\* The broker stops and is started again; the service keeps what it has.
Restart ==
  /\ Trouble("stops")
  /\ call' = NoCallRuns /\ remoteGate' = "open"
  /\ UNCHANGED <<stored, delayed, answered, overtaken, made>>

ExternalNext == BeginCall \/ WriteRequest \/ WriteLease \/ Audit \/ Undo \/ Arrives \/ Restart

ExternalSpec == ExternalInit /\ [][ExternalNext]_remoteVars

-----------------------------------------------------------------------------
\* A mutation that was answered with success is in the service, all of it, and
\* stays: no failed call, no undo and no restart takes it back, except a write
\* the broker had given up on that arrives after it (service.go 125-190).
AnsweredIsStored ==
  \A a \in answered : a.req \notin overtaken =>
    /\ a.kind = "request" => stored.request[a.req] # "none"
    /\ a.kind # "request" => stored.request[a.req] = DecisionOf(a.kind)
    /\ a.kind = "approve" => stored.lease[a.tok] = a.req

\* A single refused write or audit record leaves no trace: between two calls a
\* request is approved exactly if it has its lease.  It takes a lost answer, a
\* stop in the middle or a failed undo to part the two (service.go:160).
OneFailureIsUndone ==
  call = NoCallRuns /\ troubles.lost = 0 /\ troubles.stops = 0 /\ troubles.failed < 2 =>
    \A r \in RemoteIds :
      stored.request[r] = "approved" <=> Cardinality({t \in RemoteTokens : stored.lease[t] = r}) = 1

\* Both: what remote writes that fail alone leave behind.
ExternalStateSound == AnsweredIsStored /\ OneFailureIsUndone
==============================================================================
