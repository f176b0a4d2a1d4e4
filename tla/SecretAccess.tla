---------------------------- MODULE SecretAccess ----------------------------
(***************************************************************************)
(* What agents do with requests and leases: read a status, fetch a lease,  *)
(* read a secret, execute a command with secrets, run docker on the host.  *)
(*                                                                         *)
(* None of these calls takes MutationLock.  They read the stores of        *)
(* LeaseBroker between the steps of a mutation, keep copies of what they   *)
(* read, and write critical audit records before secret material is read,  *)
(* before a command starts and after each; a record that cannot be written *)
(* closes the same durability gate.                                        *)
(***************************************************************************)
EXTENDS LeaseBroker

CONSTANTS
  Readers,     \* goroutines that serve one of these calls each
  SecretCount, \* secrets an execution asks for
  Files        \* env files an env_path may resolve to

ASSUME AccessAssumption == SecretCount \in Nat \ {0} /\ Files # {}

VARIABLES
  rpc, rop,    \* each reader's position and the call it serves
  trail,       \* access records in the audit file
  used,        \* history: what readers saw, read and ran
  target,      \* the env file the requests' env_path resolves to now
  confirmed    \* EnvPathCanonical of each env_path request

access     == <<rpc, rop, trail, used, target, confirmed>>
accessVars == <<vars, access>>

------------------------------------------------------------------------------
(* Data *)

ReadSteps == {"idle", "request", "findLease", "lease", "intent", "intentRequest",
              "resolve", "approved", "check", "started", "backend", "accessed",
              "runStart", "run", "runEnd", "done"}
ReadKinds == {"status", "lease", "access", "execute", "host"}
Records   == {"secret_access_started", "secret_access",
              "execute_with_secret_started", "execute_with_secret"}
Uses      == {"saw", "read", "delivered", "ran", "answered"}

\* What a reader holds: its call, the lease it read, the secrets that remain,
\* whether the request names an env_path, and the env file it read.
ReadCall == [kind: ReadKinds, agent: Agents, key: Keys \cup {NoKey},
             req: RequestIds \cup {0}, tok: Tokens \cup {0},
             lease: Lease \cup {NoLease}, left: 1..SecretCount, env: BOOLEAN,
             file: SUBSET Files]

ReadCalls == [kind: {"status", "lease"}, agent: Agents, key: {NoKey},
              req: RequestIds, tok: {0}]
             \cup [kind: {"access", "execute"}, agent: Agents, key: Keys,
                   req: {0}, tok: Tokens]
             \cup [kind: {"host"}, agent: Agents, key: {NoKey}, req: {0},
                   tok: {0}]

FirstStep(kind) == CASE kind \in {"status", "lease"} -> "request"
                     [] kind = "access"  -> "lease"
                     [] kind = "execute" -> "intent"
                     [] kind = "host"    -> "runStart"

\* A request or lease that exists and belongs to the reader's agent.
Owned(x, g) == x \notin {NoRequest, NoLease} /\ x.agent = rop[g].agent

Use(g, what) == [by |-> g, what |-> what, req |-> rop[g].req,
                 tok |-> rop[g].tok, left |-> rop[g].left, epoch |-> crashes,
                 file |-> rop[g].file]

------------------------------------------------------------------------------
(* Control *)

At(g, step) == rpc[g] = step
To(g, step) == rpc' = [rpc EXCEPT ![g] = step]

\* The broker's state, for steps that only read it.
BrokerQuiet == UNCHANGED vars

\* The call is answered, with a result or an error.
Done(g)   == To(g, "done") /\ rop' = [rop EXCEPT ![g] = NoCall]
Refuse(g) == Done(g) /\ UNCHANGED <<trail, used>>

Record(g, event) == <<g, event, rop[g].left>>

\* auditCritical: the record is written and the call goes on, or the write
\* fails before or after the line is in the file and the gate closes.
Audited(g, event) == trail' = trail \cup {Record(g, event)} /\ BrokerQuiet
AuditLost(g, event) ==
  /\ Fault
  /\ trail' \in {trail, trail \cup {Record(g, event)}}
  /\ durabilityClosed' = TRUE
  /\ UNCHANGED <<store, disk, lock, pc, op, history, ids, clock, crashes>>

------------------------------------------------------------------------------
(* Entry, and the calls that read requests and leases *)

\* Authenticate, check the gate once, decode.  Callers name ids the broker has
\* handed out; those of rolled back mutations name nothing any more.
ReadEnter(g) ==
  /\ At(g, "idle") /\ ~durabilityClosed
  /\ \E c \in ReadCalls :
       /\ c.kind # "host" => \/ c.req \in 1..(nextRequest - 1)
                             \/ c.tok \in 1..(nextToken - 1)
       /\ rop' = [rop EXCEPT ![g] =
            [kind |-> c.kind, agent |-> c.agent, key |-> c.key, req |-> c.req,
             tok |-> c.tok, lease |-> NoLease, left |-> SecretCount,
             env |-> FALSE, file |-> {}]]
       /\ To(g, FirstStep(c.kind))
  /\ BrokerQuiet /\ UNCHANGED <<trail, used>>

\* RequestStatusByAgent, and the first half of LeaseByRequestForAgent.
ReadRequest(g) ==
  LET r == request[rop[g].req] IN
  /\ At(g, "request")
  /\ \/ ~Owned(r, g) /\ Refuse(g)
     \/ /\ Owned(r, g)
        /\ IF rop[g].kind = "lease"
           THEN To(g, "findLease") /\ UNCHANGED <<rop, used>>
           ELSE /\ Done(g)
                /\ used' = IF r.status = "approved"
                           THEN used \cup {Use(g, "saw")} ELSE used
        /\ UNCHANGED trail
  /\ BrokerQuiet

\* GetLeaseByRequestID: the status of the request is not looked at.
FindLease(g) ==
  /\ At(g, "findLease")
  /\ \/ (\A t \in Tokens : lease[t].req # rop[g].req) /\ Refuse(g)
     \/ \E t \in Tokens :
          /\ lease[t].req = rop[g].req
          /\ \/ ~Owned(lease[t], g) /\ Refuse(g)
             \/ /\ Owned(lease[t], g)
                /\ Done(g) /\ used' = used \cup {Use(g, "saw")}
                /\ UNCHANGED trail
  /\ BrokerQuiet

\* getLeaseOwnedByAgent: the reader goes on with a copy of the lease.
GetLease(g, from, next) ==
  LET l == lease[rop[g].tok] IN
  /\ At(g, from)
  /\ \/ ~Owned(l, g) /\ Refuse(g)
     \/ /\ Owned(l, g)
        /\ rop' = [rop EXCEPT ![g].lease = l, ![g].req = l.req]
        /\ To(g, next) /\ UNCHANGED <<trail, used>>
  /\ BrokerQuiet

------------------------------------------------------------------------------
(* Secret reads *)

\* The checks on the copy: unexpired, and the caller's fingerprints and secrets
\* are those of the lease.
Usable(g) == ~IsExpired(rop[g].lease) /\ rop[g].key = rop[g].lease.key

CheckLease(g) ==
  /\ At(g, "check")
  /\ \/ ~Usable(g) /\ Refuse(g)
     \/ Usable(g) /\ To(g, "started") /\ UNCHANGED <<rop, trail, used>>
  /\ BrokerQuiet

\* An env_path resolution records the start for all secrets first.
MoreToStart(g) == rop[g].env /\ rop[g].left > 1

AuditStarted_Lazy(g) ==
  /\ At(g, "started") /\ To(g, "backend")
  /\ BrokerQuiet /\ UNCHANGED <<rop, trail, used>>
AuditStarted(g) ==
  /\ At(g, "started")
  /\ \/ /\ Audited(g, "secret_access_started")
        /\ IF MoreToStart(g)
           THEN rop' = [rop EXCEPT ![g].left = @ - 1] /\ UNCHANGED rpc
           ELSE /\ To(g, "backend")
                /\ rop' = [rop EXCEPT ![g].left =
                             IF rop[g].env THEN SecretCount ELSE @]
     \/ AuditLost(g, "secret_access_started") /\ Done(g)
  /\ UNCHANGED used

AsApproved_AnyFile(g) == TRUE
\* The file an env_path resolves to is the one the operator confirmed.
AsApproved(g) == confirmed[rop[g].req] = {target}

\* The secret comes from the backend, or all of them from the env file; an
\* error there is recorded without closing the gate.
ReadSecret(g) ==
  /\ At(g, "backend")
  /\ \/ Refuse(g)
     \/ /\ rop[g].env => AsApproved(g)
        /\ rop' = [rop EXCEPT ![g].file = IF rop[g].env THEN {target} ELSE {}]
        /\ used' = used \cup {[Use(g, "read") EXCEPT !.file = rop'[g].file]}
        /\ To(g, "accessed") /\ UNCHANGED trail
  /\ BrokerQuiet

AfterSecret_OffByOne(g) == IF rop[g].kind = "access" THEN "done"
                           ELSE IF rop[g].left = 0 THEN "runStart"
                           ELSE IF rop[g].env THEN "accessed" ELSE "check"
\* A plain access returns the value; an execution takes the next secret or runs.
AfterSecret(g) == IF rop[g].kind = "access" THEN "done"
                  ELSE IF rop[g].left = 1 THEN "runStart"
                  ELSE IF rop[g].env THEN "accessed" ELSE "check"

AuditAccessed(g) ==
  /\ At(g, "accessed")
  /\ \/ /\ Audited(g, "secret_access")
        /\ CASE AfterSecret(g) = "done"     -> Done(g)
             [] AfterSecret(g) = "runStart" -> To(g, "runStart") /\ UNCHANGED rop
             [] OTHER -> /\ To(g, AfterSecret(g))
                         /\ rop' = [rop EXCEPT ![g].left = @ - 1]
        /\ used' = used \cup {Use(g, "delivered")}
     \/ AuditLost(g, "secret_access") /\ Done(g) /\ UNCHANGED used

------------------------------------------------------------------------------
(* Executions *)

Approved(g) == LET r == request[rop[g].req] IN
  Owned(r, g) /\ r.status = "approved"

\* ApprovedLeaseIntentByAgent, after its GetLease.
CheckIntent(g) ==
  /\ At(g, "intentRequest")
  /\ \/ ~Approved(g) /\ Refuse(g)
     \/ Approved(g) /\ To(g, "resolve") /\ UNCHANGED <<rop, trail, used>>
  /\ BrokerQuiet

\* The intent, egress or command policy refuses an execution, or the
\* configuration refuses to return secrets in the clear; a blocked egress and a
\* refused plaintext read have a critical record of their own, which may fail.
RefuseByPolicy(g) ==
  /\ At(g, "resolve") \/ At(g, "lease")
  /\ \/ Refuse(g) /\ BrokerQuiet
     \/ /\ Fault /\ durabilityClosed' = TRUE
        /\ Refuse(g)
        /\ UNCHANGED <<store, disk, lock, pc, op, history, ids, clock, crashes>>

\* ResolveExecutionSecretsByAgent: the lease is read again and checked, then
\* the request.
ResolveApproved(g) ==
  LET envPath == request[rop[g].req].envPath IN
  /\ At(g, "approved")
  /\ \/ ~(Usable(g) /\ Approved(g)) /\ Refuse(g)
     \/ /\ Usable(g) /\ Approved(g)
        /\ rop' = [rop EXCEPT ![g].env = envPath]
        /\ To(g, IF envPath THEN "started" ELSE "check")
        /\ UNCHANGED <<trail, used>>
  /\ BrokerQuiet

RunStart(g) ==
  /\ At(g, "runStart")
  /\ \/ Audited(g, "execute_with_secret_started") /\ To(g, "run") /\ UNCHANGED rop
     \/ AuditLost(g, "execute_with_secret_started") /\ Done(g)
  /\ UNCHANGED used

\* The command runs; when it cannot be started or times out there is no result.
RunCommand(g) ==
  /\ At(g, "run")
  /\ used' = used \cup {Use(g, "ran")}
  /\ \/ To(g, "runEnd") /\ UNCHANGED rop
     \/ Done(g)
  /\ BrokerQuiet /\ UNCHANGED trail

RunEnd_WarnOnly(g) ==
  /\ At(g, "runEnd") /\ Done(g)
  /\ \/ Audited(g, "execute_with_secret")
     \/ /\ Fault /\ UNCHANGED trail
        /\ UNCHANGED <<store, disk, durabilityClosed, lock, pc, op, history, ids,
                       clock, crashes>>
  /\ used' = used \cup {Use(g, "answered")}
\* The result is answered in any case, with a warning when its record is lost.
RunEnd(g) ==
  /\ At(g, "runEnd") /\ Done(g)
  /\ Audited(g, "execute_with_secret") \/ AuditLost(g, "execute_with_secret")
  /\ used' = used \cup {Use(g, "answered")}

------------------------------------------------------------------------------
(* Composition with the broker *)

Read(g) ==
  /\ \/ ReadEnter(g) \/ ReadRequest(g) \/ FindLease(g)
     \/ GetLease(g, "lease", "check") \/ GetLease(g, "intent", "intentRequest")
     \/ GetLease(g, "resolve", "approved")
     \/ CheckLease(g) \/ AuditStarted(g) \/ ReadSecret(g) \/ AuditAccessed(g)
     \/ CheckIntent(g) \/ RefuseByPolicy(g) \/ ResolveApproved(g)
     \/ RunStart(g) \/ RunCommand(g) \/ RunEnd(g)
  /\ UNCHANGED <<target, confirmed>>

\* A request that is saved keeps the file its env_path resolves to at that time.
Mutate ==
  /\ \E h \in Handlers : Enter(h) \/ Acquire(h) \/ Proceed(h)
  /\ confirmed' = IF nextRequest' = nextRequest THEN confirmed
                  ELSE [confirmed EXCEPT ![nextRequest] =
                          IF request'[nextRequest].envPath THEN {target} ELSE {}]
  /\ UNCHANGED <<rpc, rop, trail, used, target>>

Restart ==
  /\ Crash
  /\ rpc' = [g \in Readers |-> IF rpc[g] = "idle" THEN "idle" ELSE "done"]
  /\ rop' = [g \in Readers |-> NoCall]
  /\ UNCHANGED <<trail, used, target, confirmed>>

Wait == Tick /\ UNCHANGED access

\* Somebody changes the link behind the env_path.
Relink ==
  /\ target' \in Files
  /\ UNCHANGED <<vars, rpc, rop, trail, used, confirmed>>

AccessInit ==
  /\ Init
  /\ rpc = [g \in Readers |-> "idle"]
  /\ rop = [g \in Readers |-> NoCall]
  /\ trail = {} /\ used = {}
  /\ target \in Files
  /\ confirmed = [r \in RequestIds |-> {}]

AccessNext == Mutate \/ Restart \/ Wait \/ Relink \/ \E g \in Readers : Read(g)

AccessSpec == AccessInit /\ [][AccessNext]_accessVars

------------------------------------------------------------------------------
(* Properties *)

\* Type invariant of the readers' state.
AccessTypeOK ==
  /\ rpc \in [Readers -> ReadSteps]
  /\ rop \in [Readers -> ReadCall \cup {NoCall}]
  /\ trail \subseteq Readers \X Records \X (0..SecretCount)
  /\ used \subseteq [by: Readers, what: Uses, req: RequestIds \cup {0},
                     tok: Tokens \cup {0}, left: 0..SecretCount,
                     epoch: 0..MaxCrashes, file: SUBSET Files]
  /\ target \in Files
  /\ confirmed \in [RequestIds -> SUBSET Files]

\* The order in which a mutation, and its undo, change the two stores: a reader
\* that finds a lease finds its request approved, at any point of any mutation.
\* (AccessSecret and LeaseByRequestForAgent rely on it: they read no status.)
LeaseImpliesApproved ==
  \A t \in Tokens : lease[t] # NoLease => request[lease[t].req].status = "approved"

\* An approval some agent saw or acted on before it was answered can still be
\* rolled back, but never unnoticed: from then on the gate is closed, until an
\* operator restarts the broker.
SeenApprovalBacked ==
  \A u \in used : u.req # 0 =>
    \/ request[u.req].status = "approved"
    \/ durabilityClosed
    \/ crashes > u.epoch

\* Secret material is read only after its start was recorded, and given out
\* only after the access was recorded.
AccessAuditGated ==
  /\ AccessTypeOK
  /\ \A u \in used :
       /\ u.what = "read" =>
            <<u.by, "secret_access_started", u.left>> \in trail
       /\ u.what = "read" /\ u.file # {} => \A n \in 1..SecretCount :
            <<u.by, "secret_access_started", n>> \in trail
       /\ u.what = "delivered" =>
            {<<u.by, "secret_access_started", u.left>>,
             <<u.by, "secret_access", u.left>>} \subseteq trail

\* A command whose result was answered without a record of it leaves the gate
\* closed (the audit_warning path).
LostResultClosesGate ==
  \A u \in used : u.what = "answered" =>
    \/ \E n \in 0..SecretCount : <<u.by, "execute_with_secret", n>> \in trail
    \/ durabilityClosed
    \/ crashes > u.epoch

\* A command ran on secrets from an env file exactly when its request named an
\* env_path, and then from the file the operator confirmed, also when the link
\* moved between the approval and the execution.
EnvPathAsApproved ==
  \A u \in used : u.what = "ran" /\ u.req # 0 => u.file = confirmed[u.req]
==============================================================================
