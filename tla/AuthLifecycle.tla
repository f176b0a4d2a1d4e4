---------------------------- MODULE AuthLifecycle ----------------------------
(***************************************************************************)
(* Authentication: the operator creates a bootstrap token, an agent pairs  *)
(* with it and holds a grant, the grant mints sessions, the operator       *)
(* revokes grants and sessions, a loop removes what has expired, and every *)
(* agent call is checked against its session and grant.                    *)
(*                                                                         *)
(* A mutation holds authLifecycleMu: it changes the store, writes the file,*)
(* writes its audit record, and on either failure restores the snapshot it *)
(* took, writes the file again and closes the durability gate.  Checks     *)
(* take no part in this and read the store at any time.                    *)
(***************************************************************************)
EXTENDS Naturals, FiniteSets

CONSTANTS
  Handlers, Cleaner,  \* goroutines that serve calls; the clean-up loop
  Checkers,           \* goroutines that check the session of an agent call
  NoProc,             \* no process holds the lock
  BootstrapTtl, IdleTtl, AbsoluteTtl, SessionTtl,
  MaxIds, MaxClock, MaxFaults, MaxCrashes \* bounds

ASSUME AuthAssumption ==
  /\ {BootstrapTtl, IdleTtl, AbsoluteTtl, SessionTtl} \subseteq Nat
  /\ {MaxIds, MaxClock, MaxFaults, MaxCrashes} \subseteq Nat
  /\ Cleaner \notin Handlers /\ NoProc \notin Handlers \cup {Cleaner}

VARIABLES
  auth, authDisk,    \* the store in memory, and its file
  durabilityClosed,  \* the durability gate
  lock, snapshot,    \* owner of authLifecycleMu, and the copy it will restore
  pc, op,            \* each process's position and call
  check, admitted,   \* the checks under way; history: those that passed
  acked, asked,      \* history: success replies; credentials whose end was asked for
  nextId, clock, faults, crashes

control  == <<lock, pc, op, snapshot>>
checks   == <<check, admitted>>
history  == <<acked, asked>>
counters == <<nextId, clock, faults, crashes>>
vars     == <<auth, authDisk, durabilityClosed, control, checks, history, counters>>

Procs == Handlers \cup {Cleaner}
Ids   == 1..MaxIds

------------------------------------------------------------------------------
(* Data *)

BootstrapToken == [expires: Nat, used: BOOLEAN]
PairingGrant   == [token: Ids, idle: Nat, absolute: Nat, revoked: BOOLEAN]
SessionToken   == [grant: Ids, expires: Nat, revoked: BOOLEAN]
None           == [expires |-> 0]

Store == [bootstrap: [Ids -> BootstrapToken \cup {None}],
          grants:    [Ids -> PairingGrant \cup {None}],
          sessions:  [Ids -> SessionToken \cup {None}]]

\* Calls name a token, a grant and a session; matches: the container is the one
\* the operator named.
BootstrapCalls == [kind: {"bootstrap"}, token: {0}, grant: {0}, session: {0},
                   matches: {TRUE}]
PairCalls      == [kind: {"pair"}, token: Ids, grant: {0}, session: {0},
                   matches: BOOLEAN]
MintCalls      == [kind: {"mint"}, token: {0}, grant: Ids, session: {0},
                   matches: {TRUE}]
RevokeCalls    == [kind: {"revoke"}, token: {0}, grant: Ids \cup {0},
                   session: Ids \cup {0}, matches: {TRUE}]
CleanupCalls   == [kind: {"cleanup"}, token: {0}, grant: {0}, session: {0},
                   matches: {TRUE}]
Kinds  == {"bootstrap", "pair", "mint", "revoke", "cleanup"}
Call   == [kind: Kinds, token: Ids \cup {0}, grant: Ids \cup {0},
           session: Ids \cup {0}, matches: BOOLEAN]
NoCall == [kind |-> "none"]
Steps  == {"idle", "waiting", "revokeSession", "persist", "audit", "restore",
           "repersist"}

Reply == [kind: Kinds, token: Ids \cup {0}, grant: Ids \cup {0},
          session: Ids \cup {0}, expires: Nat]

Expired(x) == clock >= x.expires
Inactive(g) == g.revoked \/ clock >= g.idle \/ clock >= g.absolute

------------------------------------------------------------------------------
(* Control *)

Fault == faults < MaxFaults /\ faults' = faults + 1

\* Callers name what a reply gave them: tokens, grants and sessions that may be
\* gone by now.
Handed(kind) == {r \in acked : r.kind = kind}
Offered ==
  {c \in PairCalls : \E r \in Handed("bootstrap") : c.token = r.token}
  \cup {c \in MintCalls : \E r \in Handed("pair") : c.grant = r.grant}
  \cup {c \in RevokeCalls :
         /\ c.grant # 0 => \E r \in Handed("pair") : c.grant = r.grant
         /\ c.session # 0 => \E r \in Handed("mint") : c.session = r.session}
  \cup BootstrapCalls

\* The credentials a call puts an end to, if it succeeds.
Ends(c) == (CASE c.kind = "pair"   -> {c.token}
              [] c.kind = "revoke" -> {c.grant, c.session}
              [] OTHER             -> {}) \ {0}

\* A handler authenticates, checks the gate, decodes the call.
Enter(h) ==
  /\ pc[h] = "idle" /\ ~durabilityClosed
  /\ \E c \in Offered : /\ op' = [op EXCEPT ![h] = c]
                       /\ asked' = asked \cup Ends(c)
  /\ pc' = [pc EXCEPT ![h] = "waiting"]
  /\ UNCHANGED <<auth, authDisk, durabilityClosed, lock, snapshot, checks, acked,
                 counters>>

\* The ticker fires; the clean-up does not look at the gate.
CleanerTick ==
  /\ pc[Cleaner] = "idle"
  /\ \E c \in CleanupCalls : op' = [op EXCEPT ![Cleaner] = c]
  /\ pc' = [pc EXCEPT ![Cleaner] = "waiting"]
  /\ UNCHANGED <<auth, authDisk, durabilityClosed, lock, snapshot, checks, history,
                 counters>>

Locks(p, kind) == lock = NoProc /\ pc[p] = "waiting" /\ op[p].kind = kind
Holds(p, step) == lock = p /\ pc[p] = step

\* The call ends and the lock is released.
Finish(p) ==
  /\ lock' = NoProc
  /\ snapshot' = None
  /\ pc' = [pc EXCEPT ![p] = "idle"]
  /\ op' = [op EXCEPT ![p] = NoCall]

\* The process takes the lock and a snapshot, and changes the store.
Change(p, call, store, step) ==
  /\ lock' = p
  /\ snapshot' = auth
  /\ auth' = store
  /\ op' = [op EXCEPT ![p] = call]
  /\ pc' = [pc EXCEPT ![p] = step]
  /\ UNCHANGED <<authDisk, durabilityClosed, checks, history, clock, faults, crashes>>

RefusedCall(p) ==
  /\ Finish(p)
  /\ UNCHANGED <<auth, authDisk, durabilityClosed, checks, history, counters>>

------------------------------------------------------------------------------
(* Mutations *)

CreateBootstrap(h) ==
  /\ Locks(h, "bootstrap") /\ nextId <= MaxIds
  /\ Change(h, [op[h] EXCEPT !.token = nextId],
            [auth EXCEPT !.bootstrap[nextId] =
               [expires |-> clock + BootstrapTtl, used |-> FALSE]],
            "persist")
  /\ nextId' = nextId + 1

Consumable_Reusable(c) ==
  LET t == auth.bootstrap[c.token] IN t # None /\ c.matches /\ ~Expired(t)
Consumable(c) ==
  LET t == auth.bootstrap[c.token] IN
  t # None /\ ~t.used /\ c.matches /\ ~Expired(t)

\* The token is used up and the grant exists, in two calls of the store that
\* no check can tell apart.
CompletePairing(h) ==
  /\ Locks(h, "pair") /\ nextId <= MaxIds
  /\ Consumable(op[h])
  /\ Change(h, [op[h] EXCEPT !.grant = nextId],
            [auth EXCEPT !.bootstrap[op[h].token].used = TRUE,
                         !.grants[nextId] =
               [token |-> op[h].token, idle |-> clock + IdleTtl,
                absolute |-> clock + AbsoluteTtl, revoked |-> FALSE]],
            "persist")
  /\ nextId' = nextId + 1

RefusePairing(h) == Locks(h, "pair") /\ ~Consumable(op[h]) /\ RefusedCall(h)

Mintable(c) == LET g == auth.grants[c.grant] IN g # None /\ ~Inactive(g)

\* Minting keeps the grant from idling out.
MintSession(h) ==
  /\ Locks(h, "mint") /\ nextId <= MaxIds
  /\ Mintable(op[h])
  /\ Change(h, [op[h] EXCEPT !.session = nextId],
            [auth EXCEPT !.grants[op[h].grant].idle = clock + IdleTtl,
                         !.sessions[nextId] =
               [grant |-> op[h].grant, expires |-> clock + SessionTtl,
                revoked |-> FALSE]],
            "persist")
  /\ nextId' = nextId + 1

RefuseMint(h) == Locks(h, "mint") /\ ~Mintable(op[h]) /\ RefusedCall(h)

\* What Revoke looks up first exists.
Known(c) == IF c.grant # 0 THEN auth.grants[c.grant] # None
            ELSE c.session # 0 /\ auth.sessions[c.session] # None

RevokeGrant_GrantOnly(h) ==
  LET c == op[h] IN
  /\ Locks(h, "revoke") /\ c.grant # 0 /\ Known(c)
  /\ Change(h, c, [auth EXCEPT !.grants[c.grant].revoked = TRUE], "persist")
  /\ UNCHANGED nextId
\* Revoke: the grant first, then the session.
RevokeGrant(h) ==
  LET c == op[h] IN
  /\ Locks(h, "revoke") /\ c.grant # 0 /\ Known(c)
  /\ Change(h, c, [auth EXCEPT !.grants[c.grant].revoked = TRUE],
            IF c.session = 0 THEN "persist" ELSE "revokeSession")
  /\ UNCHANGED nextId

RevokeSessionOnly(h) ==
  LET c == op[h] IN
  /\ Locks(h, "revoke") /\ c.grant = 0 /\ Known(c)
  /\ Change(h, c, [auth EXCEPT !.sessions[c.session].revoked = TRUE], "persist")
  /\ UNCHANGED nextId

RevokeSession_NoLookup(h) ==
  LET s == op[h].session IN
  /\ Holds(h, "revokeSession")
  /\ auth' = [auth EXCEPT !.sessions[s] =
       IF @ = None THEN [grant |-> 0, expires |-> 0, revoked |-> TRUE]
                   ELSE [@ EXCEPT !.revoked = TRUE]]
  /\ pc' = [pc EXCEPT ![h] = "persist"]
  /\ UNCHANGED <<authDisk, durabilityClosed, lock, op, snapshot, checks, history,
                 counters>>
RevokeSession(h) ==
  LET s == op[h].session IN
  /\ Holds(h, "revokeSession") /\ auth.sessions[s] # None
  /\ auth' = [auth EXCEPT !.sessions[s].revoked = TRUE]
  /\ pc' = [pc EXCEPT ![h] = "persist"]
  /\ UNCHANGED <<authDisk, durabilityClosed, lock, op, snapshot, checks, history,
                 counters>>

RefuseRevoke_KeepsGrant(h) ==
  LET c == op[h] IN
  \/ Locks(h, "revoke") /\ ~Known(c) /\ RefusedCall(h)
  \/ Holds(h, "revokeSession") /\ auth.sessions[c.session] = None /\ RefusedCall(h)
\* Nothing named, or an unknown grant or session; the grant that was revoked
\* before the session was found missing is restored, without a write.
RefuseRevoke(h) ==
  LET c == op[h] IN
  \/ Locks(h, "revoke") /\ ~Known(c) /\ RefusedCall(h)
  \/ /\ Holds(h, "revokeSession") /\ auth.sessions[c.session] = None
     /\ auth' = snapshot
     /\ Finish(h)
     /\ UNCHANGED <<authDisk, durabilityClosed, checks, history, counters>>

Keep(tokens, Spent(_)) ==
  [i \in Ids |-> IF tokens[i] # None /\ Spent(tokens[i]) THEN None ELSE tokens[i]]

Removed_BootstrapsOnly(store) ==
  [store EXCEPT !.bootstrap = Keep(store.bootstrap, LAMBDA t : t.used \/ Expired(t))]
\* CleanupExpired: used or expired tokens and revoked or expired sessions go,
\* idle and overage grants become revoked.
Removed(store) ==
  [bootstrap |-> Keep(store.bootstrap, LAMBDA t : t.used \/ Expired(t)),
   sessions  |-> Keep(store.sessions, LAMBDA s : s.revoked \/ Expired(s)),
   grants    |-> [i \in Ids |-> LET g == store.grants[i] IN
                    IF g # None /\ Inactive(g) THEN [g EXCEPT !.revoked = TRUE]
                                               ELSE g]]

Cleanup(p) ==
  /\ Locks(p, "cleanup")
  /\ \/ Removed(auth) = auth /\ RefusedCall(p)
     \/ /\ Removed(auth) # auth
        /\ Change(p, op[p], Removed(auth), "persist")
        /\ UNCHANGED nextId

------------------------------------------------------------------------------
(* Persist, audit, roll back *)

PersistOk_NoSessions(p) ==
  /\ Holds(p, "persist")
  /\ authDisk' = [auth EXCEPT !.sessions = authDisk.sessions]
  /\ pc' = [pc EXCEPT ![p] = "audit"]
  /\ UNCHANGED <<auth, durabilityClosed, lock, op, snapshot, checks, history, counters>>
PersistOk(p) ==
  /\ Holds(p, "persist")
  /\ authDisk' = auth
  /\ pc' = [pc EXCEPT ![p] = "audit"]
  /\ UNCHANGED <<auth, durabilityClosed, lock, op, snapshot, checks, history, counters>>

\* The write fails before or after the file was replaced.
PersistFails(p) ==
  /\ Holds(p, "persist") /\ Fault
  /\ authDisk' \in {authDisk, auth}
  /\ durabilityClosed' = TRUE
  /\ pc' = [pc EXCEPT ![p] = "restore"]
  /\ UNCHANGED <<auth, lock, op, snapshot, checks, history, nextId, clock, crashes>>

\* A reply names the credential it hands out and when that expires.
ReplyTo(c) ==
  [kind |-> c.kind, token |-> c.token, grant |-> c.grant, session |-> c.session,
   expires |-> CASE c.kind = "bootstrap" -> auth.bootstrap[c.token].expires
                 [] c.kind = "pair"      -> auth.grants[c.grant].absolute
                 [] c.kind = "mint"      -> auth.sessions[c.session].expires
                 [] OTHER                -> 0]

AuditOk(p) ==
  /\ Holds(p, "audit")
  /\ Finish(p)
  /\ acked' = IF op[p].kind = "cleanup" THEN acked ELSE acked \cup {ReplyTo(op[p])}
  /\ UNCHANGED <<auth, authDisk, durabilityClosed, checks, asked, counters>>

AuditFails(p) ==
  /\ Holds(p, "audit") /\ Fault
  /\ durabilityClosed' = TRUE
  /\ pc' = [pc EXCEPT ![p] = "restore"]
  /\ UNCHANGED <<auth, authDisk, lock, op, snapshot, checks, history, nextId, clock,
                 crashes>>

Restore(p) ==
  /\ Holds(p, "restore")
  /\ auth' = snapshot
  /\ pc' = [pc EXCEPT ![p] = "repersist"]
  /\ UNCHANGED <<authDisk, durabilityClosed, lock, op, snapshot, checks, history, counters>>

\* The caller gets the error of the write that failed, whether or not the
\* restored store could be written.
Repersist(p) ==
  /\ Holds(p, "repersist")
  /\ Finish(p)
  /\ \/ authDisk' = auth /\ UNCHANGED <<durabilityClosed, faults>>
     \/ Fault /\ authDisk' \in {authDisk, auth} /\ durabilityClosed' = TRUE
  /\ UNCHANGED <<auth, checks, history, nextId, clock, crashes>>

------------------------------------------------------------------------------
(* requireAgentSession *)

NoCheck == [session |-> 0, grant |-> 0, late |-> FALSE]

\* history: the revocation of this session or grant was answered already.
Revoked(session, grant) == \E r \in acked :
  r.kind = "revoke" /\ (r.session = session \/ r.grant = grant)

\* ValidateSession, of a session its agent was given.
CheckSession(k) ==
  /\ check[k] = NoCheck
  /\ \E r \in {a \in acked : a.kind = "mint"} :
       LET s == auth.sessions[r.session] IN
       /\ s # None /\ ~s.revoked /\ ~Expired(s)
       /\ check' = [check EXCEPT ![k] =
            [session |-> r.session, grant |-> s.grant,
             late |-> Revoked(r.session, s.grant)]]
  /\ UNCHANGED <<auth, authDisk, durabilityClosed, control, admitted, history, counters>>

CheckGrant_Unchecked(k) ==
  /\ check[k] # NoCheck
  /\ check' = [check EXCEPT ![k] = NoCheck]
  /\ admitted' = admitted \cup {check[k]}
  /\ UNCHANGED <<auth, authDisk, durabilityClosed, control, history, counters>>
\* GetGrant and validateGrantActive.
CheckGrant(k) ==
  LET g == auth.grants[check[k].grant] IN
  /\ check[k] # NoCheck
  /\ check' = [check EXCEPT ![k] = NoCheck]
  /\ admitted' = IF g # None /\ ~Inactive(g) THEN admitted \cup {check[k]}
                                             ELSE admitted
  /\ UNCHANGED <<auth, authDisk, durabilityClosed, control, history, counters>>

------------------------------------------------------------------------------
(* Environment *)

\* The process dies and starts again from the file.
Crash ==
  /\ crashes < MaxCrashes /\ crashes' = crashes + 1
  /\ auth' = authDisk
  /\ durabilityClosed' = FALSE
  /\ lock' = NoProc /\ snapshot' = None
  /\ pc' = [p \in Procs |-> "idle"] /\ op' = [p \in Procs |-> NoCall]
  /\ check' = [k \in Checkers |-> NoCheck]
  /\ UNCHANGED <<authDisk, admitted, history, nextId, clock, faults>>

Tick ==
  /\ clock < MaxClock /\ clock' = clock + 1
  /\ UNCHANGED <<auth, authDisk, durabilityClosed, control, checks, history, nextId,
                 faults, crashes>>

------------------------------------------------------------------------------
EmptyStore == [bootstrap |-> [i \in Ids |-> None], grants |-> [i \in Ids |-> None],
               sessions |-> [i \in Ids |-> None]]

Init ==
  /\ auth = EmptyStore /\ authDisk = EmptyStore
  /\ durabilityClosed = FALSE
  /\ lock = NoProc /\ snapshot = None
  /\ pc = [p \in Procs |-> "idle"] /\ op = [p \in Procs |-> NoCall]
  /\ check = [k \in Checkers |-> NoCheck] /\ admitted = {}
  /\ acked = {} /\ asked = {}
  /\ nextId = 1 /\ clock = 0 /\ faults = 0 /\ crashes = 0

Acquire(p) ==
  \/ CreateBootstrap(p) \/ CompletePairing(p) \/ RefusePairing(p)
  \/ MintSession(p) \/ RefuseMint(p)
  \/ RevokeGrant(p) \/ RevokeSessionOnly(p) \/ Cleanup(p)

Proceed(p) ==
  \/ RevokeSession(p) \/ PersistOk(p) \/ PersistFails(p)
  \/ AuditOk(p) \/ AuditFails(p) \/ Restore(p) \/ Repersist(p)

Next ==
  \/ \E h \in Handlers : Enter(h)
  \/ CleanerTick
  \/ \E p \in Procs : Acquire(p) \/ RefuseRevoke(p) \/ Proceed(p)
  \/ \E k \in Checkers : CheckSession(k) \/ CheckGrant(k)
  \/ Crash \/ Tick

Spec == Init /\ [][Next]_vars

\* The ticker fires again and again, the holder of the lock runs, and a
\* sync.Mutex passes to its oldest waiter.
FairSpec ==
  /\ Spec
  /\ WF_vars(CleanerTick)
  /\ \A p \in Procs : WF_vars(Proceed(p) \/ RefuseRevoke(p))
                      /\ SF_vars(Acquire(p) \/ RefuseRevoke(p))

------------------------------------------------------------------------------
(* Properties *)

\* The store, its file, every call and every reply have their shape.
TypeOK ==
  /\ auth \in Store /\ authDisk \in Store
  /\ durabilityClosed \in BOOLEAN
  /\ lock \in Procs \cup {NoProc} /\ snapshot \in Store \cup {None}
  /\ pc \in [Procs -> Steps] /\ op \in [Procs -> Call \cup {NoCall}]
  /\ check \in [Checkers -> [session: Ids \cup {0}, grant: Ids \cup {0},
                             late: BOOLEAN]]
  /\ admitted \subseteq [session: Ids, grant: Ids, late: BOOLEAN]
  /\ acked \subseteq Reply /\ asked \subseteq Ids
  /\ {nextId, clock, faults, crashes} \subseteq Nat

\* Between two calls, memory and file agree as long as the gate is open: every
\* refusal and every failure before the gate closes leaves no trace
\* (auth_lifecycle.go 80-127, 168-188; auth_cleanup.go 24-58).
DurableUnlessClosed == TypeOK /\ (lock = NoProc /\ ~durabilityClosed => authDisk = auth)

\* A bootstrap token pays for one grant, in memory, in the file and among the
\* replies, whatever was rolled back, cleaned up or restarted in between
\* (store.go 59-78, auth_lifecycle.go 96-127).
OneGrantPerBootstrap ==
  /\ \A store \in {auth, authDisk} : \A g, h \in {i \in Ids : store.grants[i] # None} :
       store.grants[g].token = store.grants[h].token => g = h
  /\ \A r, s \in {a \in acked : a.kind = "pair"} : r.token = s.token => r.grant = s.grant

\* A revocation that was answered stands: no roll-back of another call, no
\* clean-up and no restart brings the grant or the session back
\* (auth_lifecycle.go 162-189).
RevocationHolds == \A r \in {a \in acked : a.kind = "revoke"} : \A store \in {auth, authDisk} :
  /\ r.grant # 0 => store.grants[r.grant] # None /\ store.grants[r.grant].revoked
  /\ r.session # 0 => \/ store.sessions[r.session] = None
                      \/ store.sessions[r.session].revoked

Credential(r) == CASE r.kind = "bootstrap" -> r.token
                   [] r.kind = "pair"      -> r.grant
                   [] r.kind = "mint"      -> r.session

Present(store, r) ==
  CASE r.kind = "bootstrap" -> store.bootstrap[r.token] # None /\ ~store.bootstrap[r.token].used
    [] r.kind = "pair"      -> store.grants[r.grant] # None /\ ~store.grants[r.grant].revoked
    [] r.kind = "mint"      -> store.sessions[r.session] # None
                               /\ ~store.sessions[r.session].revoked

\* The grant is idle or over age by its own times, whatever the clean-up noted.
Idled(store, r) == LET g == store.grants[r.grant] IN
  r.kind = "pair" /\ g # None /\ (clock >= g.idle \/ clock >= g.absolute)

\* A credential that was handed out stays usable, in memory and in the file,
\* until the time its reply gave, unless somebody asked for its end or its
\* grant idled out (auth_lifecycle.go 70-160, persist.go 44-76).
AckedCredentialKept == \A r \in {a \in acked : a.kind # "revoke"} : \A store \in {auth, authDisk} :
  Present(store, r) \/ clock >= r.expires \/ Idled(store, r) \/ Credential(r) \in asked

\* No call passes whose session or grant had been revoked, with the answer
\* sent, before its check began (authz.go 41-86).
AdmittedNotRevoked == \A c \in admitted : ~c.late

\* The clean-up loop gets to every expired session (auth_cleanup.go 10-58).
ExpiredRemoved == \A i \in Ids :
  (auth.sessions[i] # None /\ Expired(auth.sessions[i])) ~> (auth.sessions[i] = None)
==============================================================================
