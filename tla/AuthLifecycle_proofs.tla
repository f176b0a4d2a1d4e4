------------------------- MODULE AuthLifecycle_proofs -------------------------
(***************************************************************************)
(* Theorems about AuthLifecycle: what replies promise holds of the store   *)
(* in memory, of its file and of the copy a roll-back restores, whatever   *)
(* is rolled back, cleaned up, lost or restarted.                          *)
(***************************************************************************)
EXTENDS AuthLifecycle, TLAPS

------------------------------------------------------------------------------
(* What holds of a store: the copies of it are related to the replies sent *)
(* so far, the credentials whose end was asked for, and the time.          *)

\* Ids not given out yet name nothing, and no grant is for a token to come.
FreshIn(s, n) == \A i \in Ids :
  /\ i >= n => s.bootstrap[i] = None /\ s.grants[i] = None /\ s.sessions[i] = None
  /\ s.grants[i] # None => s.grants[i].token < n

\* The token a grant was paid with is used up, or gone.
PaidIn(s) == \A i \in Ids : s.grants[i] # None =>
  LET t == s.bootstrap[s.grants[i].token] IN t = None \/ t.used

OneGrantIn(s) == \A g, h \in Ids :
  /\ s.grants[g] # None /\ s.grants[h] # None
  /\ s.grants[g].token = s.grants[h].token
  => g = h

\* The grant a pairing was answered with is there, for the token it was paid with.
PairedIn(s, replies) == \A r \in replies : r.kind = "pair" =>
  s.grants[r.grant] # None /\ s.grants[r.grant].token = r.token

\* What was revoked stays so.
StandsIn(s, replies) == \A r \in replies : r.kind = "revoke" =>
  /\ r.grant # 0 => s.grants[r.grant] # None /\ s.grants[r.grant].revoked
  /\ r.session # 0 => s.sessions[r.session] = None \/ s.sessions[r.session].revoked

\* Tokens and sessions expire when their replies said.
DatedIn(s, replies) == \A r \in replies :
  /\ r.kind = "bootstrap" /\ s.bootstrap[r.token] # None
       => s.bootstrap[r.token].expires = r.expires
  /\ r.kind = "mint" /\ s.sessions[r.session] # None
       => s.sessions[r.session].expires = r.expires

IdledAt(s, r, now) == LET g == s.grants[r.grant] IN
  r.kind = "pair" /\ g # None /\ (now >= g.idle \/ now >= g.absolute)

KeptIn(s, now, replies, ended) == \A r \in replies : r.kind # "revoke" =>
  Present(s, r) \/ now >= r.expires \/ IdledAt(s, r, now) \/ Credential(r) \in ended

Good(s, n, now, replies, ended) ==
  /\ FreshIn(s, n) /\ PaidIn(s) /\ OneGrantIn(s)
  /\ PairedIn(s, replies) /\ StandsIn(s, replies) /\ DatedIn(s, replies)
  /\ KeptIn(s, now, replies, ended)

\* Replies name credentials that were given out, each kind its own.
Answers(n, replies) ==
  /\ replies \subseteq Reply
  /\ \A r \in replies :
       /\ r.token < n /\ r.grant < n /\ r.session < n
       /\ r.kind # "cleanup"
       /\ r.kind = "bootstrap" => r.token \in Ids
       /\ r.kind = "pair" => r.token \in Ids /\ r.grant \in Ids
       /\ r.kind = "mint" => r.session \in Ids

\* What a call has done to the store when it persists it.
Done(c, s) ==
  /\ c.kind = "bootstrap" => /\ c.token \in Ids
                             /\ s.bootstrap[c.token] # None /\ ~s.bootstrap[c.token].used
  /\ c.kind = "pair" => /\ c.token \in Ids /\ c.grant \in Ids
                        /\ s.grants[c.grant] # None /\ ~s.grants[c.grant].revoked
                        /\ s.grants[c.grant].token = c.token
  /\ c.kind = "mint" => /\ c.session \in Ids
                        /\ s.sessions[c.session] # None /\ ~s.sessions[c.session].revoked
  /\ c.kind = "revoke" =>
       /\ c.grant # 0 => s.grants[c.grant] # None /\ s.grants[c.grant].revoked
       /\ c.session # 0 => s.sessions[c.session] = None \/ s.sessions[c.session].revoked

\* Half of a revocation.
HalfDone(c, s) ==
  /\ c.kind = "revoke" /\ c.grant \in Ids /\ c.session \in Ids
  /\ s.grants[c.grant] # None /\ s.grants[c.grant].revoked

------------------------------------------------------------------------------
(* The inductive invariant *)

Waiting == BootstrapCalls \cup PairCalls \cup MintCalls \cup RevokeCalls \cup CleanupCalls

\* The holder of the lock is alone, and a call names credentials that exist or
\* existed and whose end it has asked for.
ControlInv ==
  /\ lock # NoProc => snapshot \in Store
  /\ \A p \in Procs :
       /\ lock = p <=> pc[p] \notin {"idle", "waiting"}
       /\ pc[p] # "idle" => /\ op[p] \in Call /\ Ends(op[p]) \subseteq asked
                            /\ op[p].token < nextId /\ op[p].grant < nextId
                            /\ op[p].session < nextId
       /\ pc[p] = "waiting" => op[p] \in Waiting
       /\ pc[p] = "revokeSession" => HalfDone(op[p], auth)
       /\ pc[p] \in {"persist", "audit"} => Done(op[p], auth)

\* Behind an open gate the file is what a refusal goes back to, then what is
\* being answered; what is restored is restored behind a closed one.
GateInv ==
  /\ lock = NoProc /\ ~durabilityClosed => authDisk = auth
  /\ \A p \in Procs :
       /\ pc[p] \in {"revokeSession", "persist"} /\ ~durabilityClosed => authDisk = snapshot
       /\ pc[p] = "audit" => authDisk = auth
       /\ pc[p] \in {"restore", "repersist"} => durabilityClosed

StoresInv ==
  /\ Good(auth, nextId, clock, acked, asked)
  /\ Good(authDisk, nextId, clock, acked, asked)
  /\ lock # NoProc => Good(snapshot, nextId, clock, acked, asked)

\* A check that was late when it began is about a grant that was revoked.
CheckInv ==
  /\ \A k \in Checkers : check[k] # NoCheck =>
       /\ check[k].session \in Ids /\ check[k].grant \in Ids
       /\ check[k].late => \E r \in acked : r.kind = "revoke" /\ r.grant = check[k].grant
  /\ AdmittedNotRevoked

AuthInv ==
  /\ TypeOK /\ ControlInv /\ GateInv /\ StoresInv /\ CheckInv
  /\ Answers(nextId, acked) /\ nextId >= 1

------------------------------------------------------------------------------
(* Stores *)

\* An entry is told from no entry.
LEMMA EntryPresent ==
  /\ \A t \in BootstrapToken : t # None
  /\ \A g \in PairingGrant : g # None
  /\ \A s \in SessionToken : s # None
<1>1. \A t \in BootstrapToken : t # None
  <2> SUFFICES ASSUME NEW t \in BootstrapToken, t = None PROVE FALSE OBVIOUS
  <2>1. "used" \in DOMAIN t BY DEF BootstrapToken
  <2>2. DOMAIN None = {"expires"} BY DEF None
  <2> QED BY <2>1, <2>2
<1>2. \A g \in PairingGrant : g # None
  <2> SUFFICES ASSUME NEW g \in PairingGrant, g = None PROVE FALSE OBVIOUS
  <2>1. "idle" \in DOMAIN g BY DEF PairingGrant
  <2>2. DOMAIN None = {"expires"} BY DEF None
  <2> QED BY <2>1, <2>2
<1>3. \A s \in SessionToken : s # None BY DEF SessionToken, None
<1> QED BY <1>1, <1>2, <1>3

\* The entries of a store and their fields.
LEMMA StoreTypes ==
  ASSUME NEW s \in Store
  PROVE  /\ s.bootstrap \in [Ids -> BootstrapToken \cup {None}]
         /\ s.grants \in [Ids -> PairingGrant \cup {None}]
         /\ s.sessions \in [Ids -> SessionToken \cup {None}]
         /\ \A i \in Ids :
              /\ s.bootstrap[i] # None =>
                   s.bootstrap[i].used \in BOOLEAN /\ s.bootstrap[i].expires \in Nat
              /\ s.grants[i] # None =>
                   /\ s.grants[i].token \in Ids /\ s.grants[i].revoked \in BOOLEAN
                   /\ s.grants[i].idle \in Nat /\ s.grants[i].absolute \in Nat
              /\ s.sessions[i] # None =>
                   /\ s.sessions[i].grant \in Ids /\ s.sessions[i].revoked \in BOOLEAN
                   /\ s.sessions[i].expires \in Nat
<1>1. /\ s.bootstrap \in [Ids -> BootstrapToken \cup {None}]
      /\ s.grants \in [Ids -> PairingGrant \cup {None}]
      /\ s.sessions \in [Ids -> SessionToken \cup {None}]
  BY DEF Store
<1>2. \A i \in Ids : s.bootstrap[i] # None =>
        s.bootstrap[i].used \in BOOLEAN /\ s.bootstrap[i].expires \in Nat
  BY <1>1 DEF BootstrapToken
<1>3. \A i \in Ids : s.grants[i] # None =>
        /\ s.grants[i].token \in Ids /\ s.grants[i].revoked \in BOOLEAN
        /\ s.grants[i].idle \in Nat /\ s.grants[i].absolute \in Nat
  BY <1>1 DEF PairingGrant
<1>4. \A i \in Ids : s.sessions[i] # None =>
        /\ s.sessions[i].grant \in Ids /\ s.sessions[i].revoked \in BOOLEAN
        /\ s.sessions[i].expires \in Nat
  BY <1>1 DEF SessionToken
<1> QED BY <1>1, <1>2, <1>3, <1>4

\* What a reply names.
LEMMA AnswerTypes ==
  ASSUME NEW n, NEW replies, Answers(n, replies), NEW r \in replies
  PROVE  /\ r.kind \in {"bootstrap", "pair", "mint", "revoke"}
         /\ r.token \in Ids \cup {0} /\ r.grant \in Ids \cup {0}
         /\ r.session \in Ids \cup {0}
         /\ r.expires \in Nat
         /\ r.token < n /\ r.grant < n /\ r.session < n
         /\ r.kind = "bootstrap" => r.token \in Ids
         /\ r.kind = "pair" => r.token \in Ids /\ r.grant \in Ids
         /\ r.kind = "mint" => r.session \in Ids
BY DEF Answers, Reply, Kinds

\* Ids are numbers.
LEMMA IdTypes == \A i \in Ids : i \in Nat /\ i # 0
BY AuthAssumption DEF Ids

\* What holds of a store goes on to hold of it: more ids are given out, time
\* passes, more ends are asked for.
LEMMA GoodStill ==
  ASSUME NEW s \in Store, NEW n \in Nat, NEW m \in Nat, n <= m,
         NEW now \in Nat, NEW later \in Nat, now <= later,
         NEW replies, Answers(n, replies), NEW ended, NEW more, ended \subseteq more,
         Good(s, n, now, replies, ended)
  PROVE  Good(s, m, later, replies, more)
<1>1. FreshIn(s, m) BY StoreTypes, IdTypes DEF Good, FreshIn
<1>2. KeptIn(s, later, replies, more)
  <2> SUFFICES ASSUME NEW r \in replies, r.kind # "revoke"
               PROVE  \/ Present(s, r) \/ later >= r.expires \/ IdledAt(s, r, later)
                      \/ Credential(r) \in more
    BY DEF KeptIn
  <2>1. Present(s, r) \/ now >= r.expires \/ IdledAt(s, r, now) \/ Credential(r) \in ended
    BY DEF Good, KeptIn
  <2>2. now >= r.expires => later >= r.expires BY AnswerTypes
  <2>3. IdledAt(s, r, now) => IdledAt(s, r, later)
    BY AnswerTypes, StoreTypes DEF IdledAt
  <2> QED BY <2>1, <2>2, <2>3
<1> QED BY <1>1, <1>2 DEF Good

\* A new token.
LEMMA AddToken ==
  ASSUME NEW s \in Store, NEW u \in Store, NEW n \in Ids, NEW now \in Nat,
         NEW replies, Answers(n, replies), NEW ended,
         Good(s, n, now, replies, ended),
         NEW t \in BootstrapToken,
         u.bootstrap = [s.bootstrap EXCEPT ![n] = t],
         u.grants = s.grants, u.sessions = s.sessions
  PROVE  Good(u, n + 1, now, replies, ended)
<1>1. FreshIn(u, n + 1) BY StoreTypes, IdTypes DEF Good, FreshIn
<1>2. PaidIn(u)
  BY StoreTypes, IdTypes DEF Good, PaidIn, FreshIn
<1>3. OneGrantIn(u) BY DEF Good, OneGrantIn
<1>4. PairedIn(u, replies) BY DEF Good, PairedIn
<1>5. StandsIn(u, replies) BY DEF Good, StandsIn
<1>6. \A r \in replies : r.kind = "bootstrap" => u.bootstrap[r.token] = s.bootstrap[r.token]
  BY StoreTypes, AnswerTypes, IdTypes
<1>7. DatedIn(u, replies) BY <1>6 DEF Good, DatedIn
<1>8. KeptIn(u, now, replies, ended)
  <2> SUFFICES ASSUME NEW r \in replies, r.kind # "revoke"
               PROVE  \/ Present(u, r) \/ now >= r.expires \/ IdledAt(u, r, now)
                      \/ Credential(r) \in ended
    BY DEF KeptIn
  <2>1. Present(s, r) \/ now >= r.expires \/ IdledAt(s, r, now) \/ Credential(r) \in ended
    BY DEF Good, KeptIn
  <2>2. Present(s, r) => Present(u, r) BY <1>6, AnswerTypes DEF Present
  <2>3. IdledAt(s, r, now) => IdledAt(u, r, now) BY DEF IdledAt
  <2> QED BY <2>1, <2>2, <2>3
<1> QED BY <1>1, <1>2, <1>3, <1>4, <1>5, <1>7, <1>8 DEF Good

\* A token is spent on a new grant.
LEMMA AddGrant ==
  ASSUME NEW s \in Store, NEW u \in Store, NEW n \in Ids, NEW now \in Nat,
         NEW replies, Answers(n, replies), NEW ended,
         Good(s, n, now, replies, ended),
         NEW k \in Ids, k < n, k \in ended,
         s.bootstrap[k] # None, ~s.bootstrap[k].used,
         NEW g \in PairingGrant, g.token = k,
         u.bootstrap = [s.bootstrap EXCEPT ![k].used = TRUE],
         u.grants = [s.grants EXCEPT ![n] = g], u.sessions = s.sessions
  PROVE  Good(u, n + 1, now, replies, ended)
<1>1. /\ u.bootstrap[k] # None /\ u.bootstrap[k].used
      /\ u.bootstrap[k].expires = s.bootstrap[k].expires
  <2>1. s.bootstrap[k] \in BootstrapToken BY StoreTypes
  <2>2. u.bootstrap[k] = [s.bootstrap[k] EXCEPT !.used = TRUE] BY StoreTypes
  <2>3. u.bootstrap[k] \in BootstrapToken BY <2>1, <2>2 DEF BootstrapToken
  <2> QED BY <2>1, <2>2, <2>3, EntryPresent DEF BootstrapToken
<1>2. \A i \in Ids : i # k => u.bootstrap[i] = s.bootstrap[i] BY StoreTypes
<1>3. u.grants[n] = g /\ g # None BY StoreTypes, EntryPresent
<1>4. \A i \in Ids : i # n => u.grants[i] = s.grants[i] BY StoreTypes
<1>5. \A i \in Ids : s.grants[i] # None =>
        /\ i < n /\ i # n /\ s.grants[i].token < n /\ s.grants[i].token \in Ids
        /\ s.grants[i].token # k
  BY StoreTypes, IdTypes DEF Good, FreshIn, PaidIn
<1>6. FreshIn(u, n + 1)
  BY <1>1, <1>2, <1>3, <1>4, <1>5, IdTypes DEF Good, FreshIn
<1>7. PaidIn(u) BY <1>1, <1>2, <1>3, <1>4, <1>5 DEF Good, PaidIn
<1>8. OneGrantIn(u) BY <1>3, <1>4, <1>5 DEF Good, OneGrantIn
<1>9. \A r \in replies : r.grant \in Ids => u.grants[r.grant] = s.grants[r.grant]
  BY <1>4, AnswerTypes, IdTypes
<1>10. PairedIn(u, replies) BY <1>9, AnswerTypes DEF Good, PairedIn
<1>11. StandsIn(u, replies) BY <1>9, AnswerTypes DEF Good, StandsIn
<1>12. DatedIn(u, replies) BY <1>1, <1>2, AnswerTypes DEF Good, DatedIn
<1>13. KeptIn(u, now, replies, ended)
  <2> SUFFICES ASSUME NEW r \in replies, r.kind # "revoke"
               PROVE  \/ Present(u, r) \/ now >= r.expires \/ IdledAt(u, r, now)
                      \/ Credential(r) \in ended
    BY DEF KeptIn
  <2>1. Present(s, r) \/ now >= r.expires \/ IdledAt(s, r, now) \/ Credential(r) \in ended
    BY DEF Good, KeptIn
  <2>2. Present(s, r) => Present(u, r) \/ Credential(r) \in ended
    BY <1>2, <1>9, AnswerTypes DEF Present, Credential
  <2>3. IdledAt(s, r, now) => IdledAt(u, r, now) BY <1>9, AnswerTypes DEF IdledAt
  <2> QED BY <2>1, <2>2, <2>3
<1> QED BY <1>6, <1>7, <1>8, <1>10, <1>11, <1>12, <1>13 DEF Good

\* A new session, which keeps its grant from idling out.
LEMMA AddSession ==
  ASSUME NEW s \in Store, NEW u \in Store, NEW n \in Ids, NEW now \in Nat,
         NEW replies, Answers(n, replies), NEW ended,
         Good(s, n, now, replies, ended),
         NEW k \in Ids, s.grants[k] # None, ~s.grants[k].revoked,
         NEW v \in Nat, NEW x \in SessionToken,
         u.bootstrap = s.bootstrap,
         u.grants = [s.grants EXCEPT ![k].idle = v],
         u.sessions = [s.sessions EXCEPT ![n] = x]
  PROVE  Good(u, n + 1, now, replies, ended)
<1>1. /\ u.grants[k] # None /\ ~u.grants[k].revoked
      /\ u.grants[k].token = s.grants[k].token
  <2>1. s.grants[k] \in PairingGrant BY StoreTypes
  <2>2. u.grants[k] = [s.grants[k] EXCEPT !.idle = v] BY StoreTypes
  <2>3. u.grants[k] \in PairingGrant BY <2>1, <2>2 DEF PairingGrant
  <2> QED BY <2>1, <2>2, <2>3, EntryPresent DEF PairingGrant
<1>2. \A i \in Ids : i # k => u.grants[i] = s.grants[i] BY StoreTypes
<1>3. u.sessions[n] = x /\ x # None BY StoreTypes, EntryPresent
<1>4. \A i \in Ids : i # n => u.sessions[i] = s.sessions[i] BY StoreTypes
<1>5. FreshIn(u, n + 1)
  <2>1. k < n BY IdTypes DEF Good, FreshIn
  <2> QED BY <2>1, <1>1, <1>2, <1>4, StoreTypes, IdTypes DEF Good, FreshIn
<1>6. PaidIn(u) BY <1>1, <1>2 DEF Good, PaidIn
<1>7. OneGrantIn(u) BY <1>1, <1>2 DEF Good, OneGrantIn
<1>8. \A r \in replies : r.session \in Ids => u.sessions[r.session] = s.sessions[r.session]
  BY <1>4, AnswerTypes, IdTypes
<1>9. PairedIn(u, replies) BY <1>1, <1>2, AnswerTypes DEF Good, PairedIn
<1>10. StandsIn(u, replies) BY <1>1, <1>2, <1>8, AnswerTypes DEF Good, StandsIn
<1>11. DatedIn(u, replies) BY <1>8, AnswerTypes DEF Good, DatedIn
<1>12. KeptIn(u, now, replies, ended)
  <2> SUFFICES ASSUME NEW r \in replies, r.kind # "revoke"
               PROVE  \/ Present(u, r) \/ now >= r.expires \/ IdledAt(u, r, now)
                      \/ Credential(r) \in ended
    BY DEF KeptIn
  <2>1. Present(s, r) \/ now >= r.expires \/ IdledAt(s, r, now) \/ Credential(r) \in ended
    BY DEF Good, KeptIn
  <2>2. Present(s, r) => Present(u, r)
    BY <1>1, <1>2, <1>8, AnswerTypes DEF Present
  <2>3. IdledAt(s, r, now) => IdledAt(u, r, now) \/ Present(u, r)
    BY <1>1, <1>2, AnswerTypes DEF IdledAt, Present
  <2> QED BY <2>1, <2>2, <2>3
<1> QED BY <1>5, <1>6, <1>7, <1>9, <1>10, <1>11, <1>12 DEF Good

\* A grant is revoked on request.
LEMMA EndGrant ==
  ASSUME NEW s \in Store, NEW u \in Store, NEW n \in Nat, NEW now \in Nat,
         NEW replies, Answers(n, replies), NEW ended,
         Good(s, n, now, replies, ended),
         NEW k \in Ids, s.grants[k] # None, k \in ended,
         u.bootstrap = s.bootstrap, u.sessions = s.sessions,
         u.grants = [s.grants EXCEPT ![k].revoked = TRUE]
  PROVE  /\ Good(u, n, now, replies, ended)
         /\ u.grants[k] # None /\ u.grants[k].revoked
<1>1. /\ u.grants[k] # None /\ u.grants[k].revoked
      /\ u.grants[k].token = s.grants[k].token
      /\ u.grants[k].idle = s.grants[k].idle
      /\ u.grants[k].absolute = s.grants[k].absolute
  <2>1. s.grants[k] \in PairingGrant BY StoreTypes
  <2>2. u.grants[k] = [s.grants[k] EXCEPT !.revoked = TRUE] BY StoreTypes
  <2>3. u.grants[k] \in PairingGrant BY <2>1, <2>2 DEF PairingGrant
  <2> QED BY <2>1, <2>2, <2>3, EntryPresent DEF PairingGrant
<1>2. \A i \in Ids : i # k => u.grants[i] = s.grants[i] BY StoreTypes
<1>3. FreshIn(u, n) BY <1>1, <1>2 DEF Good, FreshIn
<1>4. PaidIn(u) BY <1>1, <1>2 DEF Good, PaidIn
<1>5. OneGrantIn(u) BY <1>1, <1>2 DEF Good, OneGrantIn
<1>6. PairedIn(u, replies) BY <1>1, <1>2, AnswerTypes DEF Good, PairedIn
<1>7. StandsIn(u, replies) BY <1>1, <1>2, AnswerTypes DEF Good, StandsIn
<1>8. DatedIn(u, replies) BY DEF Good, DatedIn
<1>9. KeptIn(u, now, replies, ended)
  <2> SUFFICES ASSUME NEW r \in replies, r.kind # "revoke"
               PROVE  \/ Present(u, r) \/ now >= r.expires \/ IdledAt(u, r, now)
                      \/ Credential(r) \in ended
    BY DEF KeptIn
  <2>1. Present(s, r) \/ now >= r.expires \/ IdledAt(s, r, now) \/ Credential(r) \in ended
    BY DEF Good, KeptIn
  <2>2. Present(s, r) => Present(u, r) \/ Credential(r) \in ended
    BY <1>2, AnswerTypes DEF Present, Credential
  <2>3. IdledAt(s, r, now) => IdledAt(u, r, now)
    BY <1>1, <1>2, AnswerTypes DEF IdledAt
  <2> QED BY <2>1, <2>2, <2>3
<1> QED BY <1>1, <1>3, <1>4, <1>5, <1>6, <1>7, <1>8, <1>9 DEF Good

\* A session is revoked on request.
LEMMA EndSession ==
  ASSUME NEW s \in Store, NEW u \in Store, NEW n \in Nat, NEW now \in Nat,
         NEW replies, Answers(n, replies), NEW ended,
         Good(s, n, now, replies, ended),
         NEW k \in Ids, s.sessions[k] # None, k \in ended,
         u.bootstrap = s.bootstrap, u.grants = s.grants,
         u.sessions = [s.sessions EXCEPT ![k].revoked = TRUE]
  PROVE  /\ Good(u, n, now, replies, ended)
         /\ u.sessions[k].revoked
<1>1. /\ u.sessions[k] # None /\ u.sessions[k].revoked
      /\ u.sessions[k].expires = s.sessions[k].expires
  <2>1. s.sessions[k] \in SessionToken BY StoreTypes
  <2>2. u.sessions[k] = [s.sessions[k] EXCEPT !.revoked = TRUE] BY StoreTypes
  <2>3. u.sessions[k] \in SessionToken BY <2>1, <2>2 DEF SessionToken
  <2> QED BY <2>1, <2>2, <2>3, EntryPresent DEF SessionToken
<1>2. \A i \in Ids : i # k => u.sessions[i] = s.sessions[i] BY StoreTypes
<1>3. FreshIn(u, n) BY <1>1, <1>2 DEF Good, FreshIn
<1>4. PaidIn(u) /\ OneGrantIn(u) BY DEF Good, PaidIn, OneGrantIn
<1>5. PairedIn(u, replies) BY DEF Good, PairedIn
<1>6. StandsIn(u, replies) BY <1>1, <1>2, AnswerTypes DEF Good, StandsIn
<1>7. DatedIn(u, replies) BY <1>1, <1>2, AnswerTypes DEF Good, DatedIn
<1>8. KeptIn(u, now, replies, ended)
  <2> SUFFICES ASSUME NEW r \in replies, r.kind # "revoke"
               PROVE  \/ Present(u, r) \/ now >= r.expires \/ IdledAt(u, r, now)
                      \/ Credential(r) \in ended
    BY DEF KeptIn
  <2>1. Present(s, r) \/ now >= r.expires \/ IdledAt(s, r, now) \/ Credential(r) \in ended
    BY DEF Good, KeptIn
  <2>2. Present(s, r) => Present(u, r) \/ Credential(r) \in ended
    BY <1>2, AnswerTypes DEF Present, Credential
  <2>3. IdledAt(s, r, now) => IdledAt(u, r, now) BY DEF IdledAt
  <2> QED BY <2>1, <2>2, <2>3
<1> QED BY <1>1, <1>3, <1>4, <1>5, <1>6, <1>7, <1>8 DEF Good

\* What is spent or expired goes, what has idled out is revoked.
LEMMA CleanUp ==
  ASSUME NEW s \in Store, NEW u \in Store, NEW n \in Nat, NEW now \in Nat,
         NEW replies, Answers(n, replies), NEW ended,
         Good(s, n, now, replies, ended),
         \A i \in Ids :
           /\ u.bootstrap[i] = IF /\ s.bootstrap[i] # None
                                  /\ s.bootstrap[i].used \/ now >= s.bootstrap[i].expires
                               THEN None ELSE s.bootstrap[i]
           /\ u.sessions[i] = IF /\ s.sessions[i] # None
                                 /\ s.sessions[i].revoked \/ now >= s.sessions[i].expires
                              THEN None ELSE s.sessions[i]
           /\ u.grants[i] = IF /\ s.grants[i] # None
                               /\ \/ s.grants[i].revoked \/ now >= s.grants[i].idle
                                  \/ now >= s.grants[i].absolute
                            THEN [s.grants[i] EXCEPT !.revoked = TRUE] ELSE s.grants[i]
  PROVE  Good(u, n, now, replies, ended)
<1>1. \A i \in Ids : s.grants[i] # None =>
        /\ u.grants[i] # None
        /\ u.grants[i].token = s.grants[i].token
        /\ u.grants[i].idle = s.grants[i].idle
        /\ u.grants[i].absolute = s.grants[i].absolute
        /\ s.grants[i].revoked => u.grants[i].revoked
        /\ u.grants[i].revoked => \/ s.grants[i].revoked \/ now >= s.grants[i].idle
                                  \/ now >= s.grants[i].absolute
  <2> SUFFICES ASSUME NEW i \in Ids, s.grants[i] # None,
                      u.grants[i] = [s.grants[i] EXCEPT !.revoked = TRUE]
               PROVE  /\ u.grants[i] # None /\ u.grants[i].revoked
                      /\ u.grants[i].token = s.grants[i].token
                      /\ u.grants[i].idle = s.grants[i].idle
                      /\ u.grants[i].absolute = s.grants[i].absolute
    OBVIOUS
  <2>1. s.grants[i] \in PairingGrant BY StoreTypes
  <2>2. u.grants[i] \in PairingGrant BY <2>1 DEF PairingGrant
  <2> QED BY <2>1, <2>2, EntryPresent DEF PairingGrant
<1>2. \A i \in Ids : s.grants[i] = None => u.grants[i] = None OBVIOUS
<1>3. \A i \in Ids : u.bootstrap[i] # None => u.bootstrap[i] = s.bootstrap[i] OBVIOUS
<1>4. \A i \in Ids : u.sessions[i] # None => u.sessions[i] = s.sessions[i] OBVIOUS
<1>5. FreshIn(u, n) BY <1>1, <1>2, <1>3, <1>4 DEF Good, FreshIn
<1>6. PaidIn(u) BY <1>1, <1>2, <1>3, StoreTypes DEF Good, PaidIn
<1>7. OneGrantIn(u) BY <1>1, <1>2 DEF Good, OneGrantIn
<1>8. PairedIn(u, replies) BY <1>1, AnswerTypes DEF Good, PairedIn
<1>9. StandsIn(u, replies)
  <2> SUFFICES ASSUME NEW r \in replies, r.kind = "revoke"
               PROVE  /\ r.grant # 0 => u.grants[r.grant] # None /\ u.grants[r.grant].revoked
                      /\ r.session # 0 => \/ u.sessions[r.session] = None
                                          \/ u.sessions[r.session].revoked
    BY DEF StandsIn
  <2>1. /\ r.grant # 0 => s.grants[r.grant] # None /\ s.grants[r.grant].revoked
        /\ r.session # 0 => s.sessions[r.session] = None \/ s.sessions[r.session].revoked
    BY DEF Good, StandsIn
  <2> QED BY <1>1, <1>4, <2>1, AnswerTypes
<1>10. DatedIn(u, replies) BY <1>3, <1>4, AnswerTypes DEF Good, DatedIn
<1>11. KeptIn(u, now, replies, ended)
  <2> SUFFICES ASSUME NEW r \in replies, r.kind # "revoke"
               PROVE  \/ Present(u, r) \/ now >= r.expires \/ IdledAt(u, r, now)
                      \/ Credential(r) \in ended
    BY DEF KeptIn
  <2>1. Present(s, r) \/ now >= r.expires \/ IdledAt(s, r, now) \/ Credential(r) \in ended
    BY DEF Good, KeptIn
  <2>2. IdledAt(s, r, now) => IdledAt(u, r, now) BY <1>1, AnswerTypes DEF IdledAt
  <2>3. CASE r.kind = "bootstrap"
    <3>1. Present(s, r) => Present(u, r) \/ now >= r.expires
      BY <2>3, AnswerTypes DEF Present, Good, DatedIn
    <3> QED BY <2>1, <2>2, <3>1
  <2>4. CASE r.kind = "pair"
    <3>1. Present(s, r) => Present(u, r) \/ IdledAt(u, r, now)
      BY <1>1, <2>4, AnswerTypes DEF Present, IdledAt
    <3> QED BY <2>1, <2>2, <3>1
  <2>5. CASE r.kind = "mint"
    <3>1. Present(s, r) => Present(u, r) \/ now >= r.expires
      BY <2>5, AnswerTypes DEF Present, Good, DatedIn
    <3> QED BY <2>1, <2>2, <3>1
  <2> QED BY <2>3, <2>4, <2>5, AnswerTypes
<1> QED BY <1>5, <1>6, <1>7, <1>8, <1>9, <1>10, <1>11 DEF Good

\* A call is answered when the store holds what the answer says.
LEMMA Answered ==
  ASSUME NEW s \in Store, NEW n \in Nat, NEW now \in Nat,
         NEW replies, Answers(n, replies), NEW ended,
         Good(s, n, now, replies, ended),
         NEW c \in Call, Done(c, s), c.kind # "cleanup",
         c.token < n, c.grant < n, c.session < n,
         NEW r \in Reply,
         r.kind = c.kind, r.token = c.token, r.grant = c.grant, r.session = c.session,
         c.kind = "bootstrap" => r.expires = s.bootstrap[c.token].expires,
         c.kind = "mint" => r.expires = s.sessions[c.session].expires
  PROVE  /\ Good(s, n, now, replies \cup {r}, ended)
         /\ Answers(n, replies \cup {r})
<1>1. Answers(n, replies \cup {r})
  <2>1. replies \cup {r} \subseteq Reply BY DEF Answers
  <2>2. /\ r.token < n /\ r.grant < n /\ r.session < n
        /\ r.kind # "cleanup"
        /\ r.kind = "bootstrap" => r.token \in Ids
        /\ r.kind = "pair" => r.token \in Ids /\ r.grant \in Ids
        /\ r.kind = "mint" => r.session \in Ids
    BY DEF Done
  <2> QED BY <2>1, <2>2 DEF Answers
<1>2. PairedIn(s, replies \cup {r}) BY DEF Good, PairedIn, Done
<1>3. StandsIn(s, replies \cup {r}) BY DEF Good, StandsIn, Done
<1>4. DatedIn(s, replies \cup {r}) BY DEF Good, DatedIn
<1>5. KeptIn(s, now, replies \cup {r}, ended)
  <2>1. r.kind # "revoke" => Present(s, r)
    BY DEF Done, Present, Call, Kinds
  <2> QED BY <2>1 DEF Good, KeptIn
<1> QED BY <1>1, <1>2, <1>3, <1>4, <1>5 DEF Good

------------------------------------------------------------------------------
(* Steps that take, keep and release the lock *)

\* No process is the absence of one.
LEMMA ProcNames == NoProc \notin Procs
BY AuthAssumption DEF Procs

\* One entry of a part of a store changes.
LEMMA EntryUpdate ==
  ASSUME NEW S, NEW T, NEW f \in [S -> T], NEW i \in S, NEW v \in T
  PROVE  [f EXCEPT ![i] = v] \in [S -> T] /\ [f EXCEPT ![i] = v][i] = v
OBVIOUS

\* The invariant holds at the start.
LEMMA AuthInit == Init => AuthInv
<1> SUFFICES ASSUME Init PROVE AuthInv OBVIOUS
<1> USE DEF Init
<1>1. EmptyStore \in Store BY DEF EmptyStore, Store
<1>2. NoCheck \in [session: Ids \cup {0}, grant: Ids \cup {0}, late: BOOLEAN]
  BY DEF NoCheck
<1>3. TypeOK
  <2>1. pc \in [Procs -> Steps] BY DEF Steps
  <2>2. op \in [Procs -> Call \cup {NoCall}] OBVIOUS
  <2>3. check \in [Checkers -> [session: Ids \cup {0}, grant: Ids \cup {0}, late: BOOLEAN]]
    BY <1>2
  <2>4. /\ admitted \subseteq [session: Ids, grant: Ids, late: BOOLEAN]
        /\ acked \subseteq Reply /\ asked \subseteq Ids
    OBVIOUS
  <2>5. {nextId, clock, faults, crashes} \subseteq Nat OBVIOUS
  <2>6. auth \in Store /\ authDisk \in Store BY <1>1
  <2>7. /\ durabilityClosed \in BOOLEAN /\ lock \in Procs \cup {NoProc}
        /\ snapshot \in Store \cup {None}
    OBVIOUS
  <2> QED BY <2>1, <2>2, <2>3, <2>4, <2>5, <2>6, <2>7 DEF TypeOK
<1>4. ControlInv BY ProcNames DEF ControlInv
<1>5. GateInv BY DEF GateInv
<1>6. Good(EmptyStore, 1, 0, {}, {})
  <2>1. \A i \in Ids : /\ EmptyStore.bootstrap[i] = None
                       /\ EmptyStore.grants[i] = None /\ EmptyStore.sessions[i] = None
    BY DEF EmptyStore
  <2> QED BY <2>1 DEF Good, FreshIn, PaidIn, OneGrantIn, PairedIn, StandsIn, DatedIn, KeptIn
<1>7. StoresInv BY <1>6 DEF StoresInv
<1>8. CheckInv BY DEF CheckInv, AdmittedNotRevoked
<1>9. Answers(nextId, acked) BY DEF Answers
<1> QED BY <1>3, <1>4, <1>5, <1>7, <1>8, <1>9 DEF AuthInv

\* Replies that were sent stay sent: a late check keeps its reason.
LEMMA ChecksStill ==
  ASSUME CheckInv, acked \subseteq acked', UNCHANGED checks
  PROVE  CheckInv'
BY DEF CheckInv, AdmittedNotRevoked, checks

\* A process takes the lock, changes the store and goes on to persist it, or to
\* the second half of a revocation.
LEMMA ChangeStep ==
  ASSUME AuthInv, NEW p \in Procs,
         lock = NoProc, lock' = p, snapshot' = auth, auth' \in Store,
         op' \in [Procs -> Call \cup {NoCall}], pc' \in [Procs -> Steps],
         \A q \in Procs : q # p => op'[q] = op[q] /\ pc'[q] = pc[q],
         pc'[p] \in {"persist", "revokeSession"}, op'[p] \in Call,
         UNCHANGED <<authDisk, durabilityClosed, checks, history, clock, faults, crashes>>,
         nextId' \in Nat, nextId <= nextId',
         Good(auth', nextId', clock, acked, asked),
         op'[p].token < nextId', op'[p].grant < nextId', op'[p].session < nextId',
         Ends(op'[p]) \subseteq asked,
         pc'[p] = "persist" => Done(op'[p], auth'),
         pc'[p] = "revokeSession" => HalfDone(op'[p], auth')
  PROVE  AuthInv'
<1> USE DEF AuthInv
<1>1. TypeOK' BY DEF TypeOK, checks, history
<1>2. \A q \in Procs : pc[q] \in {"idle", "waiting"}
  BY ProcNames DEF ControlInv, TypeOK
<1>3. ControlInv'
  <2>1. snapshot' \in Store BY DEF TypeOK
  <2>2. ASSUME NEW q \in Procs, q # p
        PROVE  /\ lock' = q <=> pc'[q] \notin {"idle", "waiting"}
               /\ pc'[q] # "idle" => /\ op'[q] \in Call /\ Ends(op'[q]) \subseteq asked'
                                     /\ op'[q].token < nextId' /\ op'[q].grant < nextId'
                                     /\ op'[q].session < nextId'
               /\ pc'[q] = "waiting" => op'[q] \in Waiting
    <3>1. pc'[q] = pc[q] /\ op'[q] = op[q] BY <2>2
    <3>2. pc[q] # "idle" => /\ op[q] \in Call /\ Ends(op[q]) \subseteq asked
                            /\ op[q].token < nextId /\ op[q].grant < nextId
                            /\ op[q].session < nextId
      BY DEF ControlInv
    <3>3. pc[q] # "idle" => /\ op[q].token \in Nat /\ op[q].grant \in Nat
                            /\ op[q].session \in Nat
      BY <3>2, IdTypes DEF Call
    <3>4. nextId \in Nat BY DEF TypeOK
    <3> QED BY <1>2, <2>2, <3>1, <3>2, <3>3, <3>4 DEF ControlInv, history
  <2>3. \A q \in Procs : q # p => pc'[q] \in {"idle", "waiting"} BY <1>2
  <2> QED BY <2>1, <2>2, <2>3 DEF ControlInv, history
<1>4. GateInv'
  <2>1. \A q \in Procs : q # p => pc'[q] \in {"idle", "waiting"} BY <1>2
  <2>2. ~durabilityClosed => authDisk = auth BY DEF GateInv
  <2> QED BY <2>1, <2>2, ProcNames DEF GateInv
<1>5. StoresInv'
  <2>1. /\ Good(authDisk, nextId', clock, acked, asked)
        /\ Good(auth, nextId', clock, acked, asked)
    <3>1. /\ authDisk \in Store /\ auth \in Store /\ clock \in Nat /\ nextId \in Nat
      BY DEF TypeOK
    <3> QED BY <3>1, GoodStill DEF StoresInv
  <2> QED BY <2>1 DEF StoresInv, history
<1>6. CheckInv' BY ChecksStill DEF history
<1>7. Answers(nextId', acked')
  <2>1. nextId \in Nat BY DEF TypeOK
  <2>2. \A r \in acked : r.token \in Nat /\ r.grant \in Nat /\ r.session \in Nat
    BY IdTypes, AnswerTypes
  <2> QED BY <2>1, <2>2 DEF Answers, history
<1> QED BY <1>1, <1>3, <1>4, <1>5, <1>6, <1>7, nextId \in Nat DEF TypeOK

\* A call ends, with or without an answer, and leaves file and memory the same
\* behind an open gate.
LEMMA FinishStep ==
  ASSUME AuthInv, NEW p \in Procs, Finish(p), lock \in {NoProc, p},
         UNCHANGED <<checks, asked, nextId, clock, crashes>>,
         auth' \in Store, authDisk' \in Store,
         durabilityClosed' \in BOOLEAN, faults' \in Nat,
         acked \subseteq acked', Answers(nextId, acked'),
         Good(auth', nextId, clock, acked', asked),
         Good(authDisk', nextId, clock, acked', asked),
         ~durabilityClosed' => authDisk' = auth'
  PROVE  AuthInv'
<1> USE DEF AuthInv, Finish
<1>1. TypeOK' BY DEF TypeOK, Steps, checks, Answers
<1>2. \A q \in Procs : q # p => pc[q] \in {"idle", "waiting"}
  BY ProcNames DEF ControlInv, TypeOK
<1>3. /\ pc'[p] = "idle"
      /\ \A q \in Procs : q # p => pc'[q] = pc[q] /\ op'[q] = op[q]
  BY DEF TypeOK
<1>4. \A q \in Procs : pc'[q] \in {"idle", "waiting"} BY <1>2, <1>3
<1>5. ControlInv' BY <1>3, <1>4, ProcNames DEF ControlInv
<1>6. GateInv' BY <1>4 DEF GateInv
<1>7. StoresInv' BY DEF StoresInv
<1>8. CheckInv' BY ChecksStill
<1> QED BY <1>1, <1>5, <1>6, <1>7, <1>8

\* The holder of the lock takes a step and keeps it.
LEMMA HolderStep ==
  ASSUME AuthInv, NEW p \in Procs, lock = p,
         pc' \in [Procs -> Steps], \A q \in Procs : q # p => pc'[q] = pc[q],
         pc'[p] \in {"persist", "audit", "restore", "repersist"},
         UNCHANGED <<lock, op, snapshot, checks, history, nextId, clock, crashes>>,
         auth' \in Store, authDisk' \in Store,
         durabilityClosed' \in BOOLEAN, faults' \in Nat,
         Good(auth', nextId, clock, acked, asked),
         Good(authDisk', nextId, clock, acked, asked),
         pc'[p] \in {"persist", "audit"} => Done(op[p], auth'),
         pc'[p] = "persist" /\ ~durabilityClosed' => authDisk' = snapshot,
         pc'[p] = "audit" => authDisk' = auth',
         pc'[p] \in {"restore", "repersist"} => durabilityClosed'
  PROVE  AuthInv'
<1> USE DEF AuthInv
<1>1. TypeOK' BY DEF TypeOK, checks, history
<1>2. \A q \in Procs : q # p => pc[q] \in {"idle", "waiting"}
  BY DEF ControlInv
<1>3. \A q \in Procs : q # p => pc'[q] \in {"idle", "waiting"} BY <1>2
<1>4. ControlInv'
  <2>1. pc[p] # "idle" BY DEF ControlInv
  <2> QED BY <1>3, <2>1 DEF ControlInv, history
<1>5. GateInv' BY <1>3, ProcNames DEF GateInv
<1>6. StoresInv' BY DEF StoresInv, history
<1>7. CheckInv' BY ChecksStill DEF history
<1>8. Answers(nextId', acked') BY DEF history
<1> QED BY <1>1, <1>4, <1>5, <1>6, <1>7, <1>8

------------------------------------------------------------------------------
(* The mutations *)

\* A waiting call has the shape of its kind.
LEMMA CallShapes ==
  ASSUME AuthInv, NEW p \in Procs, pc[p] = "waiting"
  PROVE  /\ op[p] \in Call
         /\ op[p].token < nextId /\ op[p].grant < nextId /\ op[p].session < nextId
         /\ Ends(op[p]) \subseteq asked
         /\ op[p].kind = "bootstrap" => op[p] \in BootstrapCalls
         /\ op[p].kind = "pair" => op[p] \in PairCalls
         /\ op[p].kind = "mint" => op[p] \in MintCalls
         /\ op[p].kind = "revoke" => op[p] \in RevokeCalls
         /\ op[p].kind = "cleanup" => op[p] \in CleanupCalls
<1>1. /\ op[p] \in Call
      /\ op[p].token < nextId /\ op[p].grant < nextId /\ op[p].session < nextId
      /\ Ends(op[p]) \subseteq asked /\ op[p] \in Waiting
  BY DEF AuthInv, ControlInv
<1> QED
  BY <1>1 DEF Waiting, BootstrapCalls, PairCalls, MintCalls, RevokeCalls, CleanupCalls

\* The ids, the stores and the times of a state.
LEMMA AuthTypes ==
  ASSUME AuthInv
  PROVE  /\ auth \in Store /\ authDisk \in Store
         /\ nextId \in Nat /\ clock \in Nat /\ nextId >= 1
         /\ op \in [Procs -> Call \cup {NoCall}] /\ pc \in [Procs -> Steps]
         /\ nextId <= MaxIds => nextId \in Ids
         /\ Good(auth, nextId, clock, acked, asked)
         /\ Good(authDisk, nextId, clock, acked, asked)
         /\ Answers(nextId, acked)
BY AuthAssumption DEF AuthInv, TypeOK, StoresInv, Ids

\* A bootstrap token is created.
LEMMA CreateBootstrapStep ==
  ASSUME AuthInv, NEW h \in Procs, CreateBootstrap(h)
  PROVE  AuthInv'
<1> USE AuthTypes, IdTypes
<1> DEFINE t == [expires |-> clock + BootstrapTtl, used |-> FALSE]
<1>1. /\ lock = NoProc /\ nextId \in Ids /\ op[h] \in BootstrapCalls
      /\ op[h].grant < nextId /\ op[h].session < nextId
  BY CallShapes DEF CreateBootstrap, Locks
<1>2. t \in BootstrapToken BY AuthAssumption DEF BootstrapToken
<1> HIDE DEF t
<1>3. auth' = [auth EXCEPT !.bootstrap[nextId] = t]
  BY DEF CreateBootstrap, Change, t
<1>4. /\ auth' \in Store
      /\ auth'.bootstrap = [auth.bootstrap EXCEPT ![nextId] = t]
      /\ auth'.grants = auth.grants /\ auth'.sessions = auth.sessions
  BY <1>1, <1>2, <1>3 DEF Store
<1>5. Good(auth', nextId', clock, acked, asked)
  BY <1>1, <1>2, <1>4, AddToken DEF CreateBootstrap
<1>6. /\ op'[h] \in Call /\ op'[h].kind = "bootstrap" /\ op'[h].token = nextId
      /\ op'[h].grant = op[h].grant /\ op'[h].session = op[h].session
  <2>1. op'[h] = [op[h] EXCEPT !.token = nextId] BY DEF CreateBootstrap, Change
  <2> QED BY <1>1, <2>1 DEF BootstrapCalls, Call, Kinds
<1>7. Done(op'[h], auth')
  <2>1. auth'.bootstrap[nextId] = t BY <1>1, <1>4, StoreTypes
  <2>2. t # None /\ ~t.used BY <1>2, EntryPresent DEF t
  <2> QED BY <1>1, <1>6, <2>1, <2>2 DEF Done
<1>8. Ends(op'[h]) \subseteq asked BY <1>6 DEF Ends
<1>9. /\ op' \in [Procs -> Call \cup {NoCall}]
      /\ \A q \in Procs : q # h => op'[q] = op[q] /\ pc'[q] = pc[q]
      /\ pc' \in [Procs -> Steps] /\ pc'[h] = "persist"
  BY <1>6 DEF CreateBootstrap, Change, Steps
<1>10. /\ nextId' \in Nat /\ nextId <= nextId'
       /\ op'[h].token < nextId' /\ op'[h].grant < nextId' /\ op'[h].session < nextId'
  <2>1. nextId' = nextId + 1 BY DEF CreateBootstrap
  <2>2. op[h].grant \in Nat /\ op[h].session \in Nat
    BY <1>1 DEF BootstrapCalls
  <2> QED BY <1>1, <1>6, <2>1, <2>2
<1>11. /\ lock' = h /\ snapshot' = auth
       /\ UNCHANGED <<authDisk, durabilityClosed, checks, history, clock, faults, crashes>>
  BY DEF CreateBootstrap, Change
<1> QED
  BY <1>1, <1>4, <1>5, <1>6, <1>7, <1>8, <1>9, <1>10, <1>11, ChangeStep

\* A token is spent on a grant.
LEMMA CompletePairingStep ==
  ASSUME AuthInv, NEW h \in Procs, CompletePairing(h)
  PROVE  AuthInv'
<1> USE AuthTypes, IdTypes
<1> DEFINE k == op[h].token
           g == [token |-> k, idle |-> clock + IdleTtl,
                 absolute |-> clock + AbsoluteTtl, revoked |-> FALSE]
<1>1. /\ lock = NoProc /\ nextId \in Ids /\ op[h] \in PairCalls
      /\ k \in Ids /\ k < nextId /\ k \in asked /\ op[h].session < nextId
  <2>1. lock = NoProc /\ pc[h] = "waiting" /\ op[h].kind = "pair" /\ nextId \in Ids
    BY DEF CompletePairing, Locks
  <2>2. op[h] \in PairCalls BY <2>1, CallShapes
  <2> QED BY <2>1, <2>2, CallShapes DEF PairCalls, Ends
<1>2. auth.bootstrap[k] # None /\ ~auth.bootstrap[k].used
  BY DEF CompletePairing, Consumable
<1>3. g \in PairingGrant /\ g.token = k /\ ~g.revoked
  BY <1>1, AuthAssumption DEF PairingGrant
<1>4. auth' = [auth EXCEPT !.bootstrap[k].used = TRUE, !.grants[nextId] = g]
  BY DEF CompletePairing, Change
<1> HIDE DEF g
<1>5. /\ auth' \in Store
      /\ auth'.bootstrap = [auth.bootstrap EXCEPT ![k].used = TRUE]
      /\ auth'.grants = [auth.grants EXCEPT ![nextId] = g]
      /\ auth'.sessions = auth.sessions
  <2>1. /\ auth'.bootstrap = [auth.bootstrap EXCEPT ![k].used = TRUE]
        /\ auth'.grants = [auth.grants EXCEPT ![nextId] = g]
        /\ auth'.sessions = auth.sessions
        /\ auth' = [bootstrap |-> auth'.bootstrap, grants |-> auth'.grants,
                    sessions |-> auth'.sessions]
    BY <1>4 DEF Store
  <2>2. [auth.bootstrap[k] EXCEPT !.used = TRUE] \in BootstrapToken
    <3>1. auth.bootstrap[k] \in BootstrapToken BY <1>1, <1>2, StoreTypes
    <3> QED BY <3>1 DEF BootstrapToken
  <2>3. auth'.bootstrap \in [Ids -> BootstrapToken \cup {None}]
    BY <1>1, <2>1, <2>2, StoreTypes, EntryUpdate
  <2>4. auth'.grants \in [Ids -> PairingGrant \cup {None}]
    BY <1>1, <1>3, <2>1, StoreTypes, EntryUpdate
  <2>5. auth'.sessions \in [Ids -> SessionToken \cup {None}] BY <2>1, StoreTypes
  <2> QED BY <2>1, <2>3, <2>4, <2>5 DEF Store
<1>6. Good(auth', nextId', clock, acked, asked)
  BY <1>1, <1>2, <1>3, <1>5, AddGrant DEF CompletePairing
<1>7. /\ op'[h] \in Call /\ op'[h].kind = "pair" /\ op'[h].token = k
      /\ op'[h].grant = nextId /\ op'[h].session = op[h].session
  <2>1. op'[h] = [op[h] EXCEPT !.grant = nextId] BY DEF CompletePairing, Change
  <2> QED BY <1>1, <2>1 DEF PairCalls, Call, Kinds
<1>8. Done(op'[h], auth')
  <2>1. auth'.grants[nextId] = g BY <1>1, <1>5, StoreTypes
  <2>2. g # None BY <1>3, EntryPresent
  <2> QED BY <1>1, <1>3, <1>7, <2>1, <2>2 DEF Done
<1>9. Ends(op'[h]) \subseteq asked BY <1>1, <1>7 DEF Ends
<1>10. /\ op' \in [Procs -> Call \cup {NoCall}]
       /\ \A q \in Procs : q # h => op'[q] = op[q] /\ pc'[q] = pc[q]
      /\ pc' \in [Procs -> Steps] /\ pc'[h] = "persist"
  BY <1>7 DEF CompletePairing, Change, Steps
<1>11. /\ nextId' \in Nat /\ nextId <= nextId'
       /\ op'[h].token < nextId' /\ op'[h].grant < nextId' /\ op'[h].session < nextId'
  <2>1. nextId' = nextId + 1 BY DEF CompletePairing
  <2>2. k \in Nat /\ op[h].session \in Nat
    BY <1>1 DEF PairCalls
  <2> QED BY <1>1, <1>7, <2>1, <2>2
<1>12. /\ lock' = h /\ snapshot' = auth
       /\ UNCHANGED <<authDisk, durabilityClosed, checks, history, clock, faults, crashes>>
  BY DEF CompletePairing, Change
<1> QED
  BY <1>1, <1>5, <1>6, <1>7, <1>8, <1>9, <1>10, <1>11, <1>12, ChangeStep

\* A session is minted for a grant.
LEMMA MintSessionStep ==
  ASSUME AuthInv, NEW h \in Procs, MintSession(h)
  PROVE  AuthInv'
<1> USE AuthTypes, IdTypes
<1> DEFINE k == op[h].grant
           v == clock + IdleTtl
           x == [grant |-> k, expires |-> clock + SessionTtl, revoked |-> FALSE]
<1>1. /\ lock = NoProc /\ nextId \in Ids /\ op[h] \in MintCalls /\ k \in Ids
      /\ op[h].token < nextId /\ op[h].grant < nextId
  <2>1. lock = NoProc /\ pc[h] = "waiting" /\ op[h].kind = "mint" /\ nextId \in Ids
    BY DEF MintSession, Locks
  <2>2. op[h] \in MintCalls BY <2>1, CallShapes
  <2> QED BY <2>1, <2>2, CallShapes DEF MintCalls
<1>2. auth.grants[k] # None /\ ~auth.grants[k].revoked
  BY DEF MintSession, Mintable, Inactive
<1>3. x \in SessionToken /\ ~x.revoked /\ v \in Nat
  BY <1>1, AuthAssumption DEF SessionToken
<1>4. auth' = [auth EXCEPT !.grants[k].idle = v, !.sessions[nextId] = x]
  BY DEF MintSession, Change
<1> HIDE DEF x, v
<1>5. /\ auth' \in Store
      /\ auth'.bootstrap = auth.bootstrap
      /\ auth'.grants = [auth.grants EXCEPT ![k].idle = v]
      /\ auth'.sessions = [auth.sessions EXCEPT ![nextId] = x]
  <2>1. /\ auth'.bootstrap = auth.bootstrap
        /\ auth'.grants = [auth.grants EXCEPT ![k].idle = v]
        /\ auth'.sessions = [auth.sessions EXCEPT ![nextId] = x]
        /\ auth' = [bootstrap |-> auth'.bootstrap, grants |-> auth'.grants,
                    sessions |-> auth'.sessions]
    BY <1>4 DEF Store
  <2>2. [auth.grants[k] EXCEPT !.idle = v] \in PairingGrant
    <3>1. auth.grants[k] \in PairingGrant BY <1>1, <1>2, StoreTypes
    <3> QED BY <1>3, <3>1 DEF PairingGrant
  <2>3. auth'.grants \in [Ids -> PairingGrant \cup {None}]
    BY <1>1, <2>1, <2>2, StoreTypes, EntryUpdate
  <2>4. auth'.sessions \in [Ids -> SessionToken \cup {None}]
    BY <1>1, <1>3, <2>1, StoreTypes, EntryUpdate
  <2>5. auth'.bootstrap \in [Ids -> BootstrapToken \cup {None}] BY <2>1, StoreTypes
  <2> QED BY <2>1, <2>3, <2>4, <2>5 DEF Store
<1>6. Good(auth', nextId', clock, acked, asked)
  BY <1>1, <1>2, <1>3, <1>5, AddSession DEF MintSession
<1>7. /\ op'[h] \in Call /\ op'[h].kind = "mint" /\ op'[h].token = op[h].token
      /\ op'[h].grant = k /\ op'[h].session = nextId
  <2>1. op'[h] = [op[h] EXCEPT !.session = nextId] BY DEF MintSession, Change
  <2> QED BY <1>1, <2>1 DEF MintCalls, Call, Kinds
<1>8. Done(op'[h], auth')
  <2>1. auth'.sessions[nextId] = x BY <1>1, <1>5, StoreTypes
  <2>2. x # None BY <1>3, EntryPresent
  <2> QED BY <1>1, <1>3, <1>7, <2>1, <2>2 DEF Done
<1>9. Ends(op'[h]) \subseteq asked BY <1>7 DEF Ends
<1>10. /\ op' \in [Procs -> Call \cup {NoCall}]
       /\ \A q \in Procs : q # h => op'[q] = op[q] /\ pc'[q] = pc[q]
       /\ pc' \in [Procs -> Steps] /\ pc'[h] = "persist"
  BY <1>7 DEF MintSession, Change, Steps
<1>11. /\ nextId' \in Nat /\ nextId <= nextId'
       /\ op'[h].token < nextId' /\ op'[h].grant < nextId' /\ op'[h].session < nextId'
  <2>1. nextId' = nextId + 1 BY DEF MintSession
  <2>2. op[h].token \in Nat /\ k \in Nat BY <1>1 DEF MintCalls
  <2> QED BY <1>1, <1>7, <2>1, <2>2
<1>12. /\ lock' = h /\ snapshot' = auth
       /\ UNCHANGED <<authDisk, durabilityClosed, checks, history, clock, faults, crashes>>
  BY DEF MintSession, Change
<1> QED
  BY <1>1, <1>5, <1>6, <1>7, <1>8, <1>9, <1>10, <1>11, <1>12, ChangeStep

\* A revocation takes its grant, and is done or goes on to its session.
LEMMA RevokeGrantStep ==
  ASSUME AuthInv, NEW h \in Procs, RevokeGrant(h)
  PROVE  AuthInv'
<1> DEFINE k == op[h].grant
<1>0. /\ auth \in Store /\ nextId \in Nat /\ clock \in Nat
      /\ Answers(nextId, acked) /\ Good(auth, nextId, clock, acked, asked)
  BY AuthTypes
<1>t. op \in [Procs -> Call \cup {NoCall}] /\ pc \in [Procs -> Steps]
  BY AuthTypes
<1>1. /\ lock = NoProc /\ op[h] \in RevokeCalls /\ op[h] \in Call /\ k \in Ids
      /\ Ends(op[h]) \subseteq asked /\ k \in asked
      /\ op[h].token < nextId /\ op[h].grant < nextId /\ op[h].session < nextId
  <2>1. lock = NoProc /\ pc[h] = "waiting" /\ op[h].kind = "revoke" /\ k # 0
    BY <1>0 DEF RevokeGrant, Locks
  <2>2. op[h] \in RevokeCalls BY <2>1, CallShapes
  <2>3. k \in Ends(op[h]) BY <2>1 DEF Ends
  <2> QED BY <2>1, <2>2, <2>3, CallShapes DEF RevokeCalls
<1>2. auth.grants[k] # None
  BY <1>0 DEF RevokeGrant, Known
<1>3. auth' = [auth EXCEPT !.grants[k].revoked = TRUE]
  BY <1>0 DEF RevokeGrant, Change
<1> HIDE DEF k
<1>4. /\ auth' \in Store
      /\ auth'.bootstrap = auth.bootstrap /\ auth'.sessions = auth.sessions
      /\ auth'.grants = [auth.grants EXCEPT ![k].revoked = TRUE]
  <2>1. /\ auth'.bootstrap = auth.bootstrap /\ auth'.sessions = auth.sessions
        /\ auth'.grants = [auth.grants EXCEPT ![k].revoked = TRUE]
        /\ auth' = [bootstrap |-> auth'.bootstrap, grants |-> auth'.grants,
                    sessions |-> auth'.sessions]
    BY <1>0, <1>3 DEF Store
  <2>2. [auth.grants[k] EXCEPT !.revoked = TRUE] \in PairingGrant
    <3>1. auth.grants[k] \in PairingGrant BY <1>0, <1>1, <1>2, StoreTypes
    <3> QED BY <3>1 DEF PairingGrant
  <2>3. auth'.grants \in [Ids -> PairingGrant \cup {None}]
    BY <1>0, <1>1, <2>1, <2>2, StoreTypes, EntryUpdate
  <2>4. /\ auth'.bootstrap \in [Ids -> BootstrapToken \cup {None}]
        /\ auth'.sessions \in [Ids -> SessionToken \cup {None}]
    BY <1>0, <2>1, StoreTypes
  <2> QED BY <2>1, <2>3, <2>4 DEF Store
<1>5. /\ nextId' = nextId /\ lock' = h /\ snapshot' = auth
      /\ UNCHANGED <<authDisk, durabilityClosed, checks, history, clock, faults, crashes>>
  BY <1>0 DEF RevokeGrant, Change
<1>6. /\ Good(auth', nextId, clock, acked, asked)
      /\ auth'.grants[k] # None /\ auth'.grants[k].revoked
  BY <1>0, <1>1, <1>2, <1>4, EndGrant
<1>7. /\ op' \in [Procs -> Call \cup {NoCall}] /\ op'[h] = op[h]
      /\ \A q \in Procs : q # h => op'[q] = op[q] /\ pc'[q] = pc[q]
      /\ pc' \in [Procs -> Steps]
      /\ pc'[h] = IF op[h].session = 0 THEN "persist" ELSE "revokeSession"
  BY <1>t DEF RevokeGrant, Change, Steps
<1>8. op[h].kind = "revoke" BY <1>0, <1>1 DEF RevokeCalls
<1>9. pc'[h] = "persist" => Done(op'[h], auth')
  BY <1>6, <1>7, <1>8 DEF Done, k
<1>10. pc'[h] = "revokeSession" => HalfDone(op'[h], auth')
  <2>1. op[h].session \in Ids \cup {0} BY <1>0, <1>1 DEF RevokeCalls
  <2> QED BY <1>1, <1>6, <1>7, <1>8, <2>1 DEF HalfDone, k
<1>11. /\ nextId' \in Nat /\ nextId <= nextId'
       /\ op'[h].token < nextId' /\ op'[h].grant < nextId' /\ op'[h].session < nextId'
  BY <1>0, <1>1, <1>5, <1>7
<1> QED
  BY <1>0, <1>1, <1>4, <1>5, <1>6, <1>7, <1>9, <1>10, <1>11, ChangeStep

\* A session of a store is revoked.
LEMMA SessionEnded ==
  ASSUME NEW s \in Store, NEW k \in Ids, s.sessions[k] # None
  PROVE  LET u == [s EXCEPT !.sessions[k].revoked = TRUE] IN
         /\ u \in Store
         /\ u.bootstrap = s.bootstrap /\ u.grants = s.grants
         /\ u.sessions = [s.sessions EXCEPT ![k].revoked = TRUE]
<1> DEFINE u == [s EXCEPT !.sessions[k].revoked = TRUE]
<1>0. u = [s EXCEPT !.sessions[k].revoked = TRUE] OBVIOUS
<1> HIDE DEF u
<1>1. /\ u.bootstrap = s.bootstrap /\ u.grants = s.grants
      /\ u.sessions = [s.sessions EXCEPT ![k].revoked = TRUE]
      /\ u = [bootstrap |-> u.bootstrap, grants |-> u.grants, sessions |-> u.sessions]
  BY <1>0 DEF Store
<1>2. [s.sessions[k] EXCEPT !.revoked = TRUE] \in SessionToken
  <2>1. s.sessions[k] \in SessionToken BY StoreTypes
  <2> QED BY <2>1 DEF SessionToken
<1>3. u.sessions \in [Ids -> SessionToken \cup {None}]
  <2>1. u.sessions = [s.sessions EXCEPT ![k] = [s.sessions[k] EXCEPT !.revoked = TRUE]]
    BY <1>1
  <2>2. s.sessions \in [Ids -> SessionToken \cup {None}] BY StoreTypes
  <2> QED BY <1>2, <2>1, <2>2
<1>4. /\ u.bootstrap \in [Ids -> BootstrapToken \cup {None}]
      /\ u.grants \in [Ids -> PairingGrant \cup {None}]
  BY <1>1, StoreTypes
<1>5. u \in Store BY <1>1, <1>3, <1>4 DEF Store
<1> QED BY <1>1, <1>5 DEF u

\* A revocation takes its session.
LEMMA RevokeSessionOnlyStep ==
  ASSUME AuthInv, NEW h \in Procs, RevokeSessionOnly(h)
  PROVE  AuthInv'
<1> DEFINE k == op[h].session
<1>0. /\ auth \in Store /\ nextId \in Nat /\ clock \in Nat
      /\ Answers(nextId, acked) /\ Good(auth, nextId, clock, acked, asked)
  BY AuthTypes
<1>t. op \in [Procs -> Call \cup {NoCall}] /\ pc \in [Procs -> Steps]
  BY AuthTypes
<1>1. /\ lock = NoProc /\ op[h] \in RevokeCalls /\ op[h] \in Call /\ k \in Ids
      /\ Ends(op[h]) \subseteq asked /\ k \in asked /\ op[h].grant = 0
      /\ op[h].token < nextId /\ op[h].grant < nextId /\ op[h].session < nextId
  <2>1. /\ lock = NoProc /\ pc[h] = "waiting" /\ op[h].kind = "revoke" /\ k # 0
        /\ op[h].grant = 0
    BY <1>0 DEF RevokeSessionOnly, Locks, Known
  <2>2. op[h] \in RevokeCalls BY <2>1, CallShapes
  <2>3. k \in Ends(op[h]) BY <2>1 DEF Ends
  <2> QED BY <2>1, <2>2, <2>3, CallShapes DEF RevokeCalls
<1>2. auth.sessions[k] # None
  BY <1>0, <1>1 DEF RevokeSessionOnly, Known
<1>3. auth' = [auth EXCEPT !.sessions[k].revoked = TRUE]
  BY <1>0 DEF RevokeSessionOnly, Change
<1> HIDE DEF k
<1>4. /\ auth' \in Store
      /\ auth'.bootstrap = auth.bootstrap /\ auth'.grants = auth.grants
      /\ auth'.sessions = [auth.sessions EXCEPT ![k].revoked = TRUE]
  BY <1>0, <1>1, <1>2, <1>3, SessionEnded
<1>5. /\ nextId' = nextId /\ lock' = h /\ snapshot' = auth
      /\ UNCHANGED <<authDisk, durabilityClosed, checks, history, clock, faults, crashes>>
  BY <1>0 DEF RevokeSessionOnly, Change
<1>6. /\ Good(auth', nextId, clock, acked, asked)
      /\ auth'.sessions[k].revoked
  BY <1>0, <1>1, <1>2, <1>4, EndSession
<1>7. /\ op' \in [Procs -> Call \cup {NoCall}] /\ op'[h] = op[h]
      /\ \A q \in Procs : q # h => op'[q] = op[q] /\ pc'[q] = pc[q]
      /\ pc' \in [Procs -> Steps] /\ pc'[h] = "persist"
  BY <1>t DEF RevokeSessionOnly, Change, Steps
<1>8. op[h].kind = "revoke" BY <1>0, <1>1 DEF RevokeCalls
<1>9. Done(op'[h], auth')
  BY <1>1, <1>6, <1>7, <1>8 DEF Done, k
<1>10. /\ nextId' \in Nat /\ nextId <= nextId'
       /\ op'[h].token < nextId' /\ op'[h].grant < nextId' /\ op'[h].session < nextId'
  BY <1>0, <1>1, <1>5, <1>7
<1> QED
  BY <1>0, <1>1, <1>4, <1>5, <1>6, <1>7, <1>9, <1>10, ChangeStep

\* A revocation goes on to its session.
LEMMA RevokeSessionStep ==
  ASSUME AuthInv, NEW h \in Procs, RevokeSession(h)
  PROVE  AuthInv'
<1> DEFINE k == op[h].session
<1>0. /\ auth \in Store /\ nextId \in Nat /\ clock \in Nat
      /\ Answers(nextId, acked) /\ Good(auth, nextId, clock, acked, asked)
  BY AuthTypes
<1>t. op \in [Procs -> Call \cup {NoCall}] /\ pc \in [Procs -> Steps]
  BY AuthTypes
<1>1. lock = h /\ pc[h] = "revokeSession" /\ auth.sessions[k] # None
  BY <1>0 DEF RevokeSession, Holds
<1>2. HalfDone(op[h], auth) /\ k \in Ids /\ k \in asked
  <2>1. HalfDone(op[h], auth) /\ Ends(op[h]) \subseteq asked
    BY <1>1 DEF AuthInv, ControlInv
  <2>2. k \in Ids /\ op[h].kind = "revoke" BY <2>1 DEF HalfDone
  <2>3. k \in Ends(op[h]) BY <2>2, IdTypes DEF Ends
  <2> QED BY <2>1, <2>2, <2>3
<1>3. auth' = [auth EXCEPT !.sessions[k].revoked = TRUE]
  BY <1>0 DEF RevokeSession
<1> HIDE DEF k
<1>4. /\ auth' \in Store
      /\ auth'.bootstrap = auth.bootstrap /\ auth'.grants = auth.grants
      /\ auth'.sessions = [auth.sessions EXCEPT ![k].revoked = TRUE]
  BY <1>0, <1>1, <1>2, <1>3, SessionEnded
<1>5. /\ UNCHANGED <<lock, op, snapshot, checks, history, nextId, clock, crashes>>
      /\ authDisk' = authDisk /\ durabilityClosed' = durabilityClosed /\ faults' = faults
  BY <1>0 DEF RevokeSession, counters
<1>6. Good(auth', nextId, clock, acked, asked) /\ auth'.sessions[k].revoked
  BY <1>0, <1>1, <1>2, <1>4, EndSession
<1>7. /\ \A q \in Procs : q # h => pc'[q] = pc[q]
      /\ pc' \in [Procs -> Steps] /\ pc'[h] = "persist"
  BY <1>t DEF RevokeSession, Steps
<1>8. Done(op[h], auth')
  BY <1>2, <1>4, <1>6 DEF Done, HalfDone, k
<1>9. ~durabilityClosed' => authDisk' = snapshot
  BY <1>0, <1>1, <1>5 DEF AuthInv, GateInv
<1>10. /\ durabilityClosed' \in BOOLEAN /\ faults' \in Nat /\ authDisk' \in Store
       /\ Good(authDisk', nextId, clock, acked, asked)
  <2>1. /\ durabilityClosed \in BOOLEAN /\ faults \in Nat /\ authDisk \in Store
        /\ Good(authDisk, nextId, clock, acked, asked)
    BY DEF AuthInv, TypeOK, StoresInv
  <2> QED BY <1>5, <2>1
<1> QED
  BY <1>0, <1>1, <1>4, <1>5, <1>6, <1>7, <1>8, <1>9, <1>10, HolderStep

\* What the clean-up makes of a store.
LEMMA RemovedStore ==
  ASSUME auth \in Store, NEW u, u = Removed(auth)
  PROVE  /\ u \in Store
         /\ \A i \in Ids :
              /\ u.bootstrap[i] = IF /\ auth.bootstrap[i] # None
                                     /\ \/ auth.bootstrap[i].used
                                        \/ clock >= auth.bootstrap[i].expires
                                  THEN None ELSE auth.bootstrap[i]
              /\ u.sessions[i] = IF /\ auth.sessions[i] # None
                                    /\ \/ auth.sessions[i].revoked
                                       \/ clock >= auth.sessions[i].expires
                                 THEN None ELSE auth.sessions[i]
              /\ u.grants[i] = IF /\ auth.grants[i] # None
                                  /\ \/ auth.grants[i].revoked
                                     \/ clock >= auth.grants[i].idle
                                     \/ clock >= auth.grants[i].absolute
                               THEN [auth.grants[i] EXCEPT !.revoked = TRUE]
                               ELSE auth.grants[i]
<1>1. u = [bootstrap |-> u.bootstrap, sessions |-> u.sessions, grants |-> u.grants]
  BY DEF Removed
<1>2. u.bootstrap = [i \in Ids |-> IF /\ auth.bootstrap[i] # None
                                      /\ \/ auth.bootstrap[i].used
                                         \/ clock >= auth.bootstrap[i].expires
                                   THEN None ELSE auth.bootstrap[i]]
  BY DEF Removed, Keep, Expired
<1>3. u.sessions = [i \in Ids |-> IF /\ auth.sessions[i] # None
                                     /\ \/ auth.sessions[i].revoked
                                        \/ clock >= auth.sessions[i].expires
                                  THEN None ELSE auth.sessions[i]]
  BY DEF Removed, Keep, Expired
<1>4. u.grants = [i \in Ids |-> IF /\ auth.grants[i] # None
                                   /\ \/ auth.grants[i].revoked
                                      \/ clock >= auth.grants[i].idle
                                      \/ clock >= auth.grants[i].absolute
                                THEN [auth.grants[i] EXCEPT !.revoked = TRUE]
                                ELSE auth.grants[i]]
  BY DEF Removed, Inactive
<1>5. u.bootstrap \in [Ids -> BootstrapToken \cup {None}] BY <1>2, StoreTypes
<1>6. u.sessions \in [Ids -> SessionToken \cup {None}] BY <1>3, StoreTypes
<1>7. u.grants \in [Ids -> PairingGrant \cup {None}]
  <2>1. \A i \in Ids : auth.grants[i] # None =>
          [auth.grants[i] EXCEPT !.revoked = TRUE] \in PairingGrant
    <3> SUFFICES ASSUME NEW i \in Ids, auth.grants[i] # None
                 PROVE  [auth.grants[i] EXCEPT !.revoked = TRUE] \in PairingGrant
      OBVIOUS
    <3>1. auth.grants[i] \in PairingGrant BY StoreTypes
    <3> QED BY <3>1 DEF PairingGrant
  <2> QED BY <1>4, <2>1, StoreTypes
<1>8. u \in Store BY <1>1, <1>5, <1>6, <1>7 DEF Store
<1> QED BY <1>2, <1>3, <1>4, <1>8

\* The clean-up removes something.
LEMMA CleanupChanges ==
  ASSUME AuthInv, NEW p \in Procs, Locks(p, "cleanup"),
         Change(p, op[p], Removed(auth), "persist"), UNCHANGED nextId
  PROVE  AuthInv'
<1>1. /\ auth \in Store /\ nextId \in Nat /\ clock \in Nat
      /\ Answers(nextId, acked) /\ Good(auth, nextId, clock, acked, asked)
  BY AuthTypes
<1>2. op \in [Procs -> Call \cup {NoCall}] /\ pc \in [Procs -> Steps]
  BY AuthTypes
<1>3. auth' = Removed(auth) BY DEF Change
<1>4. /\ auth' \in Store /\ Good(auth', nextId, clock, acked, asked)
  BY <1>1, <1>3, RemovedStore, CleanUp
<1>5. /\ lock = NoProc /\ op[p] \in Call /\ op[p].kind = "cleanup"
      /\ op[p].token < nextId /\ op[p].grant < nextId /\ op[p].session < nextId
      /\ Ends(op[p]) \subseteq asked
  BY CallShapes DEF Locks
<1>6. /\ op' \in [Procs -> Call \cup {NoCall}] /\ op'[p] = op[p]
      /\ \A q \in Procs : q # p => op'[q] = op[q] /\ pc'[q] = pc[q]
      /\ pc' \in [Procs -> Steps] /\ pc'[p] = "persist"
  BY <1>2, <1>5 DEF Change, Steps
<1>7. /\ lock' = p /\ snapshot' = auth
      /\ UNCHANGED <<authDisk, durabilityClosed, checks, history, clock, faults, crashes>>
  BY DEF Change
<1>8. Done(op'[p], auth') BY <1>5, <1>6 DEF Done
<1>9. nextId' = nextId /\ nextId <= nextId' BY <1>1
<1> QED BY <1>1, <1>4, <1>5, <1>6, <1>7, <1>8, <1>9, ChangeStep

\* A call is refused.
LEMMA RefusedStep ==
  ASSUME AuthInv, NEW p \in Procs, lock = NoProc, RefusedCall(p)
  PROVE  AuthInv'
<1>1. /\ Finish(p) /\ auth' = auth /\ authDisk' = authDisk
      /\ durabilityClosed' = durabilityClosed /\ acked' = acked /\ faults' = faults
      /\ UNCHANGED <<checks, asked, nextId, clock, crashes>>
  BY DEF RefusedCall, history, counters
<1>2. durabilityClosed \in BOOLEAN /\ faults \in Nat
  BY DEF AuthInv, TypeOK
<1>3. ~durabilityClosed => authDisk = auth BY DEF AuthInv, GateInv
<1> QED BY <1>1, <1>2, <1>3, AuthTypes, FinishStep

\* A process takes the lock.
LEMMA AcquireStep ==
  ASSUME AuthInv, NEW p \in Procs, Acquire(p)
  PROVE  AuthInv'
<1>1. CASE RefusePairing(p)
  BY <1>1, RefusedStep DEF RefusePairing, Locks
<1>2. CASE RefuseMint(p)
  BY <1>2, RefusedStep DEF RefuseMint, Locks
<1>3. CASE Cleanup(p)
  <2>1. CASE RefusedCall(p) BY <1>3, <2>1, RefusedStep DEF Cleanup, Locks
  <2> QED BY <1>3, <2>1, CleanupChanges DEF Cleanup
<1> QED
  BY <1>1, <1>2, <1>3, CreateBootstrapStep, CompletePairingStep, MintSessionStep,
     RevokeGrantStep, RevokeSessionOnlyStep
  DEF Acquire

\* A revocation finds nothing to revoke, or no session, and goes back.
LEMMA RefuseRevokeStep ==
  ASSUME AuthInv, NEW p \in Procs, RefuseRevoke(p)
  PROVE  AuthInv'
<1>1. CASE Locks(p, "revoke") /\ RefusedCall(p)
  BY <1>1, RefusedStep DEF Locks
<1>2. CASE /\ Holds(p, "revokeSession") /\ auth' = snapshot /\ Finish(p)
           /\ UNCHANGED <<authDisk, durabilityClosed, checks, history, counters>>
  <2>1. /\ lock = p /\ auth' = snapshot /\ authDisk' = authDisk
        /\ durabilityClosed' = durabilityClosed /\ acked' = acked /\ faults' = faults
        /\ UNCHANGED <<checks, asked, nextId, clock, crashes>>
    BY <1>2 DEF Holds, history, counters
  <2>2. durabilityClosed \in BOOLEAN /\ faults \in Nat
    BY DEF AuthInv, TypeOK
  <2>3. ~durabilityClosed => authDisk = snapshot
    BY <1>2 DEF AuthInv, GateInv, Holds
  <2>4. snapshot \in Store /\ Good(snapshot, nextId, clock, acked, asked)
    BY <2>1, ProcNames DEF AuthInv, ControlInv, StoresInv
  <2> QED BY <1>2, <2>1, <2>2, <2>3, <2>4, AuthTypes, FinishStep
<1> QED BY <1>1, <1>2 DEF RefuseRevoke

------------------------------------------------------------------------------
(* Persist, audit, roll back *)

\* The copy of the holder of the lock, and what else it relies on.
LEMMA HolderTypes ==
  ASSUME AuthInv, NEW p \in Procs, lock = p
  PROVE  /\ snapshot \in Store /\ Good(snapshot, nextId, clock, acked, asked)
         /\ durabilityClosed \in BOOLEAN /\ faults \in Nat
         /\ op[p] \in Call
         /\ op[p].token < nextId /\ op[p].grant < nextId /\ op[p].session < nextId
         /\ pc[p] \in {"persist", "audit"} => Done(op[p], auth)
         /\ pc[p] = "audit" => authDisk = auth
         /\ pc[p] \in {"restore", "repersist"} => durabilityClosed
BY ProcNames DEF AuthInv, ControlInv, GateInv, StoresInv, TypeOK

\* The store is written.
LEMMA PersistStep ==
  ASSUME AuthInv, NEW p \in Procs, PersistOk(p) \/ PersistFails(p)
  PROVE  AuthInv'
<1>1. /\ lock = p /\ pc[p] = "persist"
      /\ UNCHANGED <<lock, op, snapshot, checks, history, nextId, clock, crashes>>
      /\ auth' = auth
  BY DEF PersistOk, PersistFails, Holds, counters
<1>2. /\ faults' \in Nat /\ authDisk' \in {authDisk, auth}
      /\ \/ pc' = [pc EXCEPT ![p] = "audit"] /\ authDisk' = auth
            /\ durabilityClosed' = durabilityClosed
         \/ pc' = [pc EXCEPT ![p] = "restore"] /\ durabilityClosed' = TRUE
  BY <1>1, HolderTypes DEF PersistOk, PersistFails, Fault, counters
<1>3. /\ pc' \in [Procs -> Steps] /\ \A q \in Procs : q # p => pc'[q] = pc[q]
      /\ pc'[p] \in {"audit", "restore"}
      /\ pc'[p] = "audit" => authDisk' = auth'
      /\ pc'[p] = "restore" => durabilityClosed'
      /\ durabilityClosed' \in BOOLEAN
  BY <1>1, <1>2, AuthTypes, HolderTypes DEF Steps
<1>4. /\ auth' \in Store /\ authDisk' \in Store
      /\ Good(auth', nextId, clock, acked, asked)
      /\ Good(authDisk', nextId, clock, acked, asked)
  BY <1>1, <1>2, AuthTypes
<1>5. Done(op[p], auth') BY <1>1, HolderTypes
<1> QED BY <1>1, <1>2, <1>3, <1>4, <1>5, HolderStep

\* The record of a call cannot be written.
LEMMA AuditFailsStep ==
  ASSUME AuthInv, NEW p \in Procs, AuditFails(p)
  PROVE  AuthInv'
<1>1. /\ lock = p /\ auth' = auth /\ authDisk' = authDisk
      /\ UNCHANGED <<lock, op, snapshot, checks, history, nextId, clock, crashes>>
      /\ durabilityClosed' = TRUE /\ pc' = [pc EXCEPT ![p] = "restore"]
  BY DEF AuditFails, Holds
<1>2. faults' \in Nat BY <1>1, HolderTypes DEF AuditFails, Fault
<1>3. /\ pc' \in [Procs -> Steps] /\ \A q \in Procs : q # p => pc'[q] = pc[q]
      /\ pc'[p] = "restore"
  BY <1>1, AuthTypes DEF Steps
<1> QED BY <1>1, <1>2, <1>3, AuthTypes, HolderStep

\* The copy is put back.
LEMMA RestoreStep ==
  ASSUME AuthInv, NEW p \in Procs, Restore(p)
  PROVE  AuthInv'
<1>1. /\ lock = p /\ auth' = snapshot /\ authDisk' = authDisk
      /\ UNCHANGED <<lock, op, snapshot, checks, history, nextId, clock, crashes>>
      /\ pc[p] = "restore" /\ pc' = [pc EXCEPT ![p] = "repersist"]
      /\ faults' = faults /\ durabilityClosed' = durabilityClosed
  BY DEF Restore, Holds, counters
<1>2. /\ faults' \in Nat /\ durabilityClosed' = TRUE
      /\ auth' \in Store /\ Good(auth', nextId, clock, acked, asked)
  BY <1>1, HolderTypes
<1>3. /\ pc' \in [Procs -> Steps] /\ \A q \in Procs : q # p => pc'[q] = pc[q]
      /\ pc'[p] = "repersist"
  BY <1>1, AuthTypes DEF Steps
<1> QED BY <1>1, <1>2, <1>3, AuthTypes, HolderStep

\* The restored store is written, or not.
LEMMA RepersistStep ==
  ASSUME AuthInv, NEW p \in Procs, Repersist(p)
  PROVE  AuthInv'
<1>1. /\ lock = p /\ Finish(p) /\ pc[p] = "repersist"
      /\ auth' = auth /\ acked' = acked /\ authDisk' \in {authDisk, auth}
      /\ UNCHANGED <<checks, asked, nextId, clock, crashes>>
  BY DEF Repersist, Holds, history
<1>2. /\ faults' \in Nat /\ durabilityClosed' = TRUE
  BY <1>1, HolderTypes DEF Repersist, Fault
<1>3. /\ auth' \in Store /\ authDisk' \in Store
      /\ Good(auth', nextId, clock, acked, asked)
      /\ Good(authDisk', nextId, clock, acked, asked)
  BY <1>1, AuthTypes
<1> QED BY <1>1, <1>2, <1>3, AuthTypes, FinishStep

\* The call is answered.
LEMMA AuditOkStep ==
  ASSUME AuthInv, NEW p \in Procs, AuditOk(p)
  PROVE  AuthInv'
<1> DEFINE r == ReplyTo(op[p])
<1>1. /\ lock = p /\ Finish(p) /\ pc[p] = "audit"
      /\ auth' = auth /\ authDisk' = authDisk
      /\ durabilityClosed' = durabilityClosed /\ faults' = faults
      /\ acked' = IF op[p].kind = "cleanup" THEN acked ELSE acked \cup {r}
      /\ UNCHANGED <<checks, asked, nextId, clock, crashes>>
  BY DEF AuditOk, Holds, counters
<1>2. authDisk = auth /\ durabilityClosed \in BOOLEAN /\ faults \in Nat
  BY <1>1, HolderTypes
<1>3. CASE op[p].kind = "cleanup"
  BY <1>1, <1>2, <1>3, AuthTypes, FinishStep
<1>4. CASE op[p].kind # "cleanup"
  <2>1. /\ op[p] \in Call /\ Done(op[p], auth)
        /\ op[p].token < nextId /\ op[p].grant < nextId /\ op[p].session < nextId
    BY <1>1, HolderTypes
  <2>2. /\ r.kind = op[p].kind /\ r.token = op[p].token /\ r.grant = op[p].grant
        /\ r.session = op[p].session
        /\ op[p].kind = "bootstrap" => r.expires = auth.bootstrap[op[p].token].expires
        /\ op[p].kind = "mint" => r.expires = auth.sessions[op[p].session].expires
        /\ op[p].kind = "pair" => r.expires = auth.grants[op[p].grant].absolute
        /\ op[p].kind = "revoke" => r.expires = 0
        /\ r = [kind |-> r.kind, token |-> r.token, grant |-> r.grant,
                session |-> r.session, expires |-> r.expires]
    BY DEF ReplyTo
  <2> HIDE DEF r
  <2>3. r \in Reply
    <3>1. r.expires \in Nat
      BY <1>4, <2>1, <2>2, AuthTypes, StoreTypes DEF Call, Kinds, Done
    <3> QED BY <2>1, <2>2, <3>1 DEF Reply, Call
  <2>4. /\ Good(auth, nextId, clock, acked \cup {r}, asked)
        /\ Answers(nextId, acked \cup {r})
    BY <1>4, <2>1, <2>2, <2>3, AuthTypes, Answered
  <2>5. acked' = acked \cup {r} BY <1>1, <1>4
  <2> QED BY <1>1, <1>2, <2>4, <2>5, AuthTypes, FinishStep
<1> QED BY <1>3, <1>4

------------------------------------------------------------------------------
(* Calls that arrive, checks, restarts and time *)

\* An offered call names what was given out, and ends only what has an id.
LEMMA OfferedCalls ==
  ASSUME AuthInv, NEW c \in Offered
  PROVE  /\ c \in Call /\ c \in Waiting
         /\ c.token < nextId /\ c.grant < nextId /\ c.session < nextId
         /\ Ends(c) \subseteq Ids
<1>1. \A r \in acked : r.token < nextId /\ r.grant < nextId /\ r.session < nextId
  BY AuthTypes, AnswerTypes
<1>2. nextId \in Nat /\ 0 < nextId BY AuthTypes
<1>3. CASE c \in BootstrapCalls
  BY <1>2, <1>3 DEF BootstrapCalls, Call, Kinds, Waiting, Ends
<1>4. CASE c \in PairCalls /\ \E r \in Handed("bootstrap") : c.token = r.token
  BY <1>1, <1>2, <1>4 DEF PairCalls, Call, Kinds, Waiting, Ends, Handed
<1>5. CASE c \in MintCalls /\ \E r \in Handed("pair") : c.grant = r.grant
  BY <1>1, <1>2, <1>5 DEF MintCalls, Call, Kinds, Waiting, Ends, Handed
<1>6. CASE /\ c \in RevokeCalls
           /\ c.grant # 0 => \E r \in Handed("pair") : c.grant = r.grant
           /\ c.session # 0 => \E r \in Handed("mint") : c.session = r.session
  <2>1. c.token < nextId /\ c.grant < nextId /\ c.session < nextId
    BY <1>1, <1>2, <1>6 DEF RevokeCalls, Handed
  <2>2. c \in Call /\ c \in Waiting /\ Ends(c) \subseteq Ids
    BY <1>6 DEF RevokeCalls, Call, Kinds, Waiting, Ends
  <2> QED BY <2>1, <2>2
<1> QED BY <1>3, <1>4, <1>5, <1>6 DEF Offered

\* A process with a call begins to wait for the lock.
LEMMA WaitStep ==
  ASSUME AuthInv, NEW p \in Procs, pc[p] = "idle",
         op' \in [Procs -> Call \cup {NoCall}], pc' \in [Procs -> Steps],
         \A q \in Procs : q # p => op'[q] = op[q] /\ pc'[q] = pc[q],
         pc'[p] = "waiting", op'[p] \in Call, op'[p] \in Waiting,
         op'[p].token < nextId, op'[p].grant < nextId, op'[p].session < nextId,
         asked \subseteq asked', asked' \subseteq Ids, Ends(op'[p]) \subseteq asked',
         UNCHANGED <<auth, authDisk, durabilityClosed, lock, snapshot, checks, acked,
                     counters>>
  PROVE  AuthInv'
<1> USE DEF AuthInv
<1>1. TypeOK' BY DEF TypeOK, checks, counters
<1>2. ControlInv' BY DEF ControlInv, counters
<1>3. GateInv' BY DEF GateInv
<1>4. StoresInv'
  <2>1. /\ Good(auth, nextId, clock, acked, asked')
        /\ Good(authDisk, nextId, clock, acked, asked')
    BY AuthTypes, GoodStill
  <2>2. lock # NoProc => Good(snapshot, nextId, clock, acked, asked')
    <3>1. lock # NoProc => /\ snapshot \in Store
                           /\ Good(snapshot, nextId, clock, acked, asked)
      BY DEF ControlInv, StoresInv
    <3> QED BY <3>1, AuthTypes, GoodStill
  <2> QED BY <2>1, <2>2 DEF StoresInv, counters
<1>5. CheckInv' BY ChecksStill
<1> QED BY <1>1, <1>2, <1>3, <1>4, <1>5 DEF counters

\* A call arrives.
LEMMA EnterStep ==
  ASSUME AuthInv, NEW h \in Handlers, Enter(h)
  PROVE  AuthInv'
<1>1. PICK c \in Offered : op' = [op EXCEPT ![h] = c] /\ asked' = asked \cup Ends(c)
  BY DEF Enter
<1>2. h \in Procs BY DEF Procs
<1>3. /\ pc[h] = "idle" /\ pc' = [pc EXCEPT ![h] = "waiting"]
      /\ UNCHANGED <<auth, authDisk, durabilityClosed, lock, snapshot, checks, acked,
                     counters>>
  BY DEF Enter
<1>4. /\ c \in Call /\ c \in Waiting
      /\ c.token < nextId /\ c.grant < nextId /\ c.session < nextId
      /\ Ends(c) \subseteq Ids
  BY OfferedCalls
<1>5. /\ op' \in [Procs -> Call \cup {NoCall}] /\ op'[h] = c
      /\ pc' \in [Procs -> Steps] /\ pc'[h] = "waiting"
      /\ \A q \in Procs : q # h => op'[q] = op[q] /\ pc'[q] = pc[q]
  BY <1>1, <1>2, <1>3, <1>4, AuthTypes DEF Steps
<1>6. asked' \subseteq Ids BY <1>1, <1>4 DEF AuthInv, TypeOK
<1> QED BY <1>1, <1>2, <1>3, <1>4, <1>5, <1>6, WaitStep

\* The ticker of the clean-up fires.
LEMMA CleanerTickStep ==
  ASSUME AuthInv, CleanerTick
  PROVE  AuthInv'
<1>1. PICK c \in CleanupCalls : op' = [op EXCEPT ![Cleaner] = c]
  BY DEF CleanerTick
<1>2. Cleaner \in Procs BY DEF Procs
<1>3. /\ pc[Cleaner] = "idle" /\ pc' = [pc EXCEPT ![Cleaner] = "waiting"]
      /\ UNCHANGED <<auth, authDisk, durabilityClosed, lock, snapshot, checks, acked,
                     counters>>
      /\ asked' = asked
  BY DEF CleanerTick, history
<1>4. /\ c \in Call /\ c \in Waiting
      /\ c.token < nextId /\ c.grant < nextId /\ c.session < nextId
      /\ Ends(c) \subseteq asked
  <2>1. nextId \in Nat /\ 0 < nextId BY AuthTypes
  <2>2. c.token = 0 /\ c.grant = 0 /\ c.session = 0 /\ c.kind = "cleanup"
    BY DEF CleanupCalls
  <2>3. c \in Call BY DEF CleanupCalls, Call, Kinds
  <2>4. c \in Waiting BY DEF Waiting
  <2>5. Ends(c) = {} BY <2>2 DEF Ends
  <2> QED BY <2>1, <2>2, <2>3, <2>4, <2>5
<1>5. /\ op' \in [Procs -> Call \cup {NoCall}] /\ op'[Cleaner] = c
      /\ pc' \in [Procs -> Steps] /\ pc'[Cleaner] = "waiting"
      /\ \A q \in Procs : q # Cleaner => op'[q] = op[q] /\ pc'[q] = pc[q]
  BY <1>1, <1>2, <1>3, <1>4, AuthTypes DEF Steps
<1>6. asked \subseteq Ids BY DEF AuthInv, TypeOK
<1> QED BY <1>2, <1>3, <1>4, <1>5, <1>6, WaitStep

\* The parts of the invariant that no check takes part in.
LEMMA ChecksOnly ==
  ASSUME AuthInv,
         UNCHANGED <<auth, authDisk, durabilityClosed, control, history, counters>>,
         CheckInv',
         check' \in [Checkers -> [session: Ids \cup {0}, grant: Ids \cup {0},
                                  late: BOOLEAN]],
         admitted' \subseteq [session: Ids, grant: Ids, late: BOOLEAN]
  PROVE  AuthInv'
<1> USE DEF AuthInv, control, history, counters
<1>1. TypeOK' BY DEF TypeOK
<1>2. ControlInv' BY DEF ControlInv
<1>3. GateInv' BY DEF GateInv
<1>4. StoresInv' BY DEF StoresInv
<1> QED BY <1>1, <1>2, <1>3, <1>4

\* A check finds its session: what revoked it later has yet to be answered, unless
\* it revoked the grant.
LEMMA CheckSessionStep ==
  ASSUME AuthInv, NEW k \in Checkers, CheckSession(k)
  PROVE  AuthInv'
<1>1. PICK r \in acked :
        /\ r.kind = "mint"
        /\ auth.sessions[r.session] # None /\ ~auth.sessions[r.session].revoked
        /\ check' = [check EXCEPT ![k] =
             [session |-> r.session, grant |-> auth.sessions[r.session].grant,
              late |-> Revoked(r.session, auth.sessions[r.session].grant)]]
  BY DEF CheckSession
<1> DEFINE g == auth.sessions[r.session].grant
           late == Revoked(r.session, g)
           new == [session |-> r.session, grant |-> g, late |-> late]
<1>2. r.session \in Ids /\ r.session # 0 BY <1>1, AuthTypes, AnswerTypes, IdTypes
<1>3. g \in Ids BY <1>1, <1>2, AuthTypes, StoreTypes
<1>4. late \in BOOLEAN BY DEF Revoked
<1>5. late => \E a \in acked : a.kind = "revoke" /\ a.grant = g
  <2> SUFFICES ASSUME NEW a \in acked, a.kind = "revoke",
                      a.session = r.session \/ a.grant = g
               PROVE  \E b \in acked : b.kind = "revoke" /\ b.grant = g
    BY DEF Revoked
  <2>1. a.session # r.session
    BY <1>1, <1>2, AuthTypes DEF Good, StandsIn
  <2> QED BY <2>1
<1> HIDE DEF g, late
<1>6. check' = [check EXCEPT ![k] = new] BY <1>1 DEF g, late
<1>7. check \in [Checkers -> [session: Ids \cup {0}, grant: Ids \cup {0}, late: BOOLEAN]]
  BY DEF AuthInv, TypeOK
<1>8. new \in [session: Ids \cup {0}, grant: Ids \cup {0}, late: BOOLEAN]
  BY <1>2, <1>3, <1>4
<1>9. new.session = r.session /\ new.grant = g /\ new.late = late OBVIOUS
<1> HIDE DEF new
<1>10. check' \in [Checkers -> [session: Ids \cup {0}, grant: Ids \cup {0}, late: BOOLEAN]]
  BY <1>6, <1>7, <1>8
<1>11. /\ UNCHANGED <<auth, authDisk, durabilityClosed, control, history, counters>>
       /\ admitted' = admitted /\ acked' = acked
  BY DEF CheckSession, history
<1>12. CheckInv'
  <2>1. \A j \in Checkers : j # k => check'[j] = check[j] BY <1>6, <1>7
  <2>2. check'[k] = new BY <1>6, <1>7
  <2>3. AdmittedNotRevoked' BY <1>11 DEF AuthInv, CheckInv, AdmittedNotRevoked
  <2>4. ASSUME NEW j \in Checkers, check'[j] # NoCheck
        PROVE  /\ check'[j].session \in Ids /\ check'[j].grant \in Ids
               /\ check'[j].late => \E a \in acked' :
                                       a.kind = "revoke" /\ a.grant = check'[j].grant
    <3>1. CASE j = k BY <1>2, <1>3, <1>5, <1>9, <1>11, <2>2, <3>1
    <3>2. CASE j # k BY <1>11, <2>1, <2>4, <3>2 DEF AuthInv, CheckInv
    <3> QED BY <3>1, <3>2
  <2> QED BY <2>3, <2>4 DEF CheckInv
<1>13. admitted \subseteq [session: Ids, grant: Ids, late: BOOLEAN]
  BY DEF AuthInv, TypeOK
<1> QED BY <1>10, <1>11, <1>12, <1>13, ChecksOnly

\* A check finds its grant: one whose revocation was answered is revoked.
LEMMA CheckGrantStep ==
  ASSUME AuthInv, NEW k \in Checkers, CheckGrant(k)
  PROVE  AuthInv'
<1> DEFINE g == auth.grants[check[k].grant]
<1>1. /\ check[k] # NoCheck /\ check' = [check EXCEPT ![k] = NoCheck]
      /\ admitted' = IF g # None /\ ~Inactive(g) THEN admitted \cup {check[k]}
                                                 ELSE admitted
      /\ UNCHANGED <<auth, authDisk, durabilityClosed, control, history, counters>>
      /\ acked' = acked
  BY DEF CheckGrant, history
<1>2. check \in [Checkers -> [session: Ids \cup {0}, grant: Ids \cup {0}, late: BOOLEAN]]
  BY DEF AuthInv, TypeOK
<1>3. /\ check[k].session \in Ids /\ check[k].grant \in Ids
      /\ check[k].late => \E r \in acked : r.kind = "revoke" /\ r.grant = check[k].grant
  BY <1>1 DEF AuthInv, CheckInv
<1>4. check[k].late => ~(g # None /\ ~Inactive(g))
  <2> SUFFICES ASSUME NEW r \in acked, r.kind = "revoke", r.grant = check[k].grant
               PROVE  Inactive(g)
    BY <1>3
  <2>1. r.grant # 0 BY <1>3, IdTypes
  <2>2. g.revoked BY <2>1, AuthTypes DEF Good, StandsIn
  <2> QED BY <2>2 DEF Inactive
<1>5. check[k] \in [session: Ids, grant: Ids, late: BOOLEAN]
  <2>1. check[k] \in [session: Ids \cup {0}, grant: Ids \cup {0}, late: BOOLEAN]
    BY <1>2
  <2> QED BY <1>3, <2>1
<1>6. /\ admitted \subseteq [session: Ids, grant: Ids, late: BOOLEAN]
      /\ \A c \in admitted : ~c.late
  BY DEF AuthInv, TypeOK, CheckInv, AdmittedNotRevoked
<1> HIDE DEF g
<1>7. /\ admitted' \subseteq [session: Ids, grant: Ids, late: BOOLEAN]
      /\ \A c \in admitted' : ~c.late
  BY <1>1, <1>4, <1>5, <1>6
<1>8. /\ check'[k] = NoCheck /\ \A j \in Checkers : j # k => check'[j] = check[j]
      /\ check' \in [Checkers -> [session: Ids \cup {0}, grant: Ids \cup {0},
                                  late: BOOLEAN]]
  <2>1. NoCheck \in [session: Ids \cup {0}, grant: Ids \cup {0}, late: BOOLEAN]
    BY DEF NoCheck
  <2> QED BY <1>1, <1>2, <2>1
<1>9. CheckInv'
  BY <1>1, <1>7, <1>8 DEF AuthInv, CheckInv, AdmittedNotRevoked
<1> QED BY <1>1, <1>7, <1>8, <1>9, ChecksOnly

\* A restart.
LEMMA CrashStep ==
  ASSUME AuthInv, Crash
  PROVE  AuthInv'
<1> USE DEF AuthInv, Crash, history
<1>1. NoCheck \in [session: Ids \cup {0}, grant: Ids \cup {0}, late: BOOLEAN]
  BY DEF NoCheck
<1>2. TypeOK'
  <2>1. check' \in [Checkers -> [session: Ids \cup {0}, grant: Ids \cup {0},
                                 late: BOOLEAN]]
    BY <1>1
  <2>2. pc' \in [Procs -> Steps] /\ op' \in [Procs -> Call \cup {NoCall}]
    BY DEF Steps
  <2>3. /\ auth' \in Store /\ authDisk' \in Store /\ durabilityClosed' \in BOOLEAN
        /\ lock' \in Procs \cup {NoProc} /\ snapshot' \in Store \cup {None}
    BY DEF TypeOK
  <2>4. /\ admitted' \subseteq [session: Ids, grant: Ids, late: BOOLEAN]
        /\ acked' \subseteq Reply /\ asked' \subseteq Ids
    BY DEF TypeOK
  <2>5. {nextId', clock', faults', crashes'} \subseteq Nat BY DEF TypeOK
  <2> QED BY <2>1, <2>2, <2>3, <2>4, <2>5 DEF TypeOK
<1>3. ControlInv' BY ProcNames DEF ControlInv
<1>4. GateInv' BY DEF GateInv
<1>5. StoresInv' BY DEF StoresInv
<1>6. CheckInv' BY DEF CheckInv, AdmittedNotRevoked
<1> QED BY <1>2, <1>3, <1>4, <1>5, <1>6

\* Time passes.
LEMMA TickStep ==
  ASSUME AuthInv, Tick
  PROVE  AuthInv'
<1> USE DEF AuthInv, Tick, control, checks, history
<1>1. clock \in Nat /\ clock' \in Nat /\ clock <= clock' BY AuthTypes
<1>2. TypeOK' BY <1>1 DEF TypeOK
<1>3. ControlInv' BY DEF ControlInv
<1>4. GateInv' BY DEF GateInv
<1>5. StoresInv'
  <2>1. /\ Good(auth, nextId, clock', acked, asked)
        /\ Good(authDisk, nextId, clock', acked, asked)
    BY <1>1, AuthTypes, GoodStill
  <2>2. lock # NoProc => Good(snapshot, nextId, clock', acked, asked)
    <3>1. lock # NoProc => /\ snapshot \in Store
                           /\ Good(snapshot, nextId, clock, acked, asked)
      BY DEF ControlInv, StoresInv
    <3> QED BY <1>1, <3>1, AuthTypes, GoodStill
  <2> QED BY <2>1, <2>2 DEF StoresInv
<1>6. CheckInv' BY ChecksStill
<1> QED BY <1>2, <1>3, <1>4, <1>5, <1>6

\* Nothing happens.
LEMMA StutterStep ==
  ASSUME AuthInv, UNCHANGED vars
  PROVE  AuthInv'
BY DEF AuthInv, vars, control, checks, history, counters, TypeOK, ControlInv, GateInv,
       StoresInv, CheckInv, AdmittedNotRevoked

------------------------------------------------------------------------------
(* The theorems *)

\* AuthInv is inductive: every handler, the clean-up loop, every check, every
\* fault and every restart keeps it.
THEOREM AuthInvariant == Spec => []AuthInv
<1>1. AuthInv /\ [Next]_vars => AuthInv'
  <2> SUFFICES ASSUME AuthInv, [Next]_vars PROVE AuthInv' OBVIOUS
  <2>1. ASSUME NEW h \in Handlers, Enter(h) PROVE AuthInv' BY <2>1, EnterStep
  <2>2. CASE CleanerTick BY <2>2, CleanerTickStep
  <2>3. ASSUME NEW p \in Procs, Acquire(p) PROVE AuthInv' BY <2>3, AcquireStep
  <2>4. ASSUME NEW p \in Procs, RefuseRevoke(p) PROVE AuthInv' BY <2>4, RefuseRevokeStep
  <2>5. ASSUME NEW p \in Procs, Proceed(p) PROVE AuthInv'
    BY <2>5, RevokeSessionStep, PersistStep, AuditOkStep, AuditFailsStep, RestoreStep,
       RepersistStep
    DEF Proceed
  <2>6. ASSUME NEW k \in Checkers, CheckSession(k) \/ CheckGrant(k) PROVE AuthInv'
    BY <2>6, CheckSessionStep, CheckGrantStep
  <2>7. CASE Crash BY <2>7, CrashStep
  <2>8. CASE Tick BY <2>8, TickStep
  <2>9. CASE UNCHANGED vars BY <2>9, StutterStep
  <2> QED BY <2>1, <2>2, <2>3, <2>4, <2>5, <2>6, <2>7, <2>8, <2>9 DEF Next
<1> QED BY <1>1, AuthInit, PTL DEF Spec

\* Between two calls, memory and file agree behind an open gate: every refusal
\* and every failed write or record goes back, or closes the gate
\* (auth_lifecycle.go 80-127, 168-188; auth_cleanup.go 24-58).
THEOREM DurableUnlessClosedHolds == Spec => []DurableUnlessClosed
<1>1. AuthInv => DurableUnlessClosed BY DEF AuthInv, GateInv, DurableUnlessClosed
<1> QED BY <1>1, AuthInvariant, PTL

\* One token pays for one grant, in memory, in the file and among the replies
\* (store.go 59-78, auth_lifecycle.go 96-127).
THEOREM OneGrantPerBootstrapHolds == Spec => []OneGrantPerBootstrap
<1>1. AuthInv => OneGrantPerBootstrap
  <2> SUFFICES ASSUME AuthInv PROVE OneGrantPerBootstrap OBVIOUS
  <2>1. OneGrantIn(auth) /\ OneGrantIn(authDisk) BY AuthTypes DEF Good
  <2>2. ASSUME NEW r \in acked, NEW s \in acked, r.kind = "pair", s.kind = "pair",
               r.token = s.token
        PROVE  r.grant = s.grant
    <3>1. r.grant \in Ids /\ s.grant \in Ids BY <2>2, AuthTypes, AnswerTypes
    <3>2. /\ auth.grants[r.grant] # None /\ auth.grants[r.grant].token = r.token
          /\ auth.grants[s.grant] # None /\ auth.grants[s.grant].token = s.token
      BY <2>2, AuthTypes DEF Good, PairedIn
    <3> QED BY <2>1, <2>2, <3>1, <3>2 DEF OneGrantIn
  <2> QED BY <2>1, <2>2 DEF OneGrantPerBootstrap, OneGrantIn
<1> QED BY <1>1, AuthInvariant, PTL

\* A revocation that was answered stands: no roll-back of another call, no
\* clean-up and no restart brings the grant or the session back
\* (auth_lifecycle.go 162-189).
THEOREM RevocationHoldsAlways == Spec => []RevocationHolds
<1>1. AuthInv => RevocationHolds
  BY AuthTypes DEF RevocationHolds, Good, StandsIn
<1> QED BY <1>1, AuthInvariant, PTL

\* A credential that was handed out stays usable, in memory and in the file,
\* until the time its reply gave, unless its end was asked for or its grant
\* idled out (auth_lifecycle.go 70-160, persist.go 44-76).
THEOREM AckedCredentialKeptHolds == Spec => []AckedCredentialKept
<1>1. AuthInv => AckedCredentialKept
  BY AuthTypes DEF AckedCredentialKept, Good, KeptIn, Idled, IdledAt
<1> QED BY <1>1, AuthInvariant, PTL

\* No call passes whose session or grant had been revoked, with the answer
\* sent, before its check began (authz.go 41-86).
THEOREM AdmittedNotRevokedHolds == Spec => []AdmittedNotRevoked
<1>1. AuthInv => AdmittedNotRevoked BY DEF AuthInv, CheckInv
<1> QED BY <1>1, AuthInvariant, PTL
==============================================================================
