------------------------------ MODULE Host_proofs ------------------------------
(***************************************************************************)
(* Theorems about the parts of the broker's host that are modelled apart:  *)
(* the authentication rate limiter, the daemon's processes and locks,      *)
(* requests and leases kept by a remote service, and the workspace setup,  *)
(* for every value of their constants.                                     *)
(***************************************************************************)
EXTENDS AuthRateLimit, DaemonControl, ExternalState, WorkspaceSetup,
        FiniteSetTheorems, SequenceTheorems, WellFoundedInduction, TLAPS

------------------------------------------------------------------------------
(* AuthRateLimit: however many requests are served at once *)

\* The configured limit, or the default of 20, is at least one attempt.
LEMMA LimitTypes == Limit.max \in Nat /\ Limit.max >= 1 /\ Limit.window \in Nat
BY LimiterAssumption DEF Limit, newAuthRateLimiter

\* A bucket as a critical section finds it is well typed and no fuller.
LEMMA CurrentTypes ==
  ASSUME LimiterTypeOK, NEW k \in Buckets, NEW now \in Int
  PROVE  /\ Current(k, now) \in [count : Nat, resetAt : Int]
         /\ Current(k, now).count <= bucket[k].count
BY LimitTypes DEF LimiterTypeOK, Current

\* There is a bound on the requests past the check: all of them.
LEMMA UnderWayCount ==
  ASSUME NEW k
  PROVE  /\ IsFiniteSet(UnderWay(k))
         /\ Cardinality(UnderWay(k)) \in Nat /\ Cardinality(Workers) \in Nat
         /\ Cardinality(UnderWay(k)) <= Cardinality(Workers)
<1>1. UnderWay(k) \subseteq Workers
  BY DEF UnderWay
<1> QED BY <1>1, LimiterAssumption, FS_Subset, FS_CardinalityType

\* The bound is inductive: a bucket that lets a request through is below the
\* limit, and no more requests are past the check than there are.
LimiterInv == LimiterTypeOK /\ FailuresBounded

\* The limiter starts with empty buckets.
LEMMA LimiterInitial == LimiterInit => LimiterInv
<1> SUFFICES ASSUME LimiterInit PROVE LimiterInv
  OBVIOUS
<1>1. LimiterTypeOK
  BY DEF LimiterInit, LimiterTypeOK, Free
<1>2. ASSUME NEW k \in Buckets PROVE bucket[k].count = 0 /\ UnderWay(k) = {}
  BY DEF LimiterInit, UnderWay, Free
<1>3. FailuresBounded
  BY <1>2, LimitTypes, UnderWayCount, FS_EmptySet DEF FailuresBounded
<1> QED BY <1>1, <1>3 DEF LimiterInv

\* One element more or less changes a cardinality by at most one.
LEMMA CardinalityStep ==
  ASSUME NEW S, IsFiniteSet(S), NEW T, NEW w, T \subseteq S \cup {w}
  PROVE  /\ IsFiniteSet(T) /\ Cardinality(T) \in Nat /\ Cardinality(S) \in Nat
         /\ Cardinality(T) <= Cardinality(S) + 1
         /\ w \in S \/ w \notin T => Cardinality(T) <= Cardinality(S)
         /\ w \in S /\ w \notin T => Cardinality(T) + 1 <= Cardinality(S)
<1>1. Cardinality(S) \in Nat
  BY FS_CardinalityType
<1>2. CASE w \in S /\ w \notin T
  <2>1. IsFiniteSet(S \ {w}) /\ Cardinality(S \ {w}) = Cardinality(S) - 1
    BY <1>2, FS_RemoveElement
  <2>2. T \subseteq S \ {w}
    BY <1>2
  <2>3. IsFiniteSet(T) /\ Cardinality(T) <= Cardinality(S \ {w}) /\ Cardinality(T) \in Nat
    BY <2>1, <2>2, FS_Subset, FS_CardinalityType
  <2> QED BY <1>1, <2>1, <2>3
<1>3. CASE (w \in S) = (w \in T)
  <2>1. T \subseteq S
    BY <1>3
  <2>2. IsFiniteSet(T) /\ Cardinality(T) <= Cardinality(S) /\ Cardinality(T) \in Nat
    BY <2>1, FS_Subset, FS_CardinalityType
  <2> QED BY <1>1, <1>3, <2>2
<1>4. CASE w \notin S /\ w \in T
  <2>1. IsFiniteSet(S \cup {w}) /\ Cardinality(S \cup {w}) = Cardinality(S) + 1
    BY <1>4, FS_AddElement
  <2>2. IsFiniteSet(T) /\ Cardinality(T) <= Cardinality(S \cup {w}) /\ Cardinality(T) \in Nat
    BY <2>1, FS_Subset, FS_CardinalityType
  <2> QED BY <1>1, <1>4, <2>1, <2>2
<1> QED BY <1>2, <1>3, <1>4

\* A request that goes on counts for the bucket it is about, if for any.
LEMMA UnderWayStep ==
  ASSUME LimiterTypeOK, NEW w \in Workers, NEW r,
         worker' = [worker EXCEPT ![w] = r], NEW k
  PROVE  /\ Cardinality(UnderWay(k)') \in Nat
         /\ r.key # k \/ r.pc \notin {"examined", "failed"} \/ w \in UnderWay(k)
              => Cardinality(UnderWay(k)') <= Cardinality(UnderWay(k))
         /\ w \in UnderWay(k) /\ r.pc = "free"
              => Cardinality(UnderWay(k)') + 1 <= Cardinality(UnderWay(k))
<1>1. /\ UnderWay(k)' \subseteq UnderWay(k) \cup {w}
      /\ r.key # k \/ r.pc \notin {"examined", "failed"} \/ w \in UnderWay(k)
           => w \in UnderWay(k) \/ w \notin UnderWay(k)'
      /\ w \in UnderWay(k) /\ r.pc = "free" => w \notin UnderWay(k)'
  BY DEF UnderWay, LimiterTypeOK
<1>2. IsFiniteSet(UnderWay(k))
  BY UnderWayCount
<1> DEFINE T == UnderWay(k)'
           S == UnderWay(k)
<1>3. T \subseteq S \cup {w} /\ IsFiniteSet(S)
  BY <1>1, <1>2
<1> HIDE DEF T, S
<1>4. /\ Cardinality(T) \in Nat
      /\ w \in S \/ w \notin T => Cardinality(T) <= Cardinality(S)
      /\ w \in S /\ w \notin T => Cardinality(T) + 1 <= Cardinality(S)
  BY <1>3, CardinalityStep
<1> QED BY <1>1, <1>4 DEF T, S

\* A bucket no fuller than it was, about which nobody new is under way, keeps to
\* the bound.
LEMMA NoFuller ==
  ASSUME LimiterInv, NEW j \in Buckets,
         bucket'[j].count \in Nat, bucket'[j].count <= bucket[j].count,
         Cardinality(UnderWay(j)') \in Nat,
         Cardinality(UnderWay(j)') <= Cardinality(UnderWay(j))
  PROVE  bucket'[j].count + Cardinality(UnderWay(j)') < Limit.max + Cardinality(Workers)
<1>1. bucket[j].count + Cardinality(UnderWay(j)) < Limit.max + Cardinality(Workers)
  BY DEF LimiterInv, FailuresBounded
<1>2. bucket[j].count \in Nat /\ Cardinality(UnderWay(j)) \in Nat /\ Cardinality(Workers) \in Nat
  BY UnderWayCount DEF LimiterInv, LimiterTypeOK
<1> QED BY <1>1, <1>2, LimitTypes

\* Every step keeps the bound.
LEMMA LimiterStep == LimiterInv /\ [LimiterNext]_rvars => LimiterInv'
<1> SUFFICES ASSUME LimiterInv, [LimiterNext]_rvars PROVE LimiterInv'
  OBVIOUS
<1> USE DEF LimiterInv
<1>0. \A k \in Buckets : bucket[k].count \in Nat
  BY DEF LimiterTypeOK
<1>1. ASSUME NEW w \in Workers, Arrive(w) PROVE LimiterInv'
  <2>1. LimiterTypeOK'
    BY <1>1 DEF Arrive, Become, LimiterTypeOK
  <2>2. PICK k \in Buckets : worker' = [worker EXCEPT ![w] = [pc |-> "asks", key |-> k, now |-> time]]
    BY <1>1 DEF Arrive, Become
  <2>3. ASSUME NEW j \in Buckets
        PROVE /\ bucket'[j] = bucket[j] /\ Cardinality(UnderWay(j)') \in Nat
              /\ Cardinality(UnderWay(j)') <= Cardinality(UnderWay(j))
    <3>1. [pc |-> "asks", key |-> k, now |-> time].pc \notin {"examined", "failed"}
      OBVIOUS
    <3>2. Cardinality(UnderWay(j)') \in Nat /\ Cardinality(UnderWay(j)') <= Cardinality(UnderWay(j))
      BY <2>2, <3>1, UnderWayStep
    <3> QED BY <1>1, <3>2 DEF Arrive
  <2>4. FailuresBounded'
    BY <1>0, <2>3, NoFuller DEF FailuresBounded, Limit
  <2> QED BY <2>1, <2>4
<1>2. ASSUME NEW w \in Workers, allow(w) PROVE LimiterInv'
  <2> DEFINE key == worker[w].key
             b == Current(key, worker[w].now)
  <2>1. key \in Buckets /\ worker[w].now \in Int
    BY <1>2 DEF allow, LimiterTypeOK
  <2>2. b \in [count : Nat, resetAt : Int] /\ b.count <= bucket[key].count
    BY <2>1, CurrentTypes
  <2>3. bucket' = [bucket EXCEPT ![key] = b] /\ time' = time
    BY <1>2 DEF allow
  <2>4. PICK r : /\ worker' = [worker EXCEPT ![w] = r]
                 /\ \/ HasRoom(b) /\ r = [pc |-> "examined", key |-> key, now |-> 0]
                    \/ r = Free
    BY <1>2 DEF allow, Become
  <2> HIDE DEF b, key
  <2>5. LimiterTypeOK'
    <3>1. 0 \in Int
      OBVIOUS
    <3>2. r \in [pc : {"free", "asks", "examined", "failed"}, key : Buckets \cup {"none"}, now : Int]
      BY <2>1, <2>4, <3>1 DEF Free
    <3>3. r.pc # "free" => r.key \in Buckets
      BY <2>1, <2>4 DEF Free
    <3> QED BY <2>1, <2>2, <2>3, <2>4, <3>2, <3>3 DEF LimiterTypeOK
  <2>6. ASSUME NEW j \in Buckets
        PROVE bucket'[j].count + Cardinality(UnderWay(j)') < Limit.max + Cardinality(Workers)
    <3>2. /\ bucket'[j].count \in Nat /\ bucket'[j].count <= bucket[j].count /\ bucket[j].count \in Nat
          /\ j = key => bucket'[j] = b
      BY <1>0, <2>1, <2>2, <2>3 DEF LimiterTypeOK
    <3>3. UnderWay(j)' \subseteq Workers
      BY DEF UnderWay
    <3>4. Cardinality(UnderWay(j)') \in Nat /\ Cardinality(UnderWay(j)') <= Cardinality(Workers)
      BY <3>3, LimiterAssumption, FS_Subset, FS_CardinalityType
    <3>5. CASE j = key /\ HasRoom(b)
      BY <3>2, <3>4, <3>5, UnderWayCount, LimitTypes DEF HasRoom
    <3>6. CASE j # key \/ ~HasRoom(b)
      <4>1. r.key # j \/ r.pc \notin {"examined", "failed"}
        BY <2>4, <3>6 DEF Free
      <4>2. Cardinality(UnderWay(j)') <= Cardinality(UnderWay(j))
        BY <2>4, <4>1, UnderWayStep
      <4> QED BY <3>2, <3>4, <4>2, NoFuller
    <3> QED BY <3>5, <3>6
  <2>7. FailuresBounded'
    BY <2>6 DEF FailuresBounded, Limit
  <2> QED BY <2>5, <2>7
<1>3. ASSUME NEW w \in Workers, Examine(w) PROVE LimiterInv'
  <2>1. worker[w].key \in Buckets
    BY <1>3 DEF Examine, LimiterTypeOK
  <2>2. PICK r : /\ worker' = [worker EXCEPT ![w] = r]
                 /\ r = Free \/ r = [pc |-> "failed", key |-> worker[w].key, now |-> time]
    BY <1>3 DEF Examine, Become
  <2>3. LimiterTypeOK'
    BY <1>3, <2>1, <2>2 DEF Examine, LimiterTypeOK, Free
  <2>4. ASSUME NEW j \in Buckets
        PROVE /\ bucket'[j] = bucket[j] /\ Cardinality(UnderWay(j)') \in Nat
              /\ Cardinality(UnderWay(j)') <= Cardinality(UnderWay(j))
    <3>1. r.key # j \/ r.pc \notin {"examined", "failed"} \/ w \in UnderWay(j)
      BY <1>3, <2>2 DEF Free, UnderWay, Examine
    <3> QED BY <1>3, <2>2, <3>1, UnderWayStep DEF Examine
  <2>5. FailuresBounded'
    BY <1>0, <2>4, NoFuller DEF FailuresBounded, Limit
  <2> QED BY <2>3, <2>5
<1>4. ASSUME NEW w \in Workers, recordFailure(w) PROVE LimiterInv'
  <2> DEFINE key == worker[w].key
             b == Current(key, worker[w].now)
  <2>1. key \in Buckets /\ worker[w].now \in Int /\ w \in UnderWay(key)
    BY <1>4 DEF recordFailure, LimiterTypeOK, UnderWay
  <2>2. b \in [count : Nat, resetAt : Int] /\ b.count <= bucket[key].count
    BY <2>1, CurrentTypes
  <2>3. /\ bucket' = [bucket EXCEPT ![key] = [b EXCEPT !.count = @ + 1]] /\ time' = time
        /\ worker' = [worker EXCEPT ![w] = Free]
    BY <1>4 DEF recordFailure
  <2> HIDE DEF b, key
  <2>4. /\ [b EXCEPT !.count = @ + 1] \in [count : Nat, resetAt : Int]
        /\ [b EXCEPT !.count = @ + 1].count = b.count + 1
    BY <2>2
  <2>5. LimiterTypeOK'
    <3>1. Free \in [pc : {"free", "asks", "examined", "failed"}, key : Buckets \cup {"none"}, now : Int]
      BY DEF Free
    <3>2. Free.pc = "free"
      BY DEF Free
    <3> QED BY <2>1, <2>3, <2>4, <3>1, <3>2 DEF LimiterTypeOK
  <2>6. ASSUME NEW j \in Buckets
        PROVE bucket'[j].count + Cardinality(UnderWay(j)') < Limit.max + Cardinality(Workers)
    <3>1. bucket[j].count + Cardinality(UnderWay(j)) < Limit.max + Cardinality(Workers)
      BY DEF FailuresBounded
    <3>2. Free.pc = "free"
      BY DEF Free
    <3>3. Cardinality(UnderWay(j)') \in Nat /\ Cardinality(UnderWay(j)') <= Cardinality(UnderWay(j))
      BY <2>3, <3>2, UnderWayStep
    <3>4. CASE j = key
      <4>1. Cardinality(UnderWay(j)') + 1 <= Cardinality(UnderWay(j))
        BY <2>1, <2>3, <3>2, <3>4, UnderWayStep
      <4>2. bucket'[j].count <= bucket[j].count + 1 /\ bucket'[j].count \in Nat
        BY <1>0, <2>1, <2>2, <2>3, <2>4, <3>4 DEF LimiterTypeOK
      <4> QED BY <1>0, <3>1, <3>3, <4>1, <4>2, UnderWayCount, LimitTypes
    <3>5. CASE j # key
      <4>1. bucket'[j] = bucket[j]
        BY <2>1, <2>3, <3>5 DEF LimiterTypeOK
      <4> QED BY <1>0, <3>1, <3>3, <4>1, UnderWayCount, LimitTypes
    <3> QED BY <3>4, <3>5
  <2>7. FailuresBounded'
    BY <2>6 DEF FailuresBounded, Limit
  <2> QED BY <2>5, <2>7
<1>5. CASE TimePasses
  BY <1>5 DEF TimePasses, LimiterTypeOK, FailuresBounded, UnderWay
<1>6. CASE UNCHANGED rvars
  BY <1>6 DEF rvars, LimiterTypeOK, FailuresBounded, UnderWay
<1> QED BY <1>1, <1>2, <1>3, <1>4, <1>5, <1>6 DEF LimiterNext

\* The two critical sections of the limiter (auth_ratelimit.go 50-81) let through
\* fewer failures than its limit and the requests served at once, for any number
\* of requests, any limit and any window.
THEOREM FailuresStayBounded == LimiterSpec => []FailuresBounded
<1>1. LimiterInv => FailuresBounded
  BY DEF LimiterInv
<1> QED BY LimiterInitial, LimiterStep, <1>1, PTL DEF LimiterSpec

------------------------------------------------------------------------------
(* DaemonControl: any number of processes and commands *)

\* The phases between acquireFileLock and the release at the process's end.
Holding == {"ready", "serving", "closing", "closed"}

\* With a persistence file configured, a process in these phases holds its lock,
\* and so only one is; the path is the serving one's because whoever removes or
\* takes it holds the lock too.
HostInv ==
  /\ DaemonTypeOK
  /\ mode.locked => \A p \in Procs : phase[p] \in Holding => lock = p
  /\ SocketReachesServer

\* The host starts without brokers.
LEMMA HostInitial == DaemonInit => HostInv
BY DEF DaemonInit, HostInv, DaemonTypeOK, Holding, Phases, SocketReachesServer

\* The commands move no broker from one phase to another and leave its lock and
\* its socket; a start adds a process that holds nothing yet.
LEMMA CommandStep ==
  ASSUME HostInv, DaemonTypeOK', mode' = mode, lock' = lock, sock' = sock,
         \A p \in Procs : phase'[p] = phase[p] \/ phase'[p] = "starting"
  PROVE  HostInv'
BY DEF HostInv, SocketReachesServer, Holding

\* A process that ends is in no phase that holds the lock.
LEMMA EndStep ==
  ASSUME HostInv, DaemonTypeOK', NEW p \in Procs \cup {NoProc}, Ends(p), UNCHANGED <<mode, sock>>
  PROVE  HostInv'
<1>1. phase' = [phase EXCEPT ![p] = "exited"] /\ lock' = IF lock = p THEN NoProc ELSE lock
  BY DEF Ends
<1>2. ASSUME NEW q \in Procs, phase'[q] \in Holding
      PROVE q # p /\ phase[q] = phase'[q]
  BY <1>1, <1>2 DEF HostInv, DaemonTypeOK, Holding
<1>3. mode.locked => \A q \in Procs : phase'[q] \in Holding => lock' = q
  BY <1>1, <1>2 DEF HostInv
<1>4. SocketReachesServer'
  BY <1>2 DEF HostInv, SocketReachesServer, Holding
<1> QED BY <1>3, <1>4 DEF HostInv

\* What ends is a process, and the rest keeps its types.
LEMMA EndTypes ==
  ASSUME DaemonTypeOK, NEW p \in Procs \cup {NoProc}, Ends(p),
         UNCHANGED <<mode, signalled, pidFile, sock>>,
         cli' = cli \/ \E c \in Clis : Goto(c, "done", NoProc)
  PROVE  DaemonTypeOK'
<1>1. /\ mode' \in Modes /\ phase' \in [Procs -> Phases] /\ signalled' \subseteq Procs
      /\ lock' \in Procs \cup {NoProc} /\ pidFile' \in Procs \cup {NoProc} /\ sock' \in Procs \cup {NoProc}
  BY DEF Ends, DaemonTypeOK, Phases
<1>2. cli' \in [Clis -> [pc : {"idle", "clear", "launch", "record", "probe", "await", "remove",
                               "done", "watching"}, pid : Procs \cup {NoProc}]]
  BY DEF DaemonTypeOK, Goto
<1> QED BY <1>1, <1>2 DEF DaemonTypeOK

\* A step of promptlockd within the phases that hold the lock, or into them.
LEMMA BrokerStep ==
  ASSUME HostInv, NEW p \in Procs, NEW s \in Holding,
         phase' = [phase EXCEPT ![p] = s], mode' = mode, lock' \in Procs \cup {NoProc},
         mode.locked => lock' = p /\ \A q \in Procs \ {p} : phase[q] \notin Holding,
         sock' \in Procs \cup {NoProc}, s = "serving" => sock' = p,
         UNCHANGED <<signalled, pidFile, cli>>
  PROVE  HostInv'
<1>1. DaemonTypeOK'
  BY DEF HostInv, DaemonTypeOK, Phases, Holding
<1>2. \A q \in Procs : phase'[q] = IF q = p THEN s ELSE phase[q]
  BY DEF HostInv, DaemonTypeOK
<1>3. mode.locked => \A q \in Procs : phase'[q] \in Holding => lock' = q
  BY <1>2
<1>4. SocketReachesServer'
  BY <1>2 DEF SocketReachesServer, Holding
<1> QED BY <1>1, <1>3, <1>4 DEF HostInv

\* Every step of a command, of a broker or of the system keeps it.
LEMMA HostStep == HostInv /\ [DaemonNext]_dvars => HostInv'
<1> SUFFICES ASSUME HostInv, [DaemonNext]_dvars PROVE HostInv'
  OBVIOUS
<1> USE DEF os, CliAt
<1>0. ASSUME NEW p \in Procs, phase[p] \in Holding, mode.locked
      PROVE lock = p /\ \A q \in Procs \ {p} : phase[q] \notin Holding
  BY <1>0 DEF HostInv
<1>1. ASSUME NEW c \in Clis, daemonStart(c) PROVE HostInv'
  <2>1. DaemonTypeOK'
    BY <1>1 DEF daemonStart, Goto, HostInv, DaemonTypeOK
  <2> QED BY <1>1, <2>1, CommandStep DEF daemonStart
<1>2. ASSUME NEW c \in Clis, RemoveStale(c) PROVE HostInv'
  <2>1. DaemonTypeOK'
    BY <1>2 DEF RemoveStale, Goto, HostInv, DaemonTypeOK
  <2> QED BY <1>2, <2>1, CommandStep DEF RemoveStale
<1>3. ASSUME NEW c \in Clis, Launch(c) PROVE HostInv'
  <2>1. CASE \E p \in Procs : /\ phase' = [phase EXCEPT ![p] = "starting"]
                              /\ Goto(c, "record", p)
    <3>1. DaemonTypeOK' /\ \A p \in Procs : phase'[p] = phase[p] \/ phase'[p] = "starting"
      BY <1>3, <2>1 DEF Launch, Goto, HostInv, DaemonTypeOK, Phases
    <3> QED BY <1>3, <3>1, CommandStep DEF Launch
  <2>2. CASE Goto(c, "done", NoProc) /\ UNCHANGED phase
    <3>1. DaemonTypeOK'
      BY <1>3, <2>2 DEF Launch, Goto, HostInv, DaemonTypeOK
    <3> QED BY <1>3, <2>2, <3>1, CommandStep DEF Launch
  <2> QED BY <1>3, <2>1, <2>2 DEF Launch
<1>4. ASSUME NEW c \in Clis, WritePidFile(c) PROVE HostInv'
  <2>1. DaemonTypeOK'
    BY <1>4 DEF WritePidFile, Goto, HostInv, DaemonTypeOK
  <2> QED BY <1>4, <2>1, CommandStep DEF WritePidFile
<1>5. ASSUME NEW c \in Clis, WritePidFails(c) PROVE HostInv'
  <2>1. cli[c].pid \in Procs \cup {NoProc}
    BY DEF HostInv, DaemonTypeOK
  <2>2. DaemonTypeOK'
    BY <1>5, <2>1, EndTypes DEF WritePidFails, HostInv
  <2> QED BY <1>5, <2>1, <2>2, EndStep DEF WritePidFails
<1>6. ASSUME NEW c \in Clis, waitForWatchBrokerReady(c) PROVE HostInv'
  <2>1. DaemonTypeOK'
    BY <1>6 DEF waitForWatchBrokerReady, Goto, HostInv, DaemonTypeOK
  <2> QED BY <1>6, <2>1, CommandStep DEF waitForWatchBrokerReady
<1>7. ASSUME NEW c \in Clis, daemonStop(c) PROVE HostInv'
  <2>1. DaemonTypeOK'
    BY <1>7 DEF daemonStop, processAlive, Goto, HostInv, DaemonTypeOK
  <2> QED BY <1>7, <2>1, CommandStep DEF daemonStop
<1>8. ASSUME NEW c \in Clis, AwaitExit(c) PROVE HostInv'
  <2>1. DaemonTypeOK'
    BY <1>8 DEF AwaitExit, Goto, HostInv, DaemonTypeOK
  <2> QED BY <1>8, <2>1, CommandStep DEF AwaitExit
<1>9. ASSUME NEW c \in Clis, RemovePidFile(c) PROVE HostInv'
  <2>1. DaemonTypeOK'
    BY <1>9 DEF RemovePidFile, Goto, HostInv, DaemonTypeOK
  <2> QED BY <1>9, <2>1, CommandStep DEF RemovePidFile
<1>10. ASSUME NEW p \in Procs, acquireFileLock(p) PROVE HostInv'
  <2>1. CASE mode.locked /\ lock # NoProc
    BY <1>10, <2>1, EndTypes, EndStep DEF acquireFileLock, HostInv
  <2>2. CASE ~(mode.locked /\ lock # NoProc)
    <3>1. /\ phase' = [phase EXCEPT ![p] = "ready"]
          /\ lock' = IF mode.locked THEN p ELSE lock
          /\ UNCHANGED <<mode, signalled, pidFile, sock, cli>>
      BY <1>10, <2>2 DEF acquireFileLock
    <3>2. mode.locked => \A q \in Procs : phase[q] \notin Holding
      BY <2>2, DaemonAssumption DEF HostInv
    <3>3. lock' \in Procs \cup {NoProc} /\ sock' \in Procs \cup {NoProc}
      BY <3>1 DEF HostInv, DaemonTypeOK
    <3>4. "ready" \in Holding /\ "ready" # "serving"
      BY DEF Holding
    <3> QED BY <3>1, <3>2, <3>3, <3>4, BrokerStep
  <2> QED BY <2>1, <2>2
<1>11. ASSUME NEW p \in Procs, Listen(p) PROVE HostInv'
  <2>1. "ready" \in Holding /\ "serving" \in Holding
    BY DEF Holding
  <2>2. lock \in Procs \cup {NoProc}
    BY DEF HostInv, DaemonTypeOK
  <2> QED BY <1>0, <1>11, <2>1, <2>2, BrokerStep DEF Listen
<1>12. ASSUME NEW p \in Procs, Shutdown(p) PROVE HostInv'
  <2>1. "serving" \in Holding /\ "closing" \in Holding /\ "closing" # "serving"
    BY DEF Holding
  <2>2. lock \in Procs \cup {NoProc}
    BY DEF HostInv, DaemonTypeOK
  <2> QED BY <1>0, <1>12, <2>1, <2>2, BrokerStep DEF Shutdown
<1>13. ASSUME NEW p \in Procs, Cleanup(p) PROVE HostInv'
  <2>1. "closed" \in Holding /\ "closing" \in Holding /\ "closed" # "serving"
    BY DEF Holding
  <2>2. lock \in Procs \cup {NoProc}
    BY DEF HostInv, DaemonTypeOK
  <2> QED BY <1>0, <1>13, <2>1, <2>2, BrokerStep DEF Cleanup
<1>14. ASSUME NEW p \in Procs, Exit(p) PROVE HostInv'
  BY <1>14, EndTypes, EndStep DEF Exit, HostInv
<1>15. ASSUME NEW p \in Procs, Dies(p) PROVE HostInv'
  BY <1>15, EndTypes, EndStep DEF Dies, HostInv
<1>16. CASE UNCHANGED dvars
  BY <1>16 DEF dvars, HostInv, DaemonTypeOK, SocketReachesServer
<1> QED
  BY <1>1, <1>2, <1>3, <1>4, <1>5, <1>6, <1>7, <1>8, <1>9, <1>10, <1>11, <1>12,
     <1>13, <1>14, <1>15, <1>16 DEF DaemonNext

\* So it holds in every reachable state.
LEMMA HostInvariant == DaemonSpec => []HostInv
BY HostInitial, HostStep, PTL DEF DaemonSpec

\* Brokers of one instance never share its state file, however many are started,
\* by commands that overlap or not, and wherever they are killed
\* (acquireFileLock, and the locks given back by the end of the process).
THEOREM WritersExclusive == DaemonSpec => []OneWriter
<1>1. HostInv => OneWriter
  BY DEF HostInv, OneWriter, Holding
<1> QED BY <1>1, HostInvariant, PTL

\* The socket path leads to the broker that serves, in spite of the removals by
\* name when a broker starts and in the two steps of its end: their order and the
\* release of the locks after them keep it (runtime.go 88-105).
THEOREM SocketsReach == DaemonSpec => []SocketReachesServer
<1>1. HostInv => SocketReachesServer
  BY DEF HostInv
<1> QED BY <1>1, HostInvariant, PTL

-----------------------------------------------------------------------------
\* Commands given one after the other: besides the daemon a command is about to
\* record, only the recorded one lives.
Living == {p \in Procs : phase[p] \notin {"unused", "exited"}}

SoloInv ==
  /\ DaemonTypeOK
  /\ ~mode.overlap =>
       /\ \A c, d \in Clis : ~CliIdle(c) /\ ~CliIdle(d) => c = d
       /\ \A c \in Clis :
            /\ cli[c].pc \in {"clear", "launch", "remove"} => Living = {}
            /\ CliAt(c, "record") => Living \subseteq {cli[c].pid}
            /\ CliAt(c, "await") => cli[c].pid = pidFile
       /\ (\A c \in Clis : ~CliAt(c, "record")) => Living \subseteq {pidFile}

\* The host starts without daemons and commands.
LEMMA SoloInitial == DaemonInit => SoloInv
BY HostInitial DEF DaemonInit, SoloInv, HostInv, Living, CliIdle, CliAt

\* What has to be shown of the step of a command, the only one under way.
LEMMA SoloCommand ==
  ASSUME SoloInv, DaemonTypeOK', mode' = mode, NEW c \in Clis, NEW pc, NEW p, Goto(c, pc, p),
         ~mode.overlap =>
           /\ \A d \in Clis : d # c => CliIdle(d)
           /\ pc \in {"clear", "launch", "remove"} => Living' = {}
           /\ pc = "record" => Living' \subseteq {p}
           /\ pc = "await" => p = pidFile'
           /\ pc # "record" => Living' \subseteq {pidFile'}
  PROVE  SoloInv'
<1>1. \A d \in Clis : cli'[d] = IF d = c THEN [pc |-> pc, pid |-> p] ELSE cli[d]
  BY DEF Goto, SoloInv, DaemonTypeOK
<1> SUFFICES ASSUME ~mode.overlap
             PROVE  /\ \A d, e \in Clis : ~CliIdle(d)' /\ ~CliIdle(e)' => d = e
                    /\ \A d \in Clis :
                         /\ cli'[d].pc \in {"clear", "launch", "remove"} => Living' = {}
                         /\ CliAt(d, "record")' => Living' \subseteq {cli'[d].pid}
                         /\ CliAt(d, "await")' => cli'[d].pid = pidFile'
                    /\ (\A d \in Clis : ~CliAt(d, "record")') => Living' \subseteq {pidFile'}
  BY DEF SoloInv
<1>2. \A d \in Clis : d # c => cli'[d].pc \in {"idle", "done", "watching"}
  BY <1>1 DEF CliIdle
<1>3. cli'[c].pc = pc /\ cli'[c].pid = p
  BY <1>1
<1> QED BY <1>2, <1>3 DEF CliIdle, CliAt

\* A step of a daemon, or its end, adds no living process.
LEMMA SoloDaemon ==
  ASSUME SoloInv, DaemonTypeOK', UNCHANGED <<mode, cli, pidFile>>, Living' \subseteq Living
  PROVE  SoloInv'
BY DEF SoloInv, CliIdle, CliAt

\* Every step of a command, a daemon or the system keeps it.
LEMMA SoloStep == HostInv /\ HostInv' /\ SoloInv /\ [DaemonNext]_dvars => SoloInv'
<1> SUFFICES ASSUME HostInv, HostInv', SoloInv, [DaemonNext]_dvars PROVE SoloInv'
  OBVIOUS
<1> USE DEF os
<1>0. DaemonTypeOK /\ DaemonTypeOK'
  BY DEF HostInv
<1>1. ASSUME NEW c \in Clis, MayBegin(c), ~mode.overlap
      PROVE  (\A d \in Clis : CliIdle(d)) /\ Living \subseteq {pidFile}
             /\ (~processAlive(pidFile) => Living = {})
  <2>1. \A d \in Clis : CliIdle(d) /\ ~CliAt(d, "record")
    BY <1>1 DEF MayBegin, CliIdle, CliAt
  <2>2. Living \subseteq {pidFile}
    BY <1>1, <2>1 DEF SoloInv
  <2>3. \A p \in Living : p # NoProc /\ processAlive(p)
    BY DaemonAssumption DEF Living, processAlive
  <2> QED BY <2>1, <2>2, <2>3
<1>2. ASSUME NEW c \in Clis, ~CliIdle(c), ~mode.overlap
      PROVE  /\ \A d \in Clis : d # c => CliIdle(d) /\ ~CliAt(d, "record")
             /\ CliAt(c, "record") \/ Living \subseteq {pidFile}
  <2>1. \A d \in Clis : d # c => CliIdle(d)
    BY <1>2 DEF SoloInv
  <2>2. \A d \in Clis : d # c => ~CliAt(d, "record")
    BY <2>1 DEF CliIdle, CliAt
  <2> QED BY <1>2, <2>1, <2>2 DEF SoloInv
<1>3. ASSUME NEW c \in Clis, daemonStart(c) PROVE SoloInv'
  <2>1. UNCHANGED <<mode, phase, pidFile>> /\ Living' = Living
    BY <1>3 DEF daemonStart, Living
  <2>2. CASE processAlive(pidFile)
    BY <1>0, <1>1, <1>3, <2>1, <2>2, SoloCommand DEF daemonStart
  <2>3. CASE ~processAlive(pidFile)
    BY <1>0, <1>1, <1>3, <2>1, <2>3, SoloCommand DEF daemonStart
  <2> QED BY <2>2, <2>3
<1>4. ASSUME NEW c \in Clis, RemoveStale(c) PROVE SoloInv'
  <2>1. UNCHANGED <<mode, phase>> /\ Living' = Living /\ ~CliIdle(c) /\ cli[c].pc = "clear"
    BY <1>4 DEF RemoveStale, Living, CliAt, CliIdle
  <2> QED BY <1>0, <1>2, <1>4, <2>1, SoloCommand DEF RemoveStale, SoloInv
<1>5. ASSUME NEW c \in Clis, Launch(c) PROVE SoloInv'
  <2>1. mode' = mode /\ ~CliIdle(c) /\ cli[c].pc = "launch" /\ pidFile' = pidFile
    BY <1>5 DEF Launch, CliAt, CliIdle
  <2>2. ASSUME NEW p \in Procs, phase' = [phase EXCEPT ![p] = "starting"], Goto(c, "record", p)
        PROVE  SoloInv'
    <3>1. Living' \subseteq Living \cup {p}
      BY <1>0, <2>2 DEF Living, DaemonTypeOK
    <3> QED BY <1>0, <1>2, <2>1, <2>2, <3>1, SoloCommand DEF SoloInv
  <2>3. CASE Goto(c, "done", NoProc) /\ UNCHANGED phase
    <3>1. Living' = Living
      BY <2>3 DEF Living
    <3> QED BY <1>0, <1>2, <2>1, <2>3, <3>1, SoloCommand DEF SoloInv
  <2> QED BY <1>5, <2>2, <2>3 DEF Launch
<1>6. ASSUME NEW c \in Clis, WritePidFile(c) PROVE SoloInv'
  <2>1. /\ UNCHANGED <<mode, phase>> /\ Living' = Living /\ ~CliIdle(c) /\ CliAt(c, "record")
        /\ pidFile' = cli[c].pid
    BY <1>6 DEF WritePidFile, Living, CliAt, CliIdle
  <2> QED BY <1>0, <1>2, <1>6, <2>1, SoloCommand DEF WritePidFile, SoloInv
<1>7. ASSUME NEW c \in Clis, WritePidFails(c) PROVE SoloInv'
  <2>1. mode' = mode /\ ~CliIdle(c) /\ CliAt(c, "record") /\ pidFile' = pidFile
    BY <1>7 DEF WritePidFails, CliAt, CliIdle
  <2>2. Living' \subseteq Living \ {cli[c].pid}
    BY <1>0, <1>7 DEF WritePidFails, Ends, Living, DaemonTypeOK
  <2>3. ~mode.overlap => Living' = {}
    BY <2>1, <2>2 DEF SoloInv
  <2> QED BY <1>0, <1>2, <1>7, <2>1, <2>3, SoloCommand DEF WritePidFails
<1>8. ASSUME NEW c \in Clis, waitForWatchBrokerReady(c) PROVE SoloInv'
  <2>1. /\ UNCHANGED <<mode, phase, pidFile>> /\ Living' = Living /\ ~CliIdle(c) /\ ~CliAt(c, "record")
        /\ \E pc \in {"watching", "done"} : Goto(c, pc, NoProc)
    BY <1>8 DEF waitForWatchBrokerReady, Living, CliAt, CliIdle
  <2> QED BY <1>0, <1>2, <2>1, SoloCommand
<1>9. ASSUME NEW c \in Clis, daemonStop(c) PROVE SoloInv'
  <2>1. UNCHANGED <<mode, phase, pidFile>> /\ Living' = Living
    BY <1>9 DEF daemonStop, Living
  <2>2. CASE Goto(c, "done", NoProc)
    BY <1>0, <1>1, <1>9, <2>1, <2>2, SoloCommand DEF daemonStop
  <2>3. CASE ~processAlive(pidFile) /\ Goto(c, "remove", pidFile)
    BY <1>0, <1>1, <1>9, <2>1, <2>3, SoloCommand DEF daemonStop
  <2>4. CASE Goto(c, "await", pidFile)
    BY <1>0, <1>1, <1>9, <2>1, <2>4, SoloCommand DEF daemonStop
  <2> QED BY <1>9, <2>2, <2>3, <2>4 DEF daemonStop
<1>10. ASSUME NEW c \in Clis, AwaitExit(c) PROVE SoloInv'
  <2>1. UNCHANGED <<mode, phase, pidFile>> /\ Living' = Living /\ ~CliIdle(c) /\ CliAt(c, "await")
        /\ ~CliAt(c, "record")
    BY <1>10 DEF AwaitExit, Living, CliAt, CliIdle
  <2>2. CASE ~processAlive(cli[c].pid) /\ Goto(c, "remove", cli[c].pid)
    <3>1. ~mode.overlap => Living = {}
      <4>1. \A p \in Living : p # NoProc /\ processAlive(p)
        BY DaemonAssumption DEF Living, processAlive
      <4> QED BY <1>2, <2>1, <2>2, <4>1 DEF SoloInv
    <3> QED BY <1>0, <1>2, <2>1, <2>2, <3>1, SoloCommand
  <2>3. CASE Goto(c, "done", NoProc)
    BY <1>0, <1>2, <2>1, <2>3, SoloCommand
  <2> QED BY <1>10, <2>2, <2>3 DEF AwaitExit
<1>11. ASSUME NEW c \in Clis, RemovePidFile(c) PROVE SoloInv'
  <2>1. UNCHANGED <<mode, phase>> /\ Living' = Living /\ ~CliIdle(c) /\ cli[c].pc = "remove"
    BY <1>11 DEF RemovePidFile, Living, CliAt, CliIdle
  <2> QED BY <1>0, <1>2, <1>11, <2>1, SoloCommand DEF RemovePidFile, SoloInv
<1>12. ASSUME NEW p \in Procs,
              acquireFileLock(p) \/ Listen(p) \/ Shutdown(p) \/ Cleanup(p) \/ Exit(p) \/ Dies(p)
       PROVE  SoloInv'
  <2>1. /\ UNCHANGED <<mode, cli, pidFile>> /\ phase[p] \notin {"unused", "exited"}
        /\ \E s : phase' = [phase EXCEPT ![p] = s]
    BY <1>12 DEF acquireFileLock, Listen, Shutdown, Cleanup, Exit, Dies, Ends, processAlive
  <2>2. Living' \subseteq Living
    BY <1>0, <2>1 DEF Living, DaemonTypeOK
  <2> QED BY <1>0, <2>1, <2>2, SoloDaemon
<1>13. CASE UNCHANGED dvars
  BY <1>0, <1>13, SoloDaemon DEF dvars, Living
<1> QED BY <1>3, <1>4, <1>5, <1>6, <1>7, <1>8, <1>9, <1>10, <1>11, <1>12, <1>13 DEF DaemonNext

\* Commands given one after the other never lose a broker: one that serves is
\* the one daemon stop would find, whenever it dies and wherever a command
\* fails (daemonStart removes a stale pid file before it launches, and a daemon
\* whose pid cannot be written is killed).
THEOREM BrokerRecorded == DaemonSpec => []RecordedWhenSolo
<1> DEFINE RecordInv == HostInv /\ SoloInv
<1>1. DaemonInit => RecordInv
  BY HostInitial, SoloInitial
<1>2. RecordInv /\ [DaemonNext]_dvars => RecordInv'
  BY HostStep, SoloStep
<1>3. RecordInv => RecordedWhenSolo
  <2> SUFFICES ASSUME SoloInv, ~mode.overlap, \A c \in Clis : CliIdle(c),
                      NEW p \in Procs, phase[p] = "serving"
               PROVE  pidFile = p
    BY DEF RecordedWhenSolo, SoloInv
  <2>1. \A c \in Clis : ~CliAt(c, "record")
    BY DEF CliIdle, CliAt
  <2>2. p \in Living
    BY DEF Living
  <2> QED BY <2>1, <2>2 DEF SoloInv
<1> QED BY <1>1, <1>2, <1>3, PTL DEF DaemonSpec

------------------------------------------------------------------------------
(* ExternalState: one mutation at a time, each write a call that may fail *)

Statuses == {"none", "pending", "approved", "denied"}
Kinds    == {"request", "approve", "deny", "cancel"}
Writes   == [on : {"request"}, key : RemoteIds, to : Statuses]
            \cup [on : {"lease"}, key : RemoteTokens, to : RemoteIds \cup {NoLeaseOf}]
Calls    == [kind : Kinds, req : RemoteIds, tok : RemoteTokens \cup {0},
             pc : {"request", "lease", "audit", "undo"}, undo : Seq(Writes)]

RemoteTypes ==
  /\ stored \in [request : [RemoteIds -> Statuses], lease : [RemoteTokens -> RemoteIds \cup {NoLeaseOf}]]
  /\ call \in Calls \cup {NoCallRuns}
  /\ delayed \subseteq Writes
  /\ answered \subseteq [kind : Kinds, req : RemoteIds, tok : RemoteTokens \cup {0}]
  /\ made \in [requests : 0..MaxRemoteRequests, leases : 0..MaxRemoteLeases]
  /\ troubles \in [failed : Nat, lost : Nat, stops : Nat]

\* Nothing names a request or a lease that was not made.
MadeInv ==
  /\ \A r \in RemoteIds : r > made.requests => stored.request[r] = "none"
  /\ \A t \in RemoteTokens : t > made.leases => stored.lease[t] = NoLeaseOf
  /\ \A w \in delayed : w.key <= IF w.on = "request" THEN made.requests ELSE made.leases
  /\ \A a \in answered : a.req <= made.requests /\ a.tok <= made.leases
  /\ call.req <= made.requests /\ call.tok <= made.leases

Target(kind) == IF kind = "request" THEN "pending" ELSE DecisionOf(kind)
Back(kind)   == IF kind = "request" THEN "none" ELSE "pending"
UndoRequest  == <<PutRequest(call.req, Back(call.kind))>>
UndoAll      == IF call.kind = "approve" THEN <<PutLease(call.tok, NoLeaseOf), PutRequest(call.req, Back(call.kind))>>
                ELSE UndoRequest

\* What a mutation has still to undo.
ShapeInv == call # NoCallRuns =>
  /\ call.kind = "approve" <=> call.tok # 0
  /\ call.pc = "request" => call.undo = <<>>
  /\ call.pc = "lease" => call.kind = "approve" /\ call.undo = UndoRequest
  /\ call.pc = "audit" => call.undo = UndoAll
  /\ call.pc = "undo" => call.undo \in {UndoRequest, UndoAll}

\* The mutation that runs, and writes that may still arrive, work on no request
\* and no lease that an answer has named.
AnswerInv ==
  /\ call # NoCallRuns => \A a \in answered :
       /\ call.kind = "request" => a.req # call.req
       /\ a.kind # "request" /\ a.req \notin overtaken => a.req # call.req
       /\ a.kind = "approve" => a.tok # call.tok
  /\ \A a \in answered : a.kind = "approve" => a.tok # 0
  /\ \A w \in delayed : w.on = "lease" =>
       /\ \A a \in answered : a.kind = "approve" => w.key # a.tok
       /\ call.pc # "undo" => w.key # call.tok
  /\ call.pc \in {"lease", "audit"} /\ call.req \notin overtaken => stored.request[call.req] = Target(call.kind)
  /\ call.pc = "audit" /\ call.kind = "approve" => stored.lease[call.tok] = call.req

NoLeaseFor(r) == \A t \in RemoteTokens : stored.lease[t] # r
OneLeaseFor(r) == \E t \in RemoteTokens : \A u \in RemoteTokens : stored.lease[u] = r <=> u = t
Clean == troubles.lost = 0 /\ troubles.stops = 0 /\ troubles.failed < 2

\* An approval between its two writes, or between their undoing.
Halfway == call.kind = "approve" /\ (call.pc = "lease" \/ (call.pc = "undo" /\ call.undo = UndoRequest))

\* While nothing but one refusal went wrong, the service has what the call that
\* runs has written and not undone, and leases exactly for the other approvals.
CleanInv == Clean =>
  /\ delayed = {} /\ overtaken = {}
  /\ \A r \in RemoteIds :
       /\ stored.request[r] # "approved" => NoLeaseFor(r)
       /\ stored.request[r] = "approved" =>
            IF Halfway /\ call.req = r THEN NoLeaseFor(r) ELSE OneLeaseFor(r)
  /\ call.pc = "undo" => troubles.failed = 1
  /\ call.pc = "request" => stored.request[call.req] = Back(call.kind)
  /\ call.pc \in {"lease", "audit", "undo"} => stored.request[call.req] = Target(call.kind)
  /\ call.pc \in {"request", "lease"} /\ call.kind = "approve" => stored.lease[call.tok] = NoLeaseOf
  /\ call.pc = "undo" /\ call.kind = "approve" /\ ~Halfway => stored.lease[call.tok] = call.req

ExternalInv == RemoteTypes /\ MadeInv /\ ShapeInv /\ AnswerInv /\ AnsweredIsStored /\ CleanInv

\* The two kinds of writes, and what they change.
LEMMA PutTypes ==
  /\ \A r \in RemoteIds, s \in Statuses : PutRequest(r, s) \in Writes
  /\ \A t \in RemoteTokens, r \in RemoteIds \cup {NoLeaseOf} : PutLease(t, r) \in Writes
BY DEF PutRequest, PutLease, Writes

\* A write changes the request or the lease it names, and nothing else.
LEMMA ApplyWrites ==
  ASSUME RemoteTypes, NEW w \in Writes
  PROVE  /\ Apply(w) \in [request : [RemoteIds -> Statuses], lease : [RemoteTokens -> RemoteIds \cup {NoLeaseOf}]]
         /\ w.on = "request" => /\ w.key \in RemoteIds /\ w.to \in Statuses
                                /\ Apply(w).lease = stored.lease
                                /\ Apply(w).request[w.key] = w.to
                                /\ \A r \in RemoteIds : r # w.key => Apply(w).request[r] = stored.request[r]
         /\ w.on = "lease" => /\ w.key \in RemoteTokens /\ w.to \in RemoteIds \cup {NoLeaseOf}
                              /\ Apply(w).request = stored.request
                              /\ Apply(w).lease[w.key] = w.to
                              /\ \A t \in RemoteTokens : t # w.key => Apply(w).lease[t] = stored.lease[t]
<1>1. CASE w.on = "request"
  <2>1. w.key \in RemoteIds /\ w.to \in Statuses
    BY <1>1 DEF Writes
  <2> QED BY <1>1, <2>1 DEF Apply, RemoteTypes
<1>2. CASE w.on = "lease"
  <2>1. w.key \in RemoteTokens /\ w.to \in RemoteIds \cup {NoLeaseOf}
    BY <1>2 DEF Writes
  <2> QED BY <1>2, <2>1 DEF Apply, RemoteTypes
<1> QED BY <1>1, <1>2 DEF Writes

\* A mutation that runs, in the types it has.
LEMMA CallTypes ==
  ASSUME ExternalInv, call # NoCallRuns
  PROVE  /\ call \in Calls /\ call.kind \in Kinds /\ call.req \in RemoteIds /\ call.tok \in RemoteTokens \cup {0}
         /\ call.undo \in Seq(Writes) /\ call.req # 0
         /\ Target(call.kind) \in Statuses /\ Back(call.kind) \in Statuses
         /\ Back(call.kind) # "approved" /\ (Target(call.kind) = "approved" <=> call.kind = "approve")
         /\ Target(call.kind) # "none"
<1>1. call \in Calls
  BY DEF ExternalInv, RemoteTypes
<1> QED BY <1>1 DEF Calls, Kinds, Target, Back, DecisionOf, Statuses, RemoteIds

\* No mutation runs: no request and no lease.
LEMMA NoCallTypes == NoCallRuns.pc = "none" /\ NoCallRuns.req = 0 /\ NoCallRuns.tok = 0 /\ NoCallRuns.kind = "none"
BY DEF NoCallRuns

\* What a call to the service may come to: the write is there or not, and while
\* nothing but one refusal went wrong, exactly one of two things happened.
LEMMA SendOutcomes ==
  ASSUME RemoteTypes, NEW w \in Writes, NEW done, NEW failed, send(w, done, failed)
  PROVE  /\ stored' \in {stored, Apply(w)}
         /\ call' \in {done, failed}
         /\ call' = failed \/ stored' = Apply(w)
         /\ delayed' \in {delayed, delayed \cup {w}}
         /\ troubles' \in [failed : Nat, lost : Nat, stops : Nat]
         /\ Clean' => /\ Clean /\ delayed' = delayed
                      /\ \/ stored' = Apply(w) /\ call' = done /\ troubles' = troubles
                         \/ stored' = stored /\ call' = failed /\ troubles.failed = 0 /\ troubles'.failed = 1
<1> troubles \in [failed : Nat, lost : Nat, stops : Nat]
  BY DEF RemoteTypes
<1>1. CASE stored' = Apply(w) /\ call' = done /\ UNCHANGED <<delayed, troubles>>
  BY <1>1 DEF Clean
<1>2. CASE Trouble("failed") /\ call' = failed /\ UNCHANGED <<stored, delayed>>
  BY <1>2 DEF Clean, Trouble
<1>3. CASE Trouble("lost") /\ call' = failed /\ stored' = Apply(w) /\ UNCHANGED delayed
  BY <1>3 DEF Clean, Trouble
<1>4. CASE Trouble("lost") /\ call' = failed /\ delayed' = delayed \cup {w} /\ UNCHANGED stored
  BY <1>4 DEF Clean, Trouble
<1> QED BY <1>1, <1>2, <1>3, <1>4 DEF send

\* The first states: nothing stored, nothing running.
LEMMA ExternalStarts == ExternalInit => ExternalInv
<1> SUFFICES ASSUME ExternalInit PROVE ExternalInv
  OBVIOUS
<1> USE DEF ExternalInit
<1>1. RemoteTypes
  BY ExternalAssumption DEF RemoteTypes, Statuses
<1>2. MadeInv
  BY ExternalAssumption DEF MadeInv, NoCallRuns
<1>3. ShapeInv /\ AnsweredIsStored
  BY DEF ShapeInv, AnsweredIsStored
<1>4. AnswerInv
  BY DEF AnswerInv, NoCallRuns
<1>5. CleanInv
  BY DEF CleanInv, NoLeaseFor, Halfway, NoCallRuns, NoLeaseOf, RemoteIds
<1> QED BY <1>1, <1>2, <1>3, <1>4, <1>5 DEF ExternalInv

\* Restart: the call is gone and a stop is on record, so nothing is said to be clean.
LEMMA RestartKeeps == ASSUME ExternalInv, Restart PROVE ExternalInv'
<1> call' = NoCallRuns /\ UNCHANGED <<stored, delayed, answered, overtaken, made>>
  BY DEF Restart
<1> troubles \in [failed : Nat, lost : Nat, stops : Nat]
  BY DEF ExternalInv, RemoteTypes
<1>1. troubles' \in [failed : Nat, lost : Nat, stops : Nat] /\ ~Clean'
  BY DEF Restart, Trouble, Clean
<1>2. RemoteTypes'
  BY <1>1 DEF ExternalInv, RemoteTypes
<1>3. MadeInv'
  BY ExternalAssumption DEF ExternalInv, MadeInv, NoCallRuns, RemoteTypes
<1>4. ShapeInv' /\ CleanInv'
  BY <1>1 DEF ShapeInv, CleanInv
<1>5. AnswerInv'
  BY DEF ExternalInv, AnswerInv, NoCallRuns, RemoteTypes, Writes, RemoteTokens
<1>6. AnsweredIsStored'
  BY DEF ExternalInv, AnsweredIsStored
<1> QED BY <1>2, <1>3, <1>4, <1>5, <1>6 DEF ExternalInv

\* Arrives: the request it reaches is overtaken, its lease is no answered one's.
LEMMA ArrivesKeeps == ASSUME ExternalInv, Arrives PROVE ExternalInv'
<1> UNCHANGED <<call, remoteGate, answered, made, troubles>>
  BY DEF Arrives
<1>1. PICK w \in delayed :
    /\ stored' = Apply(w) /\ delayed' = delayed \ {w}
    /\ overtaken' = overtaken \cup {IF w.on = "request" THEN w.key
                                    ELSE IF w.to = NoLeaseOf THEN stored.lease[w.key] ELSE w.to}
  BY DEF Arrives
<1>t. RemoteTypes /\ w \in Writes
  BY DEF ExternalInv, RemoteTypes
<1>w. /\ Apply(w) \in [request : [RemoteIds -> Statuses], lease : [RemoteTokens -> RemoteIds \cup {NoLeaseOf}]]
      /\ w.on = "request" => /\ w.key \in RemoteIds /\ w.to \in Statuses
                             /\ Apply(w).lease = stored.lease
                             /\ Apply(w).request[w.key] = w.to
                             /\ \A r \in RemoteIds : r # w.key => Apply(w).request[r] = stored.request[r]
      /\ w.on = "lease" => /\ w.key \in RemoteTokens /\ w.to \in RemoteIds \cup {NoLeaseOf}
                           /\ Apply(w).request = stored.request
                           /\ Apply(w).lease[w.key] = w.to
                           /\ \A t \in RemoteTokens : t # w.key => Apply(w).lease[t] = stored.lease[t]
  BY <1>t, ApplyWrites
<1>o. w.on \in {"request", "lease"}
  BY <1>t DEF Writes
<1>c. ~Clean
  BY <1>1 DEF ExternalInv, CleanInv
<1>2. RemoteTypes'
  BY <1>1, <1>t, <1>w DEF RemoteTypes
<1>3. MadeInv'
  <2>k. w.key <= IF w.on = "request" THEN made.requests ELSE made.leases
    BY DEF ExternalInv, MadeInv
  <2>m. made.requests \in Nat /\ made.leases \in Nat
    BY <1>t, ExternalAssumption DEF RemoteTypes
  <2>1. \A r \in RemoteIds : r > made'.requests => stored'.request[r] = "none"
    BY <1>1, <1>w, <1>o, <2>k, <2>m DEF ExternalInv, MadeInv, RemoteIds
  <2>2. \A t \in RemoteTokens : t > made'.leases => stored'.lease[t] = NoLeaseOf
    BY <1>1, <1>w, <1>o, <2>k, <2>m DEF ExternalInv, MadeInv, RemoteTokens
  <2> QED BY <1>1, <2>1, <2>2 DEF ExternalInv, MadeInv
<1>4. ShapeInv' /\ CleanInv'
  <2>1. Clean' <=> Clean
    BY DEF Clean
  <2>2. ShapeInv'
    BY DEF ExternalInv, ShapeInv, UndoAll, UndoRequest
  <2> QED BY <1>c, <2>1, <2>2 DEF CleanInv
<1>5. AnswerInv'
  <2> DEFINE k == call.kind
  <2>1. call # NoCallRuns => call.req \in RemoteIds /\ call.tok \in RemoteTokens \cup {0}
    BY CallTypes
  <2>2. (call.pc \in {"lease", "audit"} /\ call.req \notin overtaken' => stored'.request[call.req] = Target(call.kind))
    <3> SUFFICES ASSUME call.pc \in {"lease", "audit"}, call.req \notin overtaken'
                 PROVE  stored'.request[call.req] = Target(call.kind)
      OBVIOUS
    <3>1. call.req \notin overtaken /\ (w.on = "request" => w.key # call.req)
      BY <1>1
    <3>2. call.req \in RemoteIds
      BY <2>1, NoCallTypes
    <3> QED BY <3>1, <3>2, <1>1, <1>w, <1>o DEF ExternalInv, AnswerInv
  <2>3. (call.pc = "audit" /\ call.kind = "approve" => stored'.lease[call.tok] = call.req)
    <3> SUFFICES ASSUME call.pc = "audit", call.kind = "approve" PROVE stored'.lease[call.tok] = call.req
      OBVIOUS
    <3>1. stored.lease[call.tok] = call.req /\ (w.on = "lease" => w.key # call.tok)
      BY <1>1 DEF ExternalInv, AnswerInv
    <3>2. call.tok \in RemoteTokens
      BY <2>1, NoCallTypes DEF ExternalInv, ShapeInv
    <3> QED BY <3>1, <3>2, <1>1, <1>w, <1>o
  <2> QED BY <1>1, <2>2, <2>3 DEF ExternalInv, AnswerInv, Target, DecisionOf
<1>6. AnsweredIsStored'
  <2> SUFFICES ASSUME NEW a \in answered, a.req \notin overtaken'
               PROVE  /\ a.kind = "request" => stored'.request[a.req] # "none"
                      /\ a.kind # "request" => stored'.request[a.req] = DecisionOf(a.kind)
                      /\ a.kind = "approve" => stored'.lease[a.tok] = a.req
    BY DEF AnsweredIsStored
  <2>1. a.req \in RemoteIds /\ a.tok \in RemoteTokens \cup {0}
    BY <1>t DEF RemoteTypes
  <2>2. a.req \notin overtaken /\ (w.on = "request" => w.key # a.req)
    BY <1>1
  <2>3. a.kind = "approve" => a.tok # 0 /\ (w.on = "lease" => w.key # a.tok)
    BY <1>1 DEF ExternalInv, AnswerInv
  <2>4. stored'.request[a.req] = stored.request[a.req]
    BY <2>1, <2>2, <1>1, <1>w, <1>o
  <2>5. a.kind = "approve" => stored'.lease[a.tok] = stored.lease[a.tok]
    BY <2>1, <2>3, <1>1, <1>w, <1>o
  <2> QED BY <2>2, <2>4, <2>5 DEF ExternalInv, AnsweredIsStored
<1> QED BY <1>2, <1>3, <1>4, <1>5, <1>6 DEF ExternalInv

\* BeginCall: a new request or lease has a number nothing names yet, and a
\* decision starts on a request that reads as pending.
LEMMA BeginCallKeeps == ASSUME ExternalInv, BeginCall PROVE ExternalInv'
<1> call = NoCallRuns /\ UNCHANGED <<stored, remoteGate, delayed, answered, overtaken, troubles>>
  BY DEF BeginCall
<1>t. RemoteTypes /\ MadeInv /\ AnswerInv /\ AnsweredIsStored /\ CleanInv
  BY DEF ExternalInv
<1>1. PICK kind \in Kinds, r \in RemoteIds, t \in RemoteTokens \cup {0} :
    /\ Begin(kind, r, t)
    /\ kind = "approve" <=> t # 0
    /\ t # 0 => t = made.leases + 1
    /\ kind = "request" => r = made.requests + 1
    /\ kind # "request" => stored.request[r] = "pending"
    /\ made' \in [requests : 0..MaxRemoteRequests, leases : 0..MaxRemoteLeases]
    /\ made'.requests >= made.requests /\ made'.leases >= made.leases
    /\ (kind = "request" => made'.requests = r) /\ t <= made'.leases
  <2> made \in [requests : 0..MaxRemoteRequests, leases : 0..MaxRemoteLeases]
    BY <1>t DEF RemoteTypes
  <2>1. CASE /\ made.requests < MaxRemoteRequests
             /\ made' = [made EXCEPT !.requests = @ + 1] /\ Begin("request", made.requests + 1, 0)
    <3>1. made.requests + 1 \in RemoteIds /\ "request" \in Kinds /\ 0 \in RemoteTokens \cup {0}
      BY <2>1, ExternalAssumption DEF RemoteIds, Kinds
    <3> QED BY <2>1, <3>1, ExternalAssumption
  <2>2. CASE \E r \in RemoteIds : /\ stored.request[r] = "pending" /\ made.leases < MaxRemoteLeases
                                  /\ made' = [made EXCEPT !.leases = @ + 1] /\ Begin("approve", r, made.leases + 1)
    <3>1. made.leases < MaxRemoteLeases /\ made' = [made EXCEPT !.leases = @ + 1]
      BY <2>2
    <3>2. made.leases + 1 \in RemoteTokens /\ "approve" \in Kinds /\ made.leases + 1 # 0
      BY <3>1, ExternalAssumption DEF RemoteTokens, Kinds
    <3> QED BY <2>2, <3>1, <3>2, ExternalAssumption
  <2>3. CASE \E r \in RemoteIds, kind \in {"deny", "cancel"} :
               stored.request[r] = "pending" /\ Begin(kind, r, 0) /\ UNCHANGED made
    <3>1. "deny" \in Kinds /\ "cancel" \in Kinds /\ 0 \in RemoteTokens \cup {0} /\ UNCHANGED made
      BY <2>3 DEF Kinds
    <3> QED BY <2>3, <3>1, ExternalAssumption
  <2> QED BY <2>1, <2>2, <2>3 DEF BeginCall
<1> DEFINE n == [kind |-> kind, req |-> r, tok |-> t, pc |-> "request", undo |-> <<>>]
<1>n. /\ call' = n /\ n.kind = kind /\ n.req = r /\ n.tok = t /\ n.pc = "request" /\ n.undo = <<>>
      /\ n \in Calls
  BY <1>1 DEF Begin, Calls
<1> HIDE DEF n
<1>m. made \in [requests : 0..MaxRemoteRequests, leases : 0..MaxRemoteLeases] /\ t \in Nat /\ r \in Nat
      /\ made.requests \in Nat /\ made.leases \in Nat /\ made'.requests \in Nat /\ made'.leases \in Nat
  BY <1>t, <1>1, ExternalAssumption DEF RemoteTypes, RemoteTokens, RemoteIds
<1>p. kind # "request" => r <= made.requests
  BY <1>1, <1>t, <1>m DEF MadeInv
<1>2. RemoteTypes'
  BY <1>t, <1>1, <1>n DEF RemoteTypes
<1>3. MadeInv'
  <2>1. \A q \in RemoteIds : q > made'.requests => stored'.request[q] = "none"
    BY <1>t, <1>1, <1>m DEF MadeInv, RemoteIds
  <2>2. \A u \in RemoteTokens : u > made'.leases => stored'.lease[u] = NoLeaseOf
    BY <1>t, <1>1, <1>m DEF MadeInv, RemoteTokens
  <2>3. \A w \in delayed' : w.key <= IF w.on = "request" THEN made'.requests ELSE made'.leases
    <3> SUFFICES ASSUME NEW w \in delayed PROVE w.key <= IF w.on = "request" THEN made'.requests ELSE made'.leases
      OBVIOUS
    <3>1. w.key <= IF w.on = "request" THEN made.requests ELSE made.leases
      BY <1>t DEF MadeInv
    <3>2. w.key \in Nat
      BY <1>t DEF RemoteTypes, Writes, RemoteIds, RemoteTokens
    <3> QED BY <3>1, <3>2, <1>1, <1>m
  <2>4. \A a \in answered' : a.req <= made'.requests /\ a.tok <= made'.leases
    <3> SUFFICES ASSUME NEW a \in answered PROVE a.req <= made'.requests /\ a.tok <= made'.leases
      OBVIOUS
    <3>1. a.req <= made.requests /\ a.tok <= made.leases /\ a.req \in Nat /\ a.tok \in Nat
      BY <1>t DEF MadeInv, RemoteTypes, RemoteIds, RemoteTokens
    <3> QED BY <3>1, <1>1, <1>m
  <2>5. n.req <= made'.requests /\ n.tok <= made'.leases
    BY <1>n, <1>1, <1>m, <1>p
  <2> QED BY <2>1, <2>2, <2>3, <2>4, <2>5, <1>n DEF MadeInv
<1>4. ShapeInv'
  BY <1>1, <1>n DEF ShapeInv
<1>5. AnswerInv'
  <2>1. ASSUME NEW a \in answered PROVE a.req \in Nat /\ a.tok \in Nat /\ a.req <= made.requests /\ a.tok <= made.leases
    BY <1>t DEF RemoteTypes, MadeInv, RemoteIds, RemoteTokens
  <2>2. ASSUME NEW a \in answered
        PROVE  /\ n.kind = "request" => a.req # n.req
               /\ a.kind # "request" /\ a.req \notin overtaken => a.req # n.req
               /\ a.kind = "approve" => a.tok # n.tok
    <3>1. n.kind = "request" => a.req # n.req
      BY <2>1, <1>1, <1>n, <1>m
    <3>2. a.kind # "request" /\ a.req \notin overtaken => a.req # n.req
      <4>1. a.kind # "request" /\ a.req \notin overtaken => stored.request[a.req] \in {"approved", "denied"}
        BY <1>t DEF AnsweredIsStored, DecisionOf
      <4> QED BY <3>1, <4>1, <1>1, <1>n
    <3>3. a.kind = "approve" => a.tok # n.tok
      <4>1. a.kind = "approve" => a.tok # 0
        BY <1>t DEF AnswerInv
      <4> QED BY <2>1, <4>1, <1>1, <1>n, <1>m
    <3> QED BY <3>1, <3>2, <3>3
  <2>3. \A w \in delayed : w.on = "lease" => /\ \A a \in answered : a.kind = "approve" => w.key # a.tok
                                             /\ w.key # n.tok
    <3> SUFFICES ASSUME NEW w \in delayed, w.on = "lease" PROVE w.key # n.tok
      BY <1>t DEF AnswerInv
    <3>1. w.key <= made.leases
      BY <1>t DEF MadeInv
    <3>2. w.key \in Nat /\ w.key # 0
      BY <1>t DEF RemoteTypes, Writes, RemoteTokens
    <3> QED BY <3>1, <3>2, <1>1, <1>n, <1>m
  <2> QED BY <2>2, <2>3, <1>n, <1>t DEF AnswerInv
<1>6. AnsweredIsStored'
  BY <1>t DEF AnsweredIsStored
<1>7. CleanInv'
  <2> SUFFICES ASSUME Clean' PROVE CleanInv'
    BY DEF CleanInv
  <2>1. Clean /\ ~Halfway /\ ~Halfway'
    BY <1>n, NoCallTypes DEF Clean, Halfway
  <2>2. stored.request[r] = Back(kind)
    <3>1. kind = "request" => stored.request[r] = "none"
      BY <1>t, <1>1, <1>m DEF MadeInv
    <3> QED BY <3>1, <1>1 DEF Back
  <2>3. kind = "approve" => stored.lease[t] = NoLeaseOf
    <3>1. kind = "approve" => t \in RemoteTokens /\ t > made.leases
      BY <1>1, <1>m
    <3> QED BY <3>1, <1>t DEF MadeInv
  <2>4. \A q \in RemoteIds :
       /\ stored.request[q] # "approved" => NoLeaseFor(q)
       /\ stored.request[q] = "approved" => OneLeaseFor(q)
    BY <2>1, <1>t DEF CleanInv
  <2>5. \A q \in RemoteIds :
       /\ stored'.request[q] # "approved" => NoLeaseFor(q)'
       /\ stored'.request[q] = "approved" => OneLeaseFor(q)'
    BY <2>4 DEF NoLeaseFor, OneLeaseFor
  <2> QED BY <2>1, <2>2, <2>3, <2>5, <1>n, <1>t DEF CleanInv
<1> QED BY <1>2, <1>3, <1>4, <1>5, <1>6, <1>7 DEF ExternalInv

\* Audit: the mutation is answered with all it wrote, or is to be undone.
LEMMA AuditKeeps == ASSUME ExternalInv, Audit PROVE ExternalInv'
<1> call.pc = "audit" /\ UNCHANGED <<stored, delayed, overtaken, made>>
  BY DEF Audit
<1>t. RemoteTypes /\ MadeInv /\ AnswerInv /\ AnsweredIsStored /\ CleanInv /\ ShapeInv
  BY DEF ExternalInv
<1>c. /\ call # NoCallRuns /\ call \in Calls /\ call.kind \in Kinds /\ call.req \in RemoteIds
      /\ call.tok \in RemoteTokens \cup {0} /\ call.undo \in Seq(Writes)
      /\ Target(call.kind) \in Statuses /\ Target(call.kind) # "none"
  BY CallTypes, NoCallTypes
<1>s. (call.kind = "approve" <=> call.tok # 0) /\ call.undo = UndoAll
  BY <1>t, <1>c DEF ShapeInv
<1>h. ~Halfway
  BY DEF Halfway
<1>1. CASE /\ call' = NoCallRuns
           /\ answered' = answered \cup {[kind |-> call.kind, req |-> call.req, tok |-> call.tok]}
           /\ UNCHANGED <<remoteGate, troubles>>
  <2> DEFINE b == [kind |-> call.kind, req |-> call.req, tok |-> call.tok]
  <2>b. /\ b \in [kind : Kinds, req : RemoteIds, tok : RemoteTokens \cup {0}]
        /\ b.kind = call.kind /\ b.req = call.req /\ b.tok = call.tok /\ answered' = answered \cup {b}
    BY <1>1, <1>c
  <2> HIDE DEF b
  <2>n. call'.pc = "none" /\ call'.tok = 0 /\ call'.req = 0 /\ call' = NoCallRuns
    BY <1>1, NoCallTypes
  <2>2. RemoteTypes'
    BY <1>1, <1>t, <2>b DEF RemoteTypes
  <2>3. MadeInv'
    <3>1. call'.req <= made.requests /\ call'.tok <= made.leases
      BY <2>n, <1>t, ExternalAssumption DEF RemoteTypes
    <3> QED BY <2>b, <3>1, <1>t DEF MadeInv
  <2>4. ShapeInv'
    BY <2>n DEF ShapeInv
  <2>5. AnswerInv'
    <3>1. \A a \in answered' : a.kind = "approve" => a.tok # 0
      BY <2>b, <1>s, <1>t DEF AnswerInv
    <3>2. \A w \in delayed : w.on = "lease" => w.key # b.tok
      BY <2>b, <1>t DEF AnswerInv
    <3>3. \A w \in delayed : w.on = "lease" => w.key # 0
      BY <1>t DEF RemoteTypes, Writes, RemoteTokens
    <3> QED BY <2>b, <2>n, <3>1, <3>2, <3>3, <1>t DEF AnswerInv
  <2>6. AnsweredIsStored'
    <3>1. b.req \notin overtaken => stored.request[b.req] = Target(b.kind)
      BY <2>b, <1>t DEF AnswerInv
    <3>2. b.kind = "approve" => stored.lease[b.tok] = b.req
      BY <2>b, <1>t DEF AnswerInv
    <3> QED BY <2>b, <3>1, <3>2, <1>t, <1>c DEF AnsweredIsStored, Target
  <2>7. CleanInv'
    <3> SUFFICES ASSUME Clean' PROVE CleanInv'
      BY DEF CleanInv
    <3>1. Clean /\ ~Halfway'
      BY <1>1, <2>n DEF Clean, Halfway
    <3>2. \A q \in RemoteIds :
         /\ stored'.request[q] # "approved" => NoLeaseFor(q)'
         /\ stored'.request[q] = "approved" => OneLeaseFor(q)'
      BY <3>1, <1>h, <1>t DEF CleanInv, NoLeaseFor, OneLeaseFor
    <3> QED BY <3>1, <3>2, <2>n, <1>1, <1>t DEF CleanInv
  <2> QED BY <2>2, <2>3, <2>4, <2>5, <2>6, <2>7 DEF ExternalInv
<1>2. CASE /\ Trouble("failed") /\ remoteGate' = "closed"
           /\ call' = [call EXCEPT !.pc = "undo"] /\ UNCHANGED answered
  <2> DEFINE n == [call EXCEPT !.pc = "undo"]
  <2>n. /\ n \in Calls /\ call' = n /\ n.pc = "undo" /\ n.kind = call.kind /\ n.req = call.req
        /\ n.tok = call.tok /\ n.undo = call.undo
    BY <1>2, <1>c DEF Calls
  <2> HIDE DEF n
  <2>u. UndoAll' = UndoAll /\ UndoRequest' = UndoRequest
    BY <2>n DEF UndoAll, UndoRequest
  <2>r. troubles \in [failed : Nat, lost : Nat, stops : Nat]
        /\ troubles' \in [failed : Nat, lost : Nat, stops : Nat] /\ troubles' = [troubles EXCEPT !.failed = @ + 1]
    <3>1. troubles \in [failed : Nat, lost : Nat, stops : Nat]
      BY <1>t DEF RemoteTypes
    <3>2. troubles' = [troubles EXCEPT !.failed = @ + 1]
      BY <1>2 DEF Trouble
    <3> QED BY <3>1, <3>2
  <2>2. RemoteTypes'
    BY <1>2, <1>t, <2>n, <2>r DEF RemoteTypes
  <2>3. MadeInv'
    BY <1>2, <2>n, <1>t DEF MadeInv
  <2>4. ShapeInv'
    BY <2>n, <2>u, <1>s DEF ShapeInv
  <2>5. AnswerInv'
    BY <2>n, <1>2, <1>t, <1>c DEF AnswerInv
  <2>6. AnsweredIsStored'
    BY <1>2, <1>t DEF AnsweredIsStored
  <2>7. CleanInv'
    <3> SUFFICES ASSUME Clean' PROVE CleanInv'
      BY DEF CleanInv
    <3>1. Clean /\ troubles'.failed = 1
      BY <2>r DEF Clean
    <3>2. ~Halfway'
      <4>1. call.kind = "approve" => UndoAll # UndoRequest
        BY DEF UndoAll, UndoRequest, PutLease, PutRequest
      <4> QED BY <4>1, <2>n, <2>u, <1>s DEF Halfway
    <3>3. \A q \in RemoteIds :
         /\ stored'.request[q] # "approved" => NoLeaseFor(q)'
         /\ stored'.request[q] = "approved" => OneLeaseFor(q)'
      BY <3>1, <1>h, <1>t DEF CleanInv, NoLeaseFor, OneLeaseFor
    <3>4. stored.request[call.req] = Target(call.kind)
      BY <3>1, <1>t DEF CleanInv
    <3>5. call.kind = "approve" => stored.lease[call.tok] = call.req
      BY <1>t DEF AnswerInv
    <3> QED BY <3>1, <3>2, <3>3, <3>4, <3>5, <2>n, <1>t DEF CleanInv
  <2> QED BY <2>2, <2>3, <2>4, <2>5, <2>6, <2>7 DEF ExternalInv
<1> QED BY <1>1, <1>2 DEF Audit

\* The service after a request or a lease was written.
LEMMA ApplyRequest ==
  ASSUME RemoteTypes, NEW r \in RemoteIds, NEW s \in Statuses
  PROVE  /\ PutRequest(r, s) \in Writes /\ PutRequest(r, s).on = "request" /\ PutRequest(r, s).key = r
         /\ Apply(PutRequest(r, s)).lease = stored.lease
         /\ Apply(PutRequest(r, s)).request[r] = s
         /\ \A q \in RemoteIds : q # r => Apply(PutRequest(r, s)).request[q] = stored.request[q]
<1> DEFINE w == PutRequest(r, s)
<1>1. w \in Writes /\ w.on = "request" /\ w.key = r /\ w.to = s
  BY PutTypes DEF PutRequest
<1> HIDE DEF w
<1>2. /\ Apply(w).lease = stored.lease /\ Apply(w).request[r] = s
      /\ \A q \in RemoteIds : q # r => Apply(w).request[q] = stored.request[q]
  BY <1>1, ApplyWrites
<1> QED BY <1>1, <1>2 DEF w

\* The same of a lease.
LEMMA ApplyLease ==
  ASSUME RemoteTypes, NEW t \in RemoteTokens, NEW r \in RemoteIds \cup {NoLeaseOf}
  PROVE  /\ PutLease(t, r) \in Writes /\ PutLease(t, r).on = "lease" /\ PutLease(t, r).key = t
         /\ Apply(PutLease(t, r)).request = stored.request
         /\ Apply(PutLease(t, r)).lease[t] = r
         /\ \A u \in RemoteTokens : u # t => Apply(PutLease(t, r)).lease[u] = stored.lease[u]
<1> DEFINE w == PutLease(t, r)
<1>1. w \in Writes /\ w.on = "lease" /\ w.key = t /\ w.to = r
  BY PutTypes DEF PutLease
<1> HIDE DEF w
<1>2. /\ Apply(w).request = stored.request /\ Apply(w).lease[t] = r
      /\ \A u \in RemoteTokens : u # t => Apply(w).lease[u] = stored.lease[u]
  BY <1>1, ApplyWrites
<1> QED BY <1>1, <1>2 DEF w

\* What every write of a mutation keeps, whatever becomes of it: the types, the
\* numbers that were given, and the answers given before.
LEMMA RequestWriteKeeps ==
  ASSUME ExternalInv, call # NoCallRuns, NEW s \in {Target(call.kind), Back(call.kind)},
         UNCHANGED <<answered, overtaken, made>>,
         stored' \in {stored, Apply(PutRequest(call.req, s))},
         delayed' \in {delayed, delayed \cup {PutRequest(call.req, s)}},
         troubles' \in [failed : Nat, lost : Nat, stops : Nat],
         call' = NoCallRuns \/ (call' \in Calls /\ call'.req = call.req /\ call'.tok = call.tok)
  PROVE  RemoteTypes' /\ MadeInv' /\ AnsweredIsStored'
<1>t. RemoteTypes /\ MadeInv /\ AnswerInv /\ AnsweredIsStored
  BY DEF ExternalInv
<1>c. /\ call.kind \in Kinds /\ call.req \in RemoteIds /\ call.tok \in RemoteTokens \cup {0}
      /\ s \in Statuses /\ Back(call.kind) \in Statuses /\ Target(call.kind) # "none"
  BY CallTypes
<1> DEFINE w == PutRequest(call.req, s)
<1>w. /\ w \in Writes /\ w.on = "request" /\ w.key = call.req
      /\ Apply(w).lease = stored.lease /\ Apply(w).request[call.req] = s
      /\ \A q \in RemoteIds : q # call.req => Apply(w).request[q] = stored.request[q]
      /\ Apply(w) \in [request : [RemoteIds -> Statuses], lease : [RemoteTokens -> RemoteIds \cup {NoLeaseOf}]]
  BY <1>t, <1>c, ApplyRequest, ApplyWrites
<1>d. stored' \in {stored, Apply(w)} /\ delayed' \in {delayed, delayed \cup {w}}
  OBVIOUS
<1> HIDE DEF w
<1>1. RemoteTypes'
  BY <1>t, <1>w, <1>d DEF RemoteTypes
<1>2. MadeInv'
  <2>1. call.req <= made.requests /\ call.req \in Nat /\ made.requests \in Nat
    BY <1>t, <1>c, ExternalAssumption DEF MadeInv, RemoteTypes, RemoteIds
  <2>2. \A q \in RemoteIds : q > made'.requests => stored'.request[q] = "none"
    <3>1. \A q \in RemoteIds : q > made.requests => q # call.req
      BY <2>1 DEF RemoteIds
    <3> QED BY <3>1, <1>t, <1>w, <1>d DEF MadeInv
  <2>3. \A u \in RemoteTokens : u > made'.leases => stored'.lease[u] = NoLeaseOf
    BY <1>t, <1>w, <1>d DEF MadeInv
  <2>4. \A v \in delayed' : v.key <= IF v.on = "request" THEN made'.requests ELSE made'.leases
    BY <2>1, <1>t, <1>w, <1>d DEF MadeInv
  <2>5. call'.req <= made'.requests /\ call'.tok <= made'.leases
    BY <1>t, NoCallTypes, ExternalAssumption DEF MadeInv, RemoteTypes
  <2> QED BY <2>2, <2>3, <2>4, <2>5, <1>t DEF MadeInv
<1>3. AnsweredIsStored'
  <2> SUFFICES ASSUME NEW a \in answered, a.req \notin overtaken
               PROVE  /\ a.kind = "request" => stored'.request[a.req] # "none"
                      /\ a.kind # "request" => stored'.request[a.req] = DecisionOf(a.kind)
                      /\ a.kind = "approve" => stored'.lease[a.tok] = a.req
    BY DEF AnsweredIsStored
  <2>0. a.req \in RemoteIds
    BY <1>t DEF RemoteTypes
  <2>1. a.kind # "request" => a.req # call.req
    BY <1>t DEF AnswerInv
  <2>2. a.req = call.req => s # "none"
    <3>1. a.req = call.req => call.kind # "request"
      BY <1>t DEF AnswerInv
    <3> QED BY <3>1, <1>c DEF Back
  <2> QED BY <2>0, <2>1, <2>2, <1>w, <1>d, <1>t DEF AnsweredIsStored
<1> QED BY <1>1, <1>2, <1>3

\* The same of the approval's lease.
LEMMA LeaseWriteKeeps ==
  ASSUME ExternalInv, call # NoCallRuns, call.kind = "approve", NEW r \in {call.req, NoLeaseOf},
         UNCHANGED <<answered, overtaken, made>>,
         stored' \in {stored, Apply(PutLease(call.tok, r))},
         delayed' \in {delayed, delayed \cup {PutLease(call.tok, r)}},
         troubles' \in [failed : Nat, lost : Nat, stops : Nat],
         call' \in Calls /\ call'.req = call.req /\ call'.tok = call.tok
  PROVE  RemoteTypes' /\ MadeInv' /\ AnsweredIsStored'
<1>t. RemoteTypes /\ MadeInv /\ AnswerInv /\ AnsweredIsStored
  BY DEF ExternalInv
<1>c. call.tok \in RemoteTokens /\ call.req \in RemoteIds /\ r \in RemoteIds \cup {NoLeaseOf}
  BY CallTypes DEF ExternalInv, ShapeInv
<1> DEFINE w == PutLease(call.tok, r)
<1>w. /\ w \in Writes /\ w.on = "lease" /\ w.key = call.tok
      /\ Apply(w).request = stored.request /\ Apply(w).lease[call.tok] = r
      /\ \A u \in RemoteTokens : u # call.tok => Apply(w).lease[u] = stored.lease[u]
      /\ Apply(w) \in [request : [RemoteIds -> Statuses], lease : [RemoteTokens -> RemoteIds \cup {NoLeaseOf}]]
  BY <1>t, <1>c, ApplyLease, ApplyWrites
<1>d. stored' \in {stored, Apply(w)} /\ delayed' \in {delayed, delayed \cup {w}}
  OBVIOUS
<1> HIDE DEF w
<1>1. RemoteTypes'
  BY <1>t, <1>w, <1>d DEF RemoteTypes
<1>2. MadeInv'
  <2>1. call.tok <= made.leases /\ call.tok \in Nat /\ made.leases \in Nat
    BY <1>t, <1>c, ExternalAssumption DEF MadeInv, RemoteTypes, RemoteTokens
  <2>2. \A u \in RemoteTokens : u > made'.leases => stored'.lease[u] = NoLeaseOf
    <3>1. \A u \in RemoteTokens : u > made.leases => u # call.tok
      BY <2>1 DEF RemoteTokens
    <3> QED BY <3>1, <1>t, <1>w, <1>d DEF MadeInv
  <2>3. \A q \in RemoteIds : q > made'.requests => stored'.request[q] = "none"
    BY <1>t, <1>w, <1>d DEF MadeInv
  <2>4. \A v \in delayed' : v.key <= IF v.on = "request" THEN made'.requests ELSE made'.leases
    BY <2>1, <1>t, <1>w, <1>d DEF MadeInv
  <2> QED BY <2>2, <2>3, <2>4, <1>t DEF MadeInv
<1>3. AnsweredIsStored'
  <2> SUFFICES ASSUME NEW a \in answered, a.req \notin overtaken
               PROVE  /\ a.kind = "request" => stored'.request[a.req] # "none"
                      /\ a.kind # "request" => stored'.request[a.req] = DecisionOf(a.kind)
                      /\ a.kind = "approve" => stored'.lease[a.tok] = a.req
    BY DEF AnsweredIsStored
  <2>1. a.kind = "approve" => a.tok # call.tok /\ a.tok \in RemoteTokens
    BY <1>t DEF AnswerInv, RemoteTypes
  <2> QED BY <2>1, <1>w, <1>d, <1>t DEF AnsweredIsStored
<1> QED BY <1>1, <1>2, <1>3

\* WriteRequest: the request reads as the mutation says, or the call has failed.
LEMMA WriteRequestKeeps == ASSUME ExternalInv, WriteRequest PROVE ExternalInv'
<1> call.pc = "request" /\ UNCHANGED <<remoteGate, answered, overtaken, made>>
  BY DEF WriteRequest
<1>t. RemoteTypes /\ MadeInv /\ AnswerInv /\ ShapeInv /\ CleanInv
  BY DEF ExternalInv
<1>c. /\ call # NoCallRuns /\ call \in Calls /\ call.kind \in Kinds /\ call.req \in RemoteIds
      /\ call.tok \in RemoteTokens \cup {0} /\ Target(call.kind) \in Statuses /\ Back(call.kind) \in Statuses
      /\ Back(call.kind) # "approved" /\ (Target(call.kind) = "approved" <=> call.kind = "approve")
  BY CallTypes, NoCallTypes
<1> DEFINE n == [call EXCEPT !.pc = IF call.kind = "approve" THEN "lease" ELSE "audit", !.undo = UndoRequest]
           w == PutRequest(call.req, Target(call.kind))
<1>n. /\ n \in Calls /\ n.pc = (IF call.kind = "approve" THEN "lease" ELSE "audit") /\ n.undo = UndoRequest
      /\ n.kind = call.kind /\ n.req = call.req /\ n.tok = call.tok
  <2>1. UndoRequest \in Seq(Writes)
    BY <1>c, PutTypes DEF UndoRequest
  <2> QED BY <1>c, <2>1 DEF Calls
<1>w. /\ w \in Writes /\ w.on = "request" /\ w.key = call.req
      /\ Apply(w).lease = stored.lease /\ Apply(w).request[call.req] = Target(call.kind)
      /\ \A q \in RemoteIds : q # call.req => Apply(w).request[q] = stored.request[q]
  BY <1>t, <1>c, ApplyRequest
<1>1. send(w, n, NoCallRuns)
  BY DEF WriteRequest, UndoRequest, Back, Target
<1>2. /\ stored' \in {stored, Apply(w)} /\ call' \in {n, NoCallRuns} /\ (call' = NoCallRuns \/ stored' = Apply(w))
      /\ delayed' \in {delayed, delayed \cup {w}}
      /\ troubles' \in [failed : Nat, lost : Nat, stops : Nat]
      /\ Clean' => /\ Clean /\ delayed' = delayed
                   /\ \/ stored' = Apply(w) /\ call' = n /\ troubles' = troubles
                      \/ stored' = stored /\ call' = NoCallRuns /\ troubles.failed = 0 /\ troubles'.failed = 1
  BY <1>1, <1>t, <1>w, SendOutcomes
<1> HIDE DEF n
<1>3. RemoteTypes' /\ MadeInv' /\ AnsweredIsStored'
  BY <1>2, <1>n, <1>c, RequestWriteKeeps
<1> HIDE DEF w
<1>4. ShapeInv'
  <2> SUFFICES ASSUME call' = n PROVE ShapeInv'
    BY <1>2 DEF ShapeInv
  <2>1. UndoRequest' = UndoRequest /\ (call.kind # "approve" => UndoAll' = UndoRequest)
    BY <1>n DEF UndoRequest, UndoAll
  <2>2. call.kind = "approve" <=> call.tok # 0
    BY <1>t, <1>c DEF ShapeInv
  <2> QED BY <2>1, <2>2, <1>n DEF ShapeInv
<1>5. AnswerInv'
  <2>0. \A v \in delayed' : v.on = "lease" => v \in delayed
    BY <1>2, <1>w
  <2>1. CASE call' = NoCallRuns
    <3>1. \A v \in delayed : v.on = "lease" => v.key # 0
      BY <1>t DEF RemoteTypes, Writes, RemoteTokens
    <3> QED BY <2>0, <2>1, <3>1, NoCallTypes, <1>t DEF AnswerInv
  <2>2. CASE call' = n
    <3>1. stored'.request[call.req] = Target(call.kind)
      BY <1>2, <2>2, <1>w, <1>n, <1>c, NoCallTypes
    <3> QED BY <2>0, <2>2, <3>1, <1>n, <1>c, <1>t DEF AnswerInv
  <2> QED BY <1>2, <2>1, <2>2
<1>6. CleanInv'
  <2> SUFFICES ASSUME Clean' PROVE CleanInv'
    BY DEF CleanInv
  <2>0. Clean /\ delayed' = {} /\ overtaken' = {} /\ ~Halfway
    BY <1>2, <1>t DEF CleanInv, Halfway
  <2>1. \A q \in RemoteIds :
       /\ stored.request[q] # "approved" => NoLeaseFor(q)
       /\ stored.request[q] = "approved" => OneLeaseFor(q)
    BY <2>0, <1>t DEF CleanInv
  <2>2. CASE stored' = stored /\ call' = NoCallRuns
    <3>1. \A q \in RemoteIds :
         /\ stored'.request[q] # "approved" => NoLeaseFor(q)'
         /\ stored'.request[q] = "approved" => OneLeaseFor(q)'
      BY <2>1, <2>2 DEF NoLeaseFor, OneLeaseFor
    <3> QED BY <2>0, <2>2, <3>1, NoCallTypes DEF CleanInv, Halfway
  <2>3. CASE stored' = Apply(w) /\ call' = n
    <3>1. stored.request[call.req] = Back(call.kind) /\ NoLeaseFor(call.req)
      BY <2>0, <2>1, <1>c, <1>t DEF CleanInv
    <3>2. stored'.lease = stored.lease /\ stored'.request[call.req] = Target(call.kind)
      BY <2>3, <1>w
    <3>3. \A q \in RemoteIds : /\ NoLeaseFor(q) => NoLeaseFor(q)'
                               /\ OneLeaseFor(q) => OneLeaseFor(q)'
      BY <3>2 DEF NoLeaseFor, OneLeaseFor
    <3>4. Halfway' <=> call.kind = "approve"
      BY <2>3, <1>n DEF Halfway
    <3>5. ASSUME NEW q \in RemoteIds
          PROVE  /\ stored'.request[q] # "approved" => NoLeaseFor(q)'
                 /\ stored'.request[q] = "approved" =>
                      IF Halfway' /\ n.req = q THEN NoLeaseFor(q)' ELSE OneLeaseFor(q)'
      <4>1. CASE q = call.req
        BY <4>1, <3>1, <3>2, <3>3, <3>4, <1>n, <1>c
      <4>2. CASE q # call.req
        BY <4>2, <2>1, <2>3, <3>3, <1>w, <1>n
      <4> QED BY <4>1, <4>2
    <3>6. call.kind = "approve" => stored'.lease[call.tok] = NoLeaseOf
      BY <2>0, <3>2, <1>t DEF CleanInv
    <3> QED BY <2>0, <2>3, <3>2, <3>5, <3>6, <1>n DEF CleanInv
  <2> QED BY <1>2, <2>2, <2>3
<1> QED BY <1>3, <1>4, <1>5, <1>6 DEF ExternalInv

\* Putting one element before another.
LEMMA PairOfTwo ==
  ASSUME NEW S, NEW a \in S, NEW b \in S
  PROVE  <<a>> \o <<b>> = <<a, b>> /\ <<a, b>> \in Seq(S)
<1> DEFINE s == <<a>> \o <<b>>
<1>0. <<a>> \in Seq(S) /\ <<b>> \in Seq(S) /\ Len(<<a>>) = 1 /\ Len(<<b>>) = 1 /\ <<a>>[1] = a /\ <<b>>[1] = b
  OBVIOUS
<1>1. s \in Seq(S) /\ Len(s) = 2
  BY <1>0
<1>2. s[1] = a
  BY <1>0
<1>3. s[2] = b
  BY <1>0
<1>4. \A t \in Seq(S) : Len(t) = 2 => t = <<t[1], t[2]>>
  OBVIOUS
<1> HIDE DEF s
<1>5. s = <<a, b>>
  BY <1>1, <1>2, <1>3, <1>4
<1> QED BY <1>5 DEF s

\* WriteLease: the approval has its lease, or its request is to be put back.
LEMMA WriteLeaseKeeps == ASSUME ExternalInv, WriteLease PROVE ExternalInv'
<1> call.pc = "lease" /\ UNCHANGED <<remoteGate, answered, overtaken, made>>
  BY DEF WriteLease
<1>t. RemoteTypes /\ MadeInv /\ AnswerInv /\ ShapeInv /\ CleanInv
  BY DEF ExternalInv
<1>c. /\ call # NoCallRuns /\ call \in Calls /\ call.kind = "approve" /\ call.req \in RemoteIds
      /\ call.tok \in RemoteTokens /\ call.undo = UndoRequest /\ call.tok # 0
      /\ Back(call.kind) \in Statuses /\ Target(call.kind) = "approved"
  BY CallTypes, NoCallTypes, <1>t DEF ShapeInv
<1> DEFINE n == [call EXCEPT !.pc = "audit", !.undo = <<PutLease(call.tok, NoLeaseOf)>> \o @]
           f == [call EXCEPT !.pc = "undo"]
           w == PutLease(call.tok, call.req)
<1>n. /\ n \in Calls /\ n.pc = "audit" /\ n.undo = UndoAll
      /\ n.kind = call.kind /\ n.req = call.req /\ n.tok = call.tok
  <2>1. PutLease(call.tok, NoLeaseOf) \in Writes /\ PutRequest(call.req, Back(call.kind)) \in Writes
    BY <1>c, PutTypes
  <2>2. <<PutLease(call.tok, NoLeaseOf)>> \o call.undo = UndoAll /\ UndoAll \in Seq(Writes)
    <3>1. \A a, b \in Writes : <<a>> \o <<b>> = <<a, b>> /\ <<a, b>> \in Seq(Writes)
      BY PairOfTwo
    <3>2. UndoAll = <<PutLease(call.tok, NoLeaseOf), PutRequest(call.req, Back(call.kind))>>
      BY <1>c DEF UndoAll
    <3> QED BY <1>c, <2>1, <3>1, <3>2 DEF UndoRequest
  <2> QED BY <1>c, <2>2 DEF Calls
<1>f. /\ f \in Calls /\ f.pc = "undo" /\ f.undo = UndoRequest
      /\ f.kind = call.kind /\ f.req = call.req /\ f.tok = call.tok
  BY <1>c DEF Calls
<1>w. /\ w \in Writes /\ w.on = "lease" /\ w.key = call.tok
      /\ Apply(w).request = stored.request /\ Apply(w).lease[call.tok] = call.req
      /\ \A u \in RemoteTokens : u # call.tok => Apply(w).lease[u] = stored.lease[u]
  BY <1>t, <1>c, ApplyLease
<1>1. send(w, n, f)
  BY DEF WriteLease
<1>2. /\ stored' \in {stored, Apply(w)} /\ call' \in {n, f} /\ (call' = f \/ stored' = Apply(w))
      /\ delayed' \in {delayed, delayed \cup {w}}
      /\ troubles' \in [failed : Nat, lost : Nat, stops : Nat]
      /\ Clean' => /\ Clean /\ delayed' = delayed
                   /\ \/ stored' = Apply(w) /\ call' = n /\ troubles' = troubles
                      \/ stored' = stored /\ call' = f /\ troubles.failed = 0 /\ troubles'.failed = 1
  BY <1>1, <1>t, <1>w, SendOutcomes
<1> HIDE DEF n, f
<1>3. RemoteTypes' /\ MadeInv' /\ AnsweredIsStored'
  <2>1. call' \in Calls /\ call'.req = call.req /\ call'.tok = call.tok
    BY <1>2, <1>n, <1>f
  <2> QED BY <2>1, <1>2, <1>c, LeaseWriteKeeps
<1> HIDE DEF w
<1>k. call'.kind = "approve" /\ call'.req = call.req /\ call'.tok = call.tok /\ call'.pc \in {"audit", "undo"}
  BY <1>2, <1>n, <1>f, <1>c
<1>u. UndoAll' = UndoAll /\ UndoRequest' = UndoRequest
  BY <1>k, <1>c DEF UndoAll, UndoRequest
<1>4. ShapeInv'
  BY <1>2, <1>n, <1>f, <1>u, <1>c DEF ShapeInv
<1>5. AnswerInv'
  <2>1. \A a \in answered : a.kind = "approve" => a.tok # call.tok
    BY <1>t, <1>c DEF AnswerInv
  <2>2. \A v \in delayed' : v.on = "lease" => /\ \A a \in answered : a.kind = "approve" => v.key # a.tok
                                              /\ call'.pc # "undo" => v.key # call.tok
    <3>1. CASE call' = f
      BY <3>1, <2>1, <1>2, <1>f, <1>w, <1>t DEF AnswerInv
    <3>2. CASE call' = n
      <4>1. CASE w \notin delayed'
        BY <4>1, <3>2, <1>2, <1>t DEF AnswerInv
      <4>2. CASE w \in delayed' /\ w \notin delayed
        <5>1. ~(Clean')
          BY <4>2, <1>2
        <5> QED BY <1>1, <4>2, <3>2, <1>n, <1>f DEF send
      <4>3. CASE w \in delayed
        BY <4>3, <1>w, <1>t DEF AnswerInv
      <4> QED BY <4>1, <4>2, <4>3
    <3> QED BY <3>1, <3>2, <1>2
  <2>3. stored'.request = stored.request
    BY <1>2, <1>w
  <2>4. call'.pc = "audit" => stored'.lease[call.tok] = call.req
    BY <1>2, <1>w, <1>f
  <2> QED BY <2>1, <2>2, <2>3, <2>4, <1>k, <1>c, <1>t DEF AnswerInv
<1>6. CleanInv'
  <2> SUFFICES ASSUME Clean' PROVE CleanInv'
    BY DEF CleanInv
  <2>0. Clean /\ delayed' = {} /\ overtaken' = {} /\ Halfway
    BY <1>2, <1>t, <1>c DEF CleanInv, Halfway
  <2>1. /\ \A q \in RemoteIds :
             /\ stored.request[q] # "approved" => NoLeaseFor(q)
             /\ stored.request[q] = "approved" => IF call.req = q THEN NoLeaseFor(q) ELSE OneLeaseFor(q)
        /\ stored.request[call.req] = "approved" /\ stored.lease[call.tok] = NoLeaseOf
    BY <2>0, <1>t, <1>c DEF CleanInv
  <2>2. CASE stored' = stored /\ call' = f /\ troubles'.failed = 1
    <3>1. \A q \in RemoteIds : /\ NoLeaseFor(q) => NoLeaseFor(q)'
                               /\ OneLeaseFor(q) => OneLeaseFor(q)'
      BY <2>2 DEF NoLeaseFor, OneLeaseFor
    <3>2. Halfway'
      BY <2>2, <1>f, <1>u, <1>k DEF Halfway
    <3> QED BY <2>0, <2>1, <2>2, <3>1, <3>2, <1>f, <1>k, <1>c DEF CleanInv
  <2>3. CASE stored' = Apply(w) /\ call' = n
    <3>1. stored'.request = stored.request /\ stored'.lease[call.tok] = call.req
          /\ \A u \in RemoteTokens : u # call.tok => stored'.lease[u] = stored.lease[u]
      BY <2>3, <1>w
    <3>2. ~Halfway'
      BY <2>3, <1>n DEF Halfway
    <3>3. \A q \in RemoteIds : q = call.req => OneLeaseFor(q)'
      <4>1. \A u \in RemoteTokens : stored.lease[u] # call.req
        BY <2>1, <1>c DEF NoLeaseFor
      <4>2. \A u \in RemoteTokens : stored'.lease[u] = call.req <=> u = call.tok
        BY <3>1, <4>1
      <4> QED BY <4>2, <1>c, <1>k DEF OneLeaseFor
    <3>4. ASSUME NEW q \in RemoteIds, q # call.req
          PROVE  (NoLeaseFor(q) => NoLeaseFor(q)') /\ (OneLeaseFor(q) => OneLeaseFor(q)')
      <4>1. \A u \in RemoteTokens : stored.lease[u] = q <=> stored'.lease[u] = q
        BY <2>1, <3>1, <3>4, <1>c DEF NoLeaseOf, RemoteIds
      <4> QED BY <4>1 DEF NoLeaseFor, OneLeaseFor
    <3>5. \A q \in RemoteIds :
             /\ stored'.request[q] # "approved" => NoLeaseFor(q)'
             /\ stored'.request[q] = "approved" => OneLeaseFor(q)'
      <4> SUFFICES ASSUME NEW q \in RemoteIds
                   PROVE  /\ stored'.request[q] # "approved" => NoLeaseFor(q)'
                          /\ stored'.request[q] = "approved" => OneLeaseFor(q)'
        OBVIOUS
      <4>1. CASE q = call.req
        BY <4>1, <2>1, <3>1, <3>3
      <4>2. CASE q # call.req
        BY <4>2, <2>1, <3>1, <3>4
      <4> QED BY <4>1, <4>2
    <3> QED BY <2>0, <2>1, <2>3, <3>1, <3>2, <3>5, <1>n, <1>c DEF CleanInv
  <2> QED BY <1>2, <2>2, <2>3
<1> QED BY <1>3, <1>4, <1>5, <1>6 DEF ExternalInv

\* Undo: the lease goes first, then the request is put back; what fails stays.
LEMMA UndoKeeps == ASSUME ExternalInv, Undo PROVE ExternalInv'
<1> call.pc = "undo" /\ UNCHANGED <<remoteGate, answered, overtaken, made>>
  BY DEF Undo
<1>t. RemoteTypes /\ MadeInv /\ AnswerInv /\ ShapeInv /\ CleanInv
  BY DEF ExternalInv
<1>c. /\ call # NoCallRuns /\ call \in Calls /\ call.kind \in Kinds /\ call.req \in RemoteIds
      /\ call.tok \in RemoteTokens \cup {0} /\ (call.kind = "approve" <=> call.tok # 0)
      /\ Target(call.kind) \in Statuses /\ Back(call.kind) \in Statuses /\ Back(call.kind) # "approved"
      /\ (Target(call.kind) = "approved" <=> call.kind = "approve")
      /\ call.undo \in {UndoRequest, UndoAll}
  BY CallTypes, NoCallTypes, <1>t DEF ShapeInv
<1>n. /\ NoCallRuns.pc = "none" /\ NoCallRuns.kind = "none" /\ NoCallRuns.tok = 0 /\ NoCallRuns.req = 0
  BY NoCallTypes
<1>d. \A v \in delayed : v.on = "lease" => v.key # 0
  BY <1>t DEF RemoteTypes, Writes, RemoteTokens
<1>1. CASE call.undo = UndoRequest
  <2> DEFINE w == PutRequest(call.req, Back(call.kind))
  <2>w. /\ w \in Writes /\ w.on = "request" /\ w.key = call.req
        /\ Apply(w).lease = stored.lease /\ Apply(w).request[call.req] = Back(call.kind)
        /\ \A q \in RemoteIds : q # call.req => Apply(w).request[q] = stored.request[q]
    BY <1>t, <1>c, ApplyRequest
  <2>0. Head(call.undo) = w /\ Len(call.undo) = 1
    BY <1>1, <2>w DEF UndoRequest
  <2>1. send(w, NoCallRuns, NoCallRuns)
    BY <2>0 DEF Undo
  <2>2. /\ stored' \in {stored, Apply(w)} /\ call' = NoCallRuns
        /\ delayed' \in {delayed, delayed \cup {w}}
        /\ troubles' \in [failed : Nat, lost : Nat, stops : Nat]
        /\ Clean' => /\ Clean /\ delayed' = delayed
                     /\ stored' = Apply(w) \/ troubles.failed = 0
    BY <2>1, <1>t, <2>w, SendOutcomes
  <2>3. RemoteTypes' /\ MadeInv' /\ AnsweredIsStored'
    BY <2>2, <1>c, RequestWriteKeeps
  <2> HIDE DEF w
  <2>4. ShapeInv'
    BY <2>2 DEF ShapeInv
  <2>5. AnswerInv'
    <3>1. \A v \in delayed' : v.on = "lease" => v \in delayed
      BY <2>2, <2>w
    <3> QED BY <3>1, <2>2, <1>n, <1>d, <1>t DEF AnswerInv
  <2>6. CleanInv'
    <3> SUFFICES ASSUME Clean' PROVE CleanInv'
      BY DEF CleanInv
    <3>0. Clean /\ delayed' = {} /\ overtaken' = {} /\ ~Halfway' /\ troubles.failed = 1
      BY <2>2, <1>n, <1>t DEF CleanInv, Halfway
    <3>1. stored' = Apply(w) /\ stored'.lease = stored.lease
      BY <3>0, <2>2, <2>w
    <3>2. \A q \in RemoteIds : /\ NoLeaseFor(q) => NoLeaseFor(q)'
                               /\ OneLeaseFor(q) => OneLeaseFor(q)'
      BY <3>1 DEF NoLeaseFor, OneLeaseFor
    <3>3. call.kind = "approve" <=> Halfway
      BY <1>1 DEF Halfway
    <3>4. ASSUME NEW q \in RemoteIds
          PROVE  /\ stored'.request[q] # "approved" => NoLeaseFor(q)'
                 /\ stored'.request[q] = "approved" => OneLeaseFor(q)'
      <4>0. /\ stored.request[q] # "approved" => NoLeaseFor(q)
            /\ stored.request[q] = "approved" => IF Halfway /\ call.req = q THEN NoLeaseFor(q) ELSE OneLeaseFor(q)
            /\ stored.request[call.req] = Target(call.kind)
        BY <3>0, <1>t DEF CleanInv
      <4>1. CASE q = call.req
        <5>1. NoLeaseFor(q)
          BY <4>0, <4>1, <3>3, <1>c
        <5> QED BY <5>1, <4>1, <3>1, <3>2, <2>w, <1>c
      <4>2. CASE q # call.req
        BY <4>0, <4>2, <3>1, <3>2, <2>w
      <4> QED BY <4>1, <4>2
    <3> QED BY <3>0, <3>4, <2>2, <1>n DEF CleanInv
  <2> QED BY <2>3, <2>4, <2>5, <2>6 DEF ExternalInv
<1>2. CASE call.undo = UndoAll /\ call.kind = "approve"
  <2> DEFINE w == PutLease(call.tok, NoLeaseOf)
             n == [call EXCEPT !.undo = Tail(@)]
  <2>t. call.tok \in RemoteTokens
    BY <1>2, <1>c
  <2>w. /\ w \in Writes /\ w.on = "lease" /\ w.key = call.tok
        /\ Apply(w).request = stored.request /\ Apply(w).lease[call.tok] = NoLeaseOf
        /\ \A u \in RemoteTokens : u # call.tok => Apply(w).lease[u] = stored.lease[u]
    BY <1>t, <1>c, <2>t, ApplyLease
  <2>0. Head(call.undo) = w /\ Len(call.undo) = 2 /\ Tail(call.undo) = UndoRequest /\ UndoRequest \in Seq(Writes)
    <3>1. call.undo = <<w, PutRequest(call.req, Back(call.kind))>>
      BY <1>2 DEF UndoAll
    <3>2. PutRequest(call.req, Back(call.kind)) \in Writes
      BY <1>c, PutTypes
    <3> HIDE DEF w
    <3> QED BY <3>1, <3>2, <2>w DEF UndoRequest
  <2>n. /\ n \in Calls /\ n.pc = "undo" /\ n.undo = UndoRequest
        /\ n.kind = call.kind /\ n.req = call.req /\ n.tok = call.tok
    BY <2>0, <1>c DEF Calls
  <2>1. send(w, n, n)
    BY <2>0 DEF Undo
  <2> HIDE DEF n
  <2>2. /\ stored' \in {stored, Apply(w)} /\ call' = n
        /\ delayed' \in {delayed, delayed \cup {w}}
        /\ troubles' \in [failed : Nat, lost : Nat, stops : Nat]
        /\ Clean' => /\ Clean /\ delayed' = delayed
                     /\ \/ stored' = Apply(w) /\ troubles' = troubles
                        \/ troubles.failed = 0
    BY <2>1, <1>t, <2>w, SendOutcomes
  <2>3. RemoteTypes' /\ MadeInv' /\ AnsweredIsStored'
    BY <2>2, <2>n, <1>2, <1>c, LeaseWriteKeeps
  <2> HIDE DEF w
  <2>u. UndoRequest' = UndoRequest
    BY <2>2, <2>n DEF UndoRequest
  <2>4. ShapeInv'
    BY <2>2, <2>n, <2>u, <1>c DEF ShapeInv
  <2>5. AnswerInv'
    <3>1. \A a \in answered : a.kind = "approve" => a.tok # call.tok
      BY <1>t, <1>c DEF AnswerInv
    <3>2. \A v \in delayed' : v.on = "lease" => \A a \in answered : a.kind = "approve" => v.key # a.tok
      BY <3>1, <2>2, <2>w, <1>t DEF AnswerInv
    <3> QED BY <3>1, <3>2, <2>2, <2>n, <1>c, <1>t DEF AnswerInv
  <2>6. CleanInv'
    <3> SUFFICES ASSUME Clean' PROVE CleanInv'
      BY DEF CleanInv
    <3>h. ~Halfway
      <4>1. UndoAll # UndoRequest
        BY <1>2 DEF UndoAll, UndoRequest, PutLease, PutRequest
      <4> QED BY <4>1, <1>2 DEF Halfway
    <3>0. /\ Clean /\ delayed' = {} /\ overtaken' = {} /\ troubles.failed = 1
          /\ stored.request[call.req] = "approved" /\ stored.lease[call.tok] = call.req
      BY <2>2, <1>2, <1>c, <3>h, <1>t DEF CleanInv
    <3>1. /\ stored' = Apply(w) /\ troubles' = troubles
          /\ stored'.request = stored.request /\ stored'.lease[call.tok] = NoLeaseOf
          /\ \A u \in RemoteTokens : u # call.tok => stored'.lease[u] = stored.lease[u]
      BY <3>0, <2>2, <2>w
    <3>2. Halfway'
      BY <2>2, <2>n, <2>u, <1>2 DEF Halfway
    <3>3. ASSUME NEW q \in RemoteIds
          PROVE  /\ stored.request[q] # "approved" => NoLeaseFor(q)
                 /\ stored.request[q] = "approved" => OneLeaseFor(q)
      BY <3>0, <3>h, <1>t DEF CleanInv
    <3>4. ASSUME NEW q \in RemoteIds
          PROVE  /\ stored'.request[q] # "approved" => NoLeaseFor(q)'
                 /\ stored'.request[q] = "approved" => IF n.req = q THEN NoLeaseFor(q)' ELSE OneLeaseFor(q)'
      <4>1. CASE q = call.req
        <5>1. \A u \in RemoteTokens : u # call.tok => stored.lease[u] # q
          BY <4>1, <3>0, <3>3, <2>t DEF OneLeaseFor
        <5>2. q # NoLeaseOf
          BY DEF NoLeaseOf, RemoteIds
        <5>3. NoLeaseFor(q)'
          BY <5>1, <5>2, <3>1 DEF NoLeaseFor
        <5> QED BY <5>3, <4>1, <2>n
      <4>2. CASE q # call.req
        <5>1. \A u \in RemoteTokens : stored.lease[u] = q <=> stored'.lease[u] = q
          BY <4>2, <3>0, <3>1, <2>t DEF NoLeaseOf, RemoteIds
        <5>2. (NoLeaseFor(q) => NoLeaseFor(q)') /\ (OneLeaseFor(q) => OneLeaseFor(q)')
          BY <5>1 DEF NoLeaseFor, OneLeaseFor
        <5> QED BY <5>2, <4>2, <3>1, <3>3, <2>n
      <4> QED BY <4>1, <4>2
    <3> QED BY <3>0, <3>1, <3>2, <3>4, <2>2, <2>n, <1>2, <1>c DEF CleanInv
  <2> QED BY <2>3, <2>4, <2>5, <2>6 DEF ExternalInv
<1> QED BY <1>1, <1>2, <1>c DEF UndoAll

\* Every step of the remote store keeps the invariant.
LEMMA ExternalStep == ExternalInv /\ [ExternalNext]_remoteVars => ExternalInv'
<1> SUFFICES ASSUME ExternalInv, [ExternalNext]_remoteVars PROVE ExternalInv'
  OBVIOUS
<1>1. CASE UNCHANGED remoteVars
  BY <1>1 DEF remoteVars, ExternalInv, RemoteTypes, MadeInv, ShapeInv, AnswerInv, AnsweredIsStored, CleanInv,
       Clean, NoLeaseFor, OneLeaseFor, Halfway, UndoAll, UndoRequest
<1> QED BY <1>1, BeginCallKeeps, WriteRequestKeeps, WriteLeaseKeeps, AuditKeeps, UndoKeeps, ArrivesKeeps,
           RestartKeeps DEF ExternalNext

\* The invariant says what a reader of the store sees between two calls.
LEMMA ExternalSoundFollows == ExternalInv => ExternalStateSound
<1> SUFFICES ASSUME ExternalInv PROVE ExternalStateSound
  OBVIOUS
<1>1. AnsweredIsStored
  BY DEF ExternalInv
<1>2. OneFailureIsUndone
  <2> SUFFICES ASSUME call = NoCallRuns, Clean, NEW r \in RemoteIds
               PROVE  stored.request[r] = "approved" <=> Cardinality({t \in RemoteTokens : stored.lease[t] = r}) = 1
    BY DEF OneFailureIsUndone, Clean
  <2> DEFINE L == {t \in RemoteTokens : stored.lease[t] = r}
  <2>1. /\ stored.request[r] # "approved" => NoLeaseFor(r)
        /\ stored.request[r] = "approved" => OneLeaseFor(r)
    BY NoCallTypes DEF ExternalInv, CleanInv, Halfway
  <2>2. NoLeaseFor(r) => Cardinality(L) = 0
    <3>1. NoLeaseFor(r) => L = {}
      BY DEF NoLeaseFor
    <3> QED BY <3>1, FS_EmptySet
  <2>3. OneLeaseFor(r) => Cardinality(L) = 1
    <3> SUFFICES ASSUME OneLeaseFor(r) PROVE Cardinality(L) = 1
      OBVIOUS
    <3>1. PICK t \in RemoteTokens : \A u \in RemoteTokens : stored.lease[u] = r <=> u = t
      BY DEF OneLeaseFor
    <3>2. L = {t}
      BY <3>1
    <3> QED BY <3>2, FS_Singleton
  <2> QED BY <2>1, <2>2, <2>3
<1> QED BY <1>1, <1>2 DEF ExternalStateSound

\* ExternalStateSound (service.go 125-190): what was answered with success stays
\* in the service, and one refused write or audit record leaves no trace.
THEOREM ExternalStateSoundHolds == ExternalSpec => []ExternalStateSound
<1>1. ExternalSpec => []ExternalInv
  BY ExternalStarts, ExternalStep, PTL DEF ExternalSpec
<1> QED BY <1>1, ExternalSoundFollows, PTL

------------------------------------------------------------------------------
(* WorkspaceSetup: the instance a run makes or brings up to date *)

\* Induction up to a bound, over a set of numbers.
LEMMA CountUp ==
  ASSUME NEW n \in Nat, NEW T, 0 \in T, \A k \in 0..n : k < n /\ k \in T => k + 1 \in T
  PROVE  \A k \in 0..n : k \in T
<1> DEFINE Missing == {k \in 0..n : k \notin T}
<1> SUFFICES ASSUME Missing # {} PROVE FALSE
  OBVIOUS
<1>1. Missing \in SUBSET Nat
  OBVIOUS
<1>2. PICK k \in Missing : \A j \in Missing : ~ (<<j, k>> \in OpToRel(<, Nat))
  <2> HIDE DEF Missing
  <2> QED BY <1>1, NatLessThanWellFounded, WFMin
<1>3. \A j \in Missing : ~ (j < k)
  BY <1>1, <1>2 DEF OpToRel
<1>4. k # 0 /\ k - 1 \in 0..n /\ k - 1 < n /\ k - 1 + 1 = k /\ k - 1 < k
  OBVIOUS
<1> QED BY <1>2, <1>3, <1>4

\* A value for every number up to n, each from the one before.
Folded(f, n, first, next) == f = [i \in 0..n |-> IF i = 0 THEN first ELSE next[<<i, f[i - 1]>>]]

\* There is one for every rule that stays in a set: by induction on the length of a prefix.
LEMMA FoldExists ==
  ASSUME NEW n \in Nat, NEW S, NEW first \in S, NEW next \in [(1..n) \X S -> S]
  PROVE  \E f \in [0..n -> S] : Folded(f, n, first, next)
<1> DEFINE Value(f, i) == IF i = 0 THEN first ELSE next[<<i, f[i - 1]>>]
           Prefix(k) == \E f \in [0..k -> S] : \A i \in 0..k : f[i] = Value(f, i)
           Done == {k \in 0..n : Prefix(k)}
<1>1. Prefix(0)
  <2> DEFINE e == [i \in {0} |-> first]
  <2>1. e \in [{0} -> S] /\ e[0] = first
    <3>1. e \in [{0} -> S]
      OBVIOUS
    <3>2. e[0] = first
      OBVIOUS
    <3> QED BY <3>1, <3>2
  <2>2. 0..0 = {0}
    OBVIOUS
  <2> HIDE DEF e
  <2> QED BY <2>1, <2>2
<1>2. ASSUME NEW k \in 0..n, k < n, Prefix(k) PROVE Prefix(k + 1)
  <2>1. PICK g \in [0..k -> S] : \A i \in 0..k : g[i] = Value(g, i)
    BY <1>2
  <2> DEFINE h == [i \in 0..(k + 1) |-> IF i = k + 1 THEN next[<<k + 1, g[k]>>] ELSE g[i]]
  <2>2. \A i \in 0..(k + 1) : /\ i = k + 1 => i # 0 /\ i - 1 = k
                             /\ i # k + 1 => i \in 0..k /\ (i # 0 => i - 1 \in 0..k)
    OBVIOUS
  <2>3. k \in 0..k /\ g[k] \in S /\ <<k + 1, g[k]>> \in (1..n) \X S /\ next[<<k + 1, g[k]>>] \in S
    BY <1>2
  <2>4. h \in [0..(k + 1) -> S]
    BY <2>2, <2>3
  <2>5. \A i \in 0..k : i \in 0..(k + 1) /\ i # k + 1
    OBVIOUS
  <2>6. \A i \in 0..k : h[i] = g[i]
    BY <2>5
  <2>7. ASSUME NEW i \in 0..(k + 1) PROVE h[i] = Value(h, i)
    <3>1. CASE i = k + 1
      <4>1. h[i] = next[<<k + 1, g[k]>>] /\ h[k] = g[k] /\ i # 0 /\ i - 1 = k
        BY <2>3, <2>6, <3>1
      <4> HIDE DEF h
      <4> QED BY <3>1, <4>1
    <3>2. CASE i # k + 1
      <4>1. i \in 0..k /\ h[i] = g[i] /\ (i = 0 \/ (i - 1 \in 0..k /\ h[i - 1] = g[i - 1]))
        BY <2>2, <2>6, <3>2
      <4>2. g[i] = Value(g, i)
        BY <2>1, <4>1
      <4> HIDE DEF h
      <4> QED BY <4>1, <4>2
    <3> QED BY <3>1, <3>2
  <2> QED BY <2>4, <2>7
<1>3. Prefix(n)
  <2> HIDE DEF Prefix
  <2>1. 0 \in Done /\ \A k \in 0..n : k < n /\ k \in Done => k + 1 \in Done
    BY <1>1, <1>2
  <2> HIDE DEF Done
  <2>2. n \in Done
    BY <2>1, CountUp
  <2> QED BY <2>2 DEF Done
<1>4. PICK f \in [0..n -> S] : \A i \in 0..n : f[i] = Value(f, i)
  BY <1>3
<1>5. f = [i \in 0..n |-> Value(f, i)]
  BY <1>4
<1> QED BY <1>5 DEF Folded

\* Appending to a tuple.
LEMMA Appended ==
  /\ \A A : Append(<<>>, A) = <<A>>
  /\ \A A, B : Append(<<A>>, B) = <<A, B>>
  /\ \A A, B, C : Append(<<A, B>>, C) = <<A, B, C>>
  /\ \A A, B, C, D : Append(<<A, B, C>>, D) = <<A, B, C, D>>
  /\ \A A, B, C, D, E : Append(<<A, B, C, D>>, E) = <<A, B, C, D, E>>
  /\ \A A, B, C, D, E, F : Append(<<A, B, C, D, E>>, F) = <<A, B, C, D, E, F>>
<1>1. \A A : Append(<<>>, A) = <<A>>
  <2> TAKE A
  <2> DEFINE S == {A}
             s == Append(<<>>, A)
             t == <<A>>
  <2>1. <<>> \in Seq(S) /\ t \in Seq(S) /\ A \in S /\ Len(<<>>) = 0 /\ Len(t) = 1
    OBVIOUS
  <2>2. s \in Seq(S) /\ Len(s) = 0 + 1 /\ (\A i \in 1..0 : s[i] = <<>>[i]) /\ s[0 + 1] = A
    BY <2>1, AppendProperties
  <2>3. Len(s) = Len(t) /\ \A i \in 1..Len(s) : s[i] = t[i]
    BY <2>1, <2>2
  <2>4. s = t
    <3> HIDE DEF s, t, S
    <3> QED BY <2>1, <2>2, <2>3, SeqEqual
  <2> QED BY <2>4
<1>2. \A A, B : Append(<<A>>, B) = <<A, B>>
  <2> TAKE A, B
  <2> DEFINE S == {A, B}
             s == Append(<<A>>, B)
             t == <<A, B>>
  <2>1. <<A>> \in Seq(S) /\ t \in Seq(S) /\ B \in S /\ Len(<<A>>) = 1 /\ Len(t) = 2
    OBVIOUS
  <2>2. s \in Seq(S) /\ Len(s) = 1 + 1 /\ (\A i \in 1..1 : s[i] = <<A>>[i]) /\ s[1 + 1] = B
    BY <2>1, AppendProperties
  <2>3. Len(s) = Len(t) /\ \A i \in 1..Len(s) : s[i] = t[i]
    BY <2>1, <2>2
  <2>4. s = t
    <3> HIDE DEF s, t, S
    <3> QED BY <2>1, <2>2, <2>3, SeqEqual
  <2> QED BY <2>4
<1>3. \A A, B, C : Append(<<A, B>>, C) = <<A, B, C>>
  <2> TAKE A, B, C
  <2> DEFINE S == {A, B, C}
             s == Append(<<A, B>>, C)
             t == <<A, B, C>>
  <2>1. <<A, B>> \in Seq(S) /\ t \in Seq(S) /\ C \in S /\ Len(<<A, B>>) = 2 /\ Len(t) = 3
    OBVIOUS
  <2>2. s \in Seq(S) /\ Len(s) = 2 + 1 /\ (\A i \in 1..2 : s[i] = <<A, B>>[i]) /\ s[2 + 1] = C
    BY <2>1, AppendProperties
  <2>3. Len(s) = Len(t) /\ \A i \in 1..Len(s) : s[i] = t[i]
    BY <2>1, <2>2
  <2>4. s = t
    <3> HIDE DEF s, t, S
    <3> QED BY <2>1, <2>2, <2>3, SeqEqual
  <2> QED BY <2>4
<1>4. \A A, B, C, D : Append(<<A, B, C>>, D) = <<A, B, C, D>>
  <2> TAKE A, B, C, D
  <2> DEFINE S == {A, B, C, D}
             s == Append(<<A, B, C>>, D)
             t == <<A, B, C, D>>
  <2>1. <<A, B, C>> \in Seq(S) /\ t \in Seq(S) /\ D \in S /\ Len(<<A, B, C>>) = 3 /\ Len(t) = 4
    OBVIOUS
  <2>2. s \in Seq(S) /\ Len(s) = 3 + 1 /\ (\A i \in 1..3 : s[i] = <<A, B, C>>[i]) /\ s[3 + 1] = D
    BY <2>1, AppendProperties
  <2>3. Len(s) = Len(t) /\ \A i \in 1..Len(s) : s[i] = t[i]
    BY <2>1, <2>2
  <2>4. s = t
    <3> HIDE DEF s, t, S
    <3> QED BY <2>1, <2>2, <2>3, SeqEqual
  <2> QED BY <2>4
<1>5. \A A, B, C, D, E : Append(<<A, B, C, D>>, E) = <<A, B, C, D, E>>
  <2> TAKE A, B, C, D, E
  <2> DEFINE S == {A, B, C, D, E}
             s == Append(<<A, B, C, D>>, E)
             t == <<A, B, C, D, E>>
  <2>1. <<A, B, C, D>> \in Seq(S) /\ t \in Seq(S) /\ E \in S /\ Len(<<A, B, C, D>>) = 4 /\ Len(t) = 5
    OBVIOUS
  <2>2. s \in Seq(S) /\ Len(s) = 4 + 1 /\ (\A i \in 1..4 : s[i] = <<A, B, C, D>>[i]) /\ s[4 + 1] = E
    BY <2>1, AppendProperties
  <2>3. Len(s) = Len(t) /\ \A i \in 1..Len(s) : s[i] = t[i]
    BY <2>1, <2>2
  <2>4. s = t
    <3> HIDE DEF s, t, S
    <3> QED BY <2>1, <2>2, <2>3, SeqEqual
  <2> QED BY <2>4
<1>6. \A A, B, C, D, E, F : Append(<<A, B, C, D, E>>, F) = <<A, B, C, D, E, F>>
  <2> TAKE A, B, C, D, E, F
  <2> DEFINE S == {A, B, C, D, E, F}
             s == Append(<<A, B, C, D, E>>, F)
             t == <<A, B, C, D, E, F>>
  <2>1. <<A, B, C, D, E>> \in Seq(S) /\ t \in Seq(S) /\ F \in S /\ Len(<<A, B, C, D, E>>) = 5 /\ Len(t) = 6
    OBVIOUS
  <2>2. s \in Seq(S) /\ Len(s) = 5 + 1 /\ (\A i \in 1..5 : s[i] = <<A, B, C, D, E>>[i]) /\ s[5 + 1] = F
    BY <2>1, AppendProperties
  <2>3. Len(s) = Len(t) /\ \A i \in 1..Len(s) : s[i] = t[i]
    BY <2>1, <2>2
  <2>4. s = t
    <3> HIDE DEF s, t, S
    <3> QED BY <2>1, <2>2, <2>3, SeqEqual
  <2> QED BY <2>4
<1> QED BY <1>1, <1>2, <1>3, <1>4, <1>5, <1>6

\* The lines and the exports of a layout, without a bridge and with one, written out.
Lines5(a, o, t, k) ==
  <<Export("CONFIG", "config"), Export("AGENT_SOCK", a), Export("OPERATOR_SOCK", o),
    Export("TOKEN", t), Export("KEY", k)>>
Lines6(a, o, t, k, b) ==
  <<Export("CONFIG", "config"), Export("AGENT_SOCK", a), Export("OPERATOR_SOCK", o),
    Export("TOKEN", t), Export("KEY", k), Export("BRIDGE", b)>>
Exports3(a, o) == <<Export("CONFIG", "config"), Export("AGENT_SOCK", a), Export("OPERATOR_SOCK", o)>>
Exports4(a, o, b) ==
  <<Export("CONFIG", "config"), Export("AGENT_SOCK", a), Export("OPERATOR_SOCK", o), Export("BRIDGE", b)>>

\* The instance.env that setup writes (buildWorkspaceSetupEnvFile).
LEMMA EnvLines ==
  \A L, t, k : buildWorkspaceSetupEnvFile(L, t, k) =
     [text |-> "whole", lines |-> IF L.bridge = "" THEN Lines5(L.agent, L.operator, t, k)
                                  ELSE Lines6(L.agent, L.operator, t, k, L.bridge)]
<1> TAKE L, t, k
<1> DEFINE lines == WithBridge(Lines5(L.agent, L.operator, t, k), L)
<1>1. L.bridge = "" => lines = Lines5(L.agent, L.operator, t, k)
  BY DEF WithBridge
<1>2. L.bridge # "" => lines = Lines6(L.agent, L.operator, t, k, L.bridge)
  <2>1. Append(Lines5(L.agent, L.operator, t, k), Export("BRIDGE", L.bridge))
          = Lines6(L.agent, L.operator, t, k, L.bridge)
    <3> DEFINE A == Export("CONFIG", "config")
               B == Export("AGENT_SOCK", L.agent)
               C == Export("OPERATOR_SOCK", L.operator)
               D == Export("TOKEN", t)
               E == Export("KEY", k)
               F == Export("BRIDGE", L.bridge)
    <3>1. Append(<<A, B, C, D, E>>, F) = <<A, B, C, D, E, F>>
      <4> HIDE DEF A, B, C, D, E, F
      <4> QED BY Appended, SMTT(20)
    <3> QED BY <3>1, Zenon DEF Lines5, Lines6
  <2> QED BY <2>1 DEF WithBridge
<1>3. buildWorkspaceSetupEnvFile(L, t, k) = [text |-> "whole", lines |-> lines]
  BY Zenon DEF buildWorkspaceSetupEnvFile, Lines5
<1> HIDE DEF lines
<1> QED BY <1>1, <1>2, <1>3

\* The exports a refresh wants there (desiredWorkspaceSetupPathExports).
LEMMA Wanted ==
  \A L : desiredWorkspaceSetupPathExports(L) =
    IF L.bridge = "" THEN Exports3(L.agent, L.operator) ELSE Exports4(L.agent, L.operator, L.bridge)
<1> TAKE L
<1>1. desiredWorkspaceSetupPathExports(L) = WithBridge(Exports3(L.agent, L.operator), L)
  BY Zenon DEF desiredWorkspaceSetupPathExports, Exports3
<1>2. L.bridge = "" => WithBridge(Exports3(L.agent, L.operator), L) = Exports3(L.agent, L.operator)
  BY DEF WithBridge
<1>3. L.bridge # "" => WithBridge(Exports3(L.agent, L.operator), L) = Exports4(L.agent, L.operator, L.bridge)
  <2> DEFINE A == Export("CONFIG", "config")
             B == Export("AGENT_SOCK", L.agent)
             C == Export("OPERATOR_SOCK", L.operator)
             D == Export("BRIDGE", L.bridge)
  <2>1. Append(<<A, B, C>>, D) = <<A, B, C, D>>
    <3> HIDE DEF A, B, C, D
    <3> QED BY Appended, SMTT(20)
  <2>2. Append(Exports3(L.agent, L.operator), D) = Exports4(L.agent, L.operator, L.bridge)
    BY <2>1, Zenon DEF Exports3, Exports4
  <2> QED BY <2>2 DEF WithBridge
<1> QED BY <1>1, <1>2, <1>3

Fields == {"profile", "local", "legacy", "agent", "operator", "bridge", "bridgeKey", "execPolicy", "auth",
           "token", "durable", "defaultTO", "maxTO"}
Rest == Fields \ {"agent", "operator", "bridge", "bridgeKey"}

\* The configuration that setup writes has these fields and no other.
Doc(l, token, key) ==
  [profile |-> "hardened", local |-> TRUE, legacy |-> "", agent |-> l.agent, operator |-> l.operator,
   bridge |-> l.bridge, bridgeKey |-> key, execPolicy |-> TRUE, auth |-> TRUE, token |-> token, durable |-> TRUE,
   defaultTO |-> 120, maxTO |-> 600]
Shaped(file) == file.doc = [f \in Fields |-> file.doc[f]] /\ file = [text |-> "whole", doc |-> file.doc]

\* The shape of what buildWorkspaceSetupConfig makes.
LEMMA DocWhole == \A l, t : Shaped(buildWorkspaceSetupConfig(l, t))
<1> TAKE l, t
<1>1. \A k : Doc(l, t, k) = [f \in Fields |-> Doc(l, t, k)[f]]
  BY DEF Doc, Fields
<1>2. buildWorkspaceSetupConfig(l, t) = [text |-> "whole", doc |-> Doc(l, t, l.bridge # "")]
  BY Zenon DEF buildWorkspaceSetupConfig, Doc
<1>3. ASSUME NEW x PROVE [text |-> "whole", doc |-> x].doc = x
  OBVIOUS
<1>4. buildWorkspaceSetupConfig(l, t).doc = Doc(l, t, l.bridge # "")
  BY <1>2, <1>3, Zenon
<1> QED BY <1>1, <1>2, <1>4, Zenon DEF Shaped

\* A configuration whose paths are replaced.
Replaced(x, z) ==
  [x EXCEPT !.agent = z.agent, !.operator = z.operator, !.bridge = z.bridge, !.bridgeKey = z.bridgeKey]

\* It is the one the paths come from, if they agree in all else.
LEMMA PathsReplaced ==
  ASSUME NEW x, NEW z, x = [f \in Fields |-> x[f]], z = [f \in Fields |-> z[f]], \A f \in Rest : x[f] = z[f]
  PROVE  Replaced(x, z) = z
<1> DEFINE y == [x EXCEPT !.agent = z.agent, !.operator = z.operator, !.bridge = z.bridge, !.bridgeKey = z.bridgeKey]
<1>1. y = [f \in Fields |-> y[f]]
  OBVIOUS
<1>2. /\ y["agent"] = z["agent"] /\ y["operator"] = z["operator"] /\ y["bridge"] = z["bridge"]
      /\ y["bridgeKey"] = z["bridgeKey"]
  BY DEF Fields
<1>3. \A f \in Rest : y[f] = x[f]
  BY DEF Rest
<1> HIDE DEF y
<1>4. \A f \in Fields : y[f] = z[f]
  BY <1>2, <1>3 DEF Rest
<1>5. y = z
  BY <1>1, <1>4
<1> QED BY <1>5 DEF y, Replaced

\* What a refresh makes of a configuration that setup wrote is the one of the new layout with the
\* same token (refreshWorkspaceSetupConfigPaths).
Moved(file, l) == [file EXCEPT !.doc = [@ EXCEPT !.agent = l.agent, !.operator = l.operator,
                                                 !.bridge = l.bridge, !.bridgeKey = l.bridge # ""]]

\* Only the layout of a configuration is replaced, its token stays.
LEMMA ConfigRefreshed ==
  \A L, M, t : Moved(buildWorkspaceSetupConfig(L, t), M) = buildWorkspaceSetupConfig(M, t)
<1> TAKE L, M, t
<1> DEFINE c == buildWorkspaceSetupConfig(L, t)
           d == buildWorkspaceSetupConfig(M, t)
<1>1. ASSUME NEW P
      PROVE /\ buildWorkspaceSetupConfig(P, t).doc = [f \in Fields |-> buildWorkspaceSetupConfig(P, t).doc[f]]
            /\ buildWorkspaceSetupConfig(P, t) = [text |-> "whole", doc |-> buildWorkspaceSetupConfig(P, t).doc]
  BY DocWhole, Zenon DEF Shaped
<1>2. \A f \in Rest : c.doc[f] = d.doc[f]
  <2>1. Rest = {"profile", "local", "legacy", "execPolicy", "auth", "token", "durable", "defaultTO", "maxTO"}
    BY DEF Rest, Fields
  <2>2. /\ c.doc["profile"] = d.doc["profile"] /\ c.doc["local"] = d.doc["local"]
        /\ c.doc["legacy"] = d.doc["legacy"] /\ c.doc["execPolicy"] = d.doc["execPolicy"]
        /\ c.doc["auth"] = d.doc["auth"] /\ c.doc["token"] = d.doc["token"] /\ c.doc["durable"] = d.doc["durable"]
        /\ c.doc["defaultTO"] = d.doc["defaultTO"] /\ c.doc["maxTO"] = d.doc["maxTO"]
    BY DEF buildWorkspaceSetupConfig
  <2> HIDE DEF c, d
  <2> QED BY <2>1, <2>2
<1>3. /\ d.doc.agent = M.agent /\ d.doc.operator = M.operator /\ d.doc.bridge = M.bridge
      /\ d.doc.bridgeKey = (M.bridge # "")
  BY DEF buildWorkspaceSetupConfig
<1>4. Replaced(c.doc, d.doc) = d.doc
  <2> HIDE DEF c, d
  <2>1. c.doc = [f \in Fields |-> c.doc[f]] /\ d.doc = [f \in Fields |-> d.doc[f]]
    BY <1>1, Zenon DEF c, d
  <2> QED BY <1>2, <2>1, PathsReplaced
<1>5. [c.doc EXCEPT !.agent = M.agent, !.operator = M.operator, !.bridge = M.bridge,
                    !.bridgeKey = M.bridge # ""] = d.doc
  BY <1>3, <1>4, Zenon DEF Replaced
<1>6. ASSUME NEW x, NEW y PROVE [[text |-> "whole", doc |-> x] EXCEPT !.doc = y] = [text |-> "whole", doc |-> y]
  OBVIOUS
<1>7. [c EXCEPT !.doc = d.doc] = d
  BY <1>1, <1>6, Zenon
<1> QED BY <1>5, <1>7, Zenon DEF Moved

------------------------------------------------------------------------------
\* The lines that stay and what becomes of them.
SyncedLine(line, exports) ==
  IF line.name \in NamesOf(exports) THEN Export(line.name, ValueIn(exports, line.name)) ELSE line
Dropped(line, exports) == line.name \in Managed \ NamesOf(exports)

\* The two scans of syncSetupExportLines, a line and an export at a time.
LEMMA SyncScans ==
  ASSUME NEW T, NEW lines \in Seq(T), NEW exports \in Seq(T),
         \A i \in 1..Len(lines) : SyncedLine(lines[i], exports) \in T
  PROVE  \E f, g :
           /\ f[0] = <<>> /\ g[0] = f[Len(lines)]
           /\ \A i \in 1..Len(lines) :
                f[i] = IF Dropped(lines[i], exports) THEN f[i - 1]
                       ELSE Append(f[i - 1], SyncedLine(lines[i], exports))
           /\ \A i \in 1..Len(exports) :
                g[i] = IF exports[i].name \in NamesOf(lines) THEN g[i - 1] ELSE Append(g[i - 1], exports[i])
           /\ syncSetupExportLines(lines, exports) = g[Len(exports)]
<1> DEFINE n == Len(lines)
           m == Len(exports)
           Filters(f) == f = [i \in 0..n |->
                                IF i = 0 THEN <<>>
                                ELSE IF Dropped(lines[i], exports) THEN f[i - 1]
                                ELSE Append(f[i - 1], SyncedLine(lines[i], exports))]
           filtered == CHOOSE f : Filters(f)
           Adds(g) == g = [i \in 0..m |->
                             IF i = 0 THEN filtered[n]
                             ELSE IF exports[i].name \in NamesOf(lines) THEN g[i - 1]
                             ELSE Append(g[i - 1], exports[i])]
           added == CHOOSE g : Adds(g)
<1>0. /\ n \in Nat /\ m \in Nat
      /\ \A i \in 1..n : lines[i] \in T
      /\ \A i \in 1..m : exports[i] \in T
  BY LenProperties, ElementOfSeq
<1>1. \A s \in Seq(T), x \in T : Append(s, x) \in Seq(T)
  BY AppendProperties
<1>2. \E f \in [0..n -> Seq(T)] : Filters(f)
  <2> DEFINE next == [p \in (1..n) \X Seq(T) |->
                        IF Dropped(lines[p[1]], exports) THEN p[2]
                        ELSE Append(p[2], SyncedLine(lines[p[1]], exports))]
  <2>1. next \in [(1..n) \X Seq(T) -> Seq(T)] /\ <<>> \in Seq(T)
    BY <1>1
  <2>2. PICK f \in [0..n -> Seq(T)] : Folded(f, n, <<>>, next)
    <3> HIDE DEF n, next
    <3> QED BY <1>0, <2>1, FoldExists
  <2>3. ASSUME NEW i \in 0..n, i # 0
        PROVE  f[i] = IF Dropped(lines[i], exports) THEN f[i - 1]
                      ELSE Append(f[i - 1], SyncedLine(lines[i], exports))
    <3>1. i \in 1..n /\ i - 1 \in 0..n
      BY <1>0, <2>3
    <3>2. <<i, f[i - 1]>> \in (1..n) \X Seq(T)
      BY <3>1
    <3>3. f[i] = next[<<i, f[i - 1]>>]
      <4> HIDE DEF next, n
      <4> QED BY <2>2, <2>3 DEF Folded
    <3> HIDE DEF n
    <3> QED BY <3>2, <3>3
  <2>4. f[0] = <<>> /\ f = [i \in 0..n |-> f[i]]
    <3> HIDE DEF next, n
    <3> QED BY <1>0, <2>2 DEF Folded
  <2> HIDE DEF n, next
  <2> QED BY <2>3, <2>4
<1>3. Filters(filtered)
  <2> HIDE DEF Filters
  <2> QED BY <1>2
<1> HIDE DEF filtered
<1>4. /\ filtered[0] = <<>>
      /\ \A i \in 1..n : filtered[i] = IF Dropped(lines[i], exports) THEN filtered[i - 1]
                                      ELSE Append(filtered[i - 1], SyncedLine(lines[i], exports))
  <2>1. \A i \in 1..n : i \in 0..n /\ i # 0
    OBVIOUS
  <2> HIDE DEF n
  <2>2. 0 \in 0..n
    BY <1>0
  <2> QED BY <1>3, <2>1, <2>2
<1>5. filtered[n] \in Seq(T)
  <2> DEFINE Done == {k \in 0..n : filtered[k] \in Seq(T)}
  <2>1. 0 \in Done
    <3> HIDE DEF n
    <3>1. <<>> \in Seq(T) /\ 0 \in 0..n
      BY <1>0
    <3>2. filtered[0] \in Seq(T)
      BY <1>4, <3>1
    <3> QED BY <3>1, <3>2
  <2>2. ASSUME NEW k \in 0..n, k < n, k \in Done PROVE k + 1 \in Done
    <3> DEFINE i == k + 1
    <3>1. i \in 1..n /\ i - 1 = k /\ i \in 0..n
      BY <1>0, <2>2
    <3> HIDE DEF i, n
    <3>2. filtered[i] = IF Dropped(lines[i], exports) THEN filtered[i - 1]
                        ELSE Append(filtered[i - 1], SyncedLine(lines[i], exports))
      BY <1>4, <3>1
    <3>3. SyncedLine(lines[i], exports) \in T
      BY <3>1 DEF n
    <3>4. filtered[k] \in Seq(T)
      BY <2>2
    <3>5. filtered[i] \in Seq(T)
      BY <1>1, <3>1, <3>2, <3>3, <3>4
    <3> QED BY <3>1, <3>5 DEF i
  <2>3. \A k \in 0..n : k < n /\ k \in Done => k + 1 \in Done
    BY <2>2
  <2>4. n \in Done
    <3> HIDE DEF Done, n
    <3>1. n \in 0..n
      BY <1>0
    <3> QED BY <1>0, <2>1, <2>3, <3>1, CountUp
  <2> QED BY <2>4
<1>6. \E g : Adds(g)
  <2> DEFINE next == [p \in (1..m) \X Seq(T) |->
                        IF exports[p[1]].name \in NamesOf(lines) THEN p[2] ELSE Append(p[2], exports[p[1]])]
  <2>1. next \in [(1..m) \X Seq(T) -> Seq(T)]
    BY <1>1
  <2>2. PICK g \in [0..m -> Seq(T)] : Folded(g, m, filtered[n], next)
    <3> HIDE DEF m, n, next
    <3> QED BY <1>0, <1>5, <2>1, FoldExists
  <2>3. ASSUME NEW i \in 0..m, i # 0
        PROVE  g[i] = IF exports[i].name \in NamesOf(lines) THEN g[i - 1] ELSE Append(g[i - 1], exports[i])
    <3>1. i \in 1..m /\ i - 1 \in 0..m
      BY <1>0, <2>3
    <3>2. <<i, g[i - 1]>> \in (1..m) \X Seq(T)
      BY <3>1
    <3>3. g[i] = next[<<i, g[i - 1]>>]
      <4> HIDE DEF next, m, n
      <4> QED BY <2>2, <2>3 DEF Folded
    <3> HIDE DEF m, n
    <3> QED BY <3>2, <3>3
  <2>4. g[0] = filtered[n] /\ g = [i \in 0..m |-> g[i]]
    <3> HIDE DEF next, m, n
    <3> QED BY <1>0, <2>2 DEF Folded
  <2> HIDE DEF m, n, next
  <2> QED BY <2>3, <2>4
<1>7. Adds(added)
  <2> HIDE DEF Adds
  <2> QED BY <1>6
<1>8. syncSetupExportLines(lines, exports) = added[m]
  <2> QED BY DEF syncSetupExportLines, filtered, SyncedLine, Dropped
<1> HIDE DEF added
<1>9. /\ added[0] = filtered[n]
      /\ \A i \in 1..m : added[i] = IF exports[i].name \in NamesOf(lines) THEN added[i - 1]
                                   ELSE Append(added[i - 1], exports[i])
  <2>1. \A i \in 1..m : i \in 0..m /\ i # 0
    OBVIOUS
  <2> HIDE DEF m, n
  <2>2. 0 \in 0..m
    BY <1>0
  <2> QED BY <1>7, <2>1, <2>2
<1> QED BY <1>4, <1>8, <1>9

\* A name that is there once has the value of its line.
LEMMA ValueOf ==
  ASSUME NEW lines, NEW x \in ToSet(lines), \A y \in ToSet(lines) : y.name = x.name => y = x
  PROVE  ValueIn(lines, x.name) = x.value
<1> DEFINE found == CHOOSE y \in ToSet(lines) : y.name = x.name
<1>1. found \in ToSet(lines) /\ found.name = x.name
  OBVIOUS
<1>2. found = x
  BY <1>1
<1> QED BY <1>2 DEF ValueIn

\* The values the lines and the exports give.
LinesGive(a, o, t, k, b) ==
  /\ NamesOf(Lines5(a, o, t, k)) = {"CONFIG", "AGENT_SOCK", "OPERATOR_SOCK", "TOKEN", "KEY"}
  /\ NamesOf(Lines6(a, o, t, k, b)) = {"CONFIG", "AGENT_SOCK", "OPERATOR_SOCK", "TOKEN", "KEY", "BRIDGE"}
  /\ NamesOf(Exports3(a, o)) = {"CONFIG", "AGENT_SOCK", "OPERATOR_SOCK"}
  /\ NamesOf(Exports4(a, o, b)) = {"CONFIG", "AGENT_SOCK", "OPERATOR_SOCK", "BRIDGE"}
  /\ \A lines \in {Lines5(a, o, t, k), Lines6(a, o, t, k, b), Exports3(a, o), Exports4(a, o, b)} :
       /\ ValueIn(lines, "CONFIG") = "config" /\ ValueIn(lines, "AGENT_SOCK") = a
       /\ ValueIn(lines, "OPERATOR_SOCK") = o
       /\ "TOKEN" \in NamesOf(lines) => ValueIn(lines, "TOKEN") = t
       /\ "KEY" \in NamesOf(lines) => ValueIn(lines, "KEY") = k
       /\ "BRIDGE" \in NamesOf(lines) => ValueIn(lines, "BRIDGE") = b

\* They have these names and values, whatever the paths, the token and the key are.
LEMMA LinesHave ==
  ASSUME NEW a, NEW o, NEW t, NEW k, NEW b
  PROVE  LinesGive(a, o, t, k, b)
<1> DEFINE A == Export("CONFIG", "config")
           B == Export("AGENT_SOCK", a)
           C == Export("OPERATOR_SOCK", o)
           D == Export("TOKEN", t)
           E == Export("KEY", k)
           F == Export("BRIDGE", b)
<1>1. /\ ToSet(Lines5(a, o, t, k)) = {A, B, C, D, E}
      /\ ToSet(Lines6(a, o, t, k, b)) = {A, B, C, D, E, F}
      /\ ToSet(Exports3(a, o)) = {A, B, C}
      /\ ToSet(Exports4(a, o, b)) = {A, B, C, F}
  <2> HIDE DEF A, B, C, D, E, F
  <2>1. /\ ToSet(<<A, B, C>>) = {A, B, C} /\ ToSet(<<A, B, C, F>>) = {A, B, C, F}
    BY DEF ToSet
  <2>2. ToSet(<<A, B, C, D, E>>) = {A, B, C, D, E}
    BY DEF ToSet
  <2>3. ToSet(<<A, B, C, D, E, F>>) = {A, B, C, D, E, F}
    BY DEF ToSet
  <2> QED BY <2>1, <2>2, <2>3, Zenon DEF Lines5, Lines6, Exports3, Exports4, A, B, C, D, E, F
<1>2. /\ A.name = "CONFIG" /\ B.name = "AGENT_SOCK" /\ C.name = "OPERATOR_SOCK" /\ D.name = "TOKEN"
      /\ E.name = "KEY" /\ F.name = "BRIDGE" /\ A.value = "config" /\ B.value = a /\ C.value = o
      /\ D.value = t /\ E.value = k /\ F.value = b
  BY DEF Export
<1> HIDE DEF A, B, C, D, E, F
<1>3. /\ NamesOf(Lines5(a, o, t, k)) = {"CONFIG", "AGENT_SOCK", "OPERATOR_SOCK", "TOKEN", "KEY"}
      /\ NamesOf(Lines6(a, o, t, k, b)) = {"CONFIG", "AGENT_SOCK", "OPERATOR_SOCK", "TOKEN", "KEY", "BRIDGE"}
      /\ NamesOf(Exports3(a, o)) = {"CONFIG", "AGENT_SOCK", "OPERATOR_SOCK"}
      /\ NamesOf(Exports4(a, o, b)) = {"CONFIG", "AGENT_SOCK", "OPERATOR_SOCK", "BRIDGE"}
  BY <1>1, <1>2 DEF NamesOf
<1>4. ASSUME NEW lines \in {Lines5(a, o, t, k), Lines6(a, o, t, k, b), Exports3(a, o), Exports4(a, o, b)}
      PROVE  /\ ValueIn(lines, "CONFIG") = "config" /\ ValueIn(lines, "AGENT_SOCK") = a
             /\ ValueIn(lines, "OPERATOR_SOCK") = o
             /\ "TOKEN" \in NamesOf(lines) => ValueIn(lines, "TOKEN") = t
             /\ "KEY" \in NamesOf(lines) => ValueIn(lines, "KEY") = k
             /\ "BRIDGE" \in NamesOf(lines) => ValueIn(lines, "BRIDGE") = b
  <2>1. /\ {A, B, C} \subseteq ToSet(lines) /\ ToSet(lines) \subseteq {A, B, C, D, E, F}
    BY <1>1
  <2>2. \A x, y \in {A, B, C, D, E, F} : y.name = x.name => y = x
    BY <1>2
  <2>3. \A x \in ToSet(lines) : ValueIn(lines, x.name) = x.value
    BY <2>1, <2>2, ValueOf
  <2>4. /\ "TOKEN" \in NamesOf(lines) => D \in ToSet(lines)
        /\ "KEY" \in NamesOf(lines) => E \in ToSet(lines)
        /\ "BRIDGE" \in NamesOf(lines) => F \in ToSet(lines)
    BY <1>2, <2>1 DEF NamesOf
  <2>5. /\ ValueIn(lines, A.name) = A.value /\ ValueIn(lines, B.name) = B.value /\ ValueIn(lines, C.name) = C.value
        /\ D \in ToSet(lines) => ValueIn(lines, D.name) = D.value
        /\ E \in ToSet(lines) => ValueIn(lines, E.name) = E.value
        /\ F \in ToSet(lines) => ValueIn(lines, F.name) = F.value
    BY <2>1, <2>3
  <2> QED BY <1>2, <2>4, <2>5
<1> QED BY <1>3, <1>4, Zenon DEF LinesGive

\* What the refresh makes of the lines of an instance.env: those of the new layout
\* with the token and the key it had (syncSetupExportLines).
LEMMA LinesSynced ==
  ASSUME NEW a, NEW o, NEW t, NEW k, NEW b, NEW c, NEW p, NEW d
  PROVE  /\ syncSetupExportLines(Lines5(a, o, t, k), Exports3(c, p)) = Lines5(c, p, t, k)
         /\ syncSetupExportLines(Lines6(a, o, t, k, b), Exports3(c, p)) = Lines5(c, p, t, k)
         /\ syncSetupExportLines(Lines6(a, o, t, k, b), Exports4(c, p, d)) = Lines6(c, p, t, k, d)
<1> DEFINE A == Export("CONFIG", "config")
           B == Export("AGENT_SOCK", c)
           C == Export("OPERATOR_SOCK", p)
           D == Export("TOKEN", t)
           E == Export("KEY", k)
           F == Export("BRIDGE", d)
           B0 == Export("AGENT_SOCK", a)
           C0 == Export("OPERATOR_SOCK", o)
           F0 == Export("BRIDGE", b)
           T == {A, B, C, D, E, F, B0, C0, F0}
           five == Lines5(a, o, t, k)
           six == Lines6(a, o, t, k, b)
           three == Exports3(c, p)
           four == Exports4(c, p, d)
<1>1. /\ A.name = "CONFIG" /\ B.name = "AGENT_SOCK" /\ C.name = "OPERATOR_SOCK" /\ D.name = "TOKEN"
      /\ E.name = "KEY" /\ F.name = "BRIDGE" /\ B0.name = "AGENT_SOCK" /\ C0.name = "OPERATOR_SOCK"
      /\ F0.name = "BRIDGE"
  BY DEF Export
<1>2. /\ five = <<A, B0, C0, D, E>> /\ six = <<A, B0, C0, D, E, F0>> /\ three = <<A, B, C>> /\ four = <<A, B, C, F>>
      /\ Lines5(c, p, t, k) = <<A, B, C, D, E>> /\ Lines6(c, p, t, k, d) = <<A, B, C, D, E, F>>
  BY Zenon DEF Lines5, Lines6, Exports3, Exports4
<1>3. \A exports \in {three, four} :
        /\ SyncedLine(A, exports) = A /\ SyncedLine(B0, exports) = B /\ SyncedLine(C0, exports) = C
        /\ SyncedLine(D, exports) = D /\ SyncedLine(E, exports) = E
        /\ ~Dropped(A, exports) /\ ~Dropped(B0, exports) /\ ~Dropped(C0, exports)
        /\ ~Dropped(D, exports) /\ ~Dropped(E, exports)
        /\ SyncedLine(F0, exports) \in {F0, F}
  <2> TAKE exports \in {three, four}
  <2>0. /\ NamesOf(three) = {"CONFIG", "AGENT_SOCK", "OPERATOR_SOCK"}
        /\ NamesOf(four) = {"CONFIG", "AGENT_SOCK", "OPERATOR_SOCK", "BRIDGE"}
        /\ ValueIn(exports, "CONFIG") = "config" /\ ValueIn(exports, "AGENT_SOCK") = c
        /\ ValueIn(exports, "OPERATOR_SOCK") = p
        /\ "BRIDGE" \in NamesOf(exports) => ValueIn(exports, "BRIDGE") = d
    <3> HIDE DEF A, B, C, D, E, F, B0, C0, F0, T, five, six
    <3>1. exports \in {Lines5(c, p, t, k), Lines6(c, p, t, k, d), Exports3(c, p), Exports4(c, p, d)}
      OBVIOUS
    <3> HIDE DEF three, four
    <3>2. LinesGive(c, p, t, k, d)
      BY Zenon, LinesHave
    <3> QED BY <3>1, <3>2, Zenon DEF three, four, LinesGive
  <2>1. /\ {"CONFIG", "AGENT_SOCK", "OPERATOR_SOCK"} \subseteq NamesOf(exports)
        /\ "TOKEN" \notin NamesOf(exports) /\ "KEY" \notin NamesOf(exports)
        /\ ValueIn(exports, "CONFIG") = "config" /\ ValueIn(exports, "AGENT_SOCK") = c
        /\ ValueIn(exports, "OPERATOR_SOCK") = p
        /\ "BRIDGE" \in NamesOf(exports) => ValueIn(exports, "BRIDGE") = d
    <3> HIDE DEF A, B, C, D, E, F, B0, C0, F0, T, five, six, three, four
    <3> QED BY <2>0
  <2>2. SyncedLine(A, exports) = A /\ SyncedLine(B0, exports) = B /\ SyncedLine(C0, exports) = C
    <3> HIDE DEF three, four
    <3>1. A.name \in NamesOf(exports) /\ B0.name \in NamesOf(exports) /\ C0.name \in NamesOf(exports)
      <4> HIDE DEF A, B0, C0
      <4> QED BY <1>1, <2>1
    <3> QED BY <1>1, <2>1, <3>1, Zenon DEF SyncedLine
  <2>3. SyncedLine(D, exports) = D /\ SyncedLine(E, exports) = E /\ SyncedLine(F0, exports) \in {F0, F}
    <3> HIDE DEF three, four
    <3>1. SyncedLine(F0, exports) \in {F0, F}
      <4>1. F0.name \in NamesOf(exports) => Export(F0.name, ValueIn(exports, F0.name)) = F
        BY <1>1, <2>1, Zenon
      <4> HIDE DEF F0, F
      <4> QED BY <4>1 DEF SyncedLine
    <3> HIDE DEF D, E
    <3> QED BY <1>1, <2>1, <3>1 DEF SyncedLine
  <2>4. ~Dropped(A, exports) /\ ~Dropped(B0, exports) /\ ~Dropped(C0, exports) /\ ~Dropped(D, exports)
        /\ ~Dropped(E, exports)
    <3> HIDE DEF A, B0, C0, D, E, three, four
    <3> QED BY <1>1, <2>1 DEF Dropped, Managed
  <2> QED BY <2>2, <2>3, <2>4
<1>4. SyncedLine(F0, four) = F /\ ~Dropped(F0, four) /\ Dropped(F0, three)
  <2>1. "BRIDGE" \in NamesOf(four) /\ ValueIn(four, "BRIDGE") = d /\ "BRIDGE" \notin NamesOf(three)
    <3> HIDE DEF A, B, C, D, E, F, B0, C0, F0, T, five, six
    <3>1. /\ NamesOf(four) = {"CONFIG", "AGENT_SOCK", "OPERATOR_SOCK", "BRIDGE"}
          /\ NamesOf(three) = {"CONFIG", "AGENT_SOCK", "OPERATOR_SOCK"}
      <4>1. LinesGive(c, p, t, k, d)
        BY Zenon, LinesHave
      <4> QED BY <4>1, Zenon DEF LinesGive
    <3>2. four \in {Lines5(c, p, t, k), Lines6(c, p, t, k, d), Exports3(c, p), Exports4(c, p, d)}
      OBVIOUS
    <3> HIDE DEF three, four
    <3>3. "BRIDGE" \in NamesOf(four)
      BY <3>1
    <3>4. ValueIn(four, "BRIDGE") = d
      <4>1. LinesGive(c, p, t, k, d)
        BY Zenon, LinesHave
      <4> QED BY <3>2, <3>3, <4>1, Zenon DEF LinesGive
    <3> QED BY <3>1, <3>3, <3>4
  <2>2. SyncedLine(F0, four) = F
    <3> HIDE DEF four
    <3> QED BY <1>1, <2>1, Zenon DEF SyncedLine
  <2> HIDE DEF F0, three, four
  <2> QED BY <1>1, <2>1, <2>2 DEF Dropped, Managed
<1>5. /\ {A.name, B.name, C.name} \subseteq NamesOf(five)
      /\ {A.name, B.name, C.name, F.name} \subseteq NamesOf(six)
  <2>1. /\ {"CONFIG", "AGENT_SOCK", "OPERATOR_SOCK"} \subseteq NamesOf(five)
        /\ {"CONFIG", "AGENT_SOCK", "OPERATOR_SOCK", "BRIDGE"} \subseteq NamesOf(six)
    <3>1. LinesGive(a, o, t, k, b)
      BY Zenon, LinesHave
    <3>2. /\ NamesOf(five) = {"CONFIG", "AGENT_SOCK", "OPERATOR_SOCK", "TOKEN", "KEY"}
          /\ NamesOf(six) = {"CONFIG", "AGENT_SOCK", "OPERATOR_SOCK", "TOKEN", "KEY", "BRIDGE"}
      BY <3>1, Zenon DEF LinesGive
    <3> HIDE DEF five, six
    <3> QED BY <3>2
  <2> HIDE DEF A, B, C, F, five, six
  <2> QED BY <1>1, <2>1
<1> HIDE DEF A, B, C, D, E, F, B0, C0, F0, five, six, three, four
<1>6. /\ five \in Seq(T) /\ Len(five) = 5 /\ six \in Seq(T) /\ Len(six) = 6
      /\ three \in Seq(T) /\ Len(three) = 3 /\ four \in Seq(T) /\ Len(four) = 4
  BY <1>2
<1>7. /\ five[1] = A /\ five[2] = B0 /\ five[3] = C0 /\ five[4] = D /\ five[5] = E
      /\ six[1] = A /\ six[2] = B0 /\ six[3] = C0 /\ six[4] = D /\ six[5] = E /\ six[6] = F0
      /\ three[1] = A /\ three[2] = B /\ three[3] = C
      /\ four[1] = A /\ four[2] = B /\ four[3] = C /\ four[4] = F
  BY <1>2
\* The first five lines come out alike, and no export is added.
<1>8. ASSUME NEW lines \in {five, six}, NEW exports \in {three, four}
      PROVE  \E f : /\ f[5] = <<A, B, C, D, E>>
                    /\ lines = six => f[6] = IF Dropped(F0, exports) THEN f[5]
                                            ELSE Append(f[5], SyncedLine(F0, exports))
                    /\ (lines = six \/ exports = three) => syncSetupExportLines(lines, exports) = f[Len(lines)]
  <2>1. \A i \in 1..Len(lines) : SyncedLine(lines[i], exports) \in T
    <3>1. \A i \in 1..Len(lines) : lines[i] \in {A, B0, C0, D, E, F0}
      <4>1. CASE lines = five
        <5>1. \A i \in 1..5 : i \in {1, 2, 3, 4, 5}
          OBVIOUS
        <5> QED BY <1>6, <1>7, <4>1, <5>1
      <4>2. CASE lines = six
        <5>1. \A i \in 1..6 : i \in {1, 2, 3, 4, 5, 6}
          OBVIOUS
        <5> QED BY <1>6, <1>7, <4>2, <5>1
      <4> QED BY <4>1, <4>2
    <3> QED BY <1>3, <3>1
  <2>2. PICK f, g :
           /\ f[0] = <<>> /\ g[0] = f[Len(lines)]
           /\ \A i \in 1..Len(lines) :
                f[i] = IF Dropped(lines[i], exports) THEN f[i - 1]
                       ELSE Append(f[i - 1], SyncedLine(lines[i], exports))
           /\ \A i \in 1..Len(exports) :
                g[i] = IF exports[i].name \in NamesOf(lines) THEN g[i - 1] ELSE Append(g[i - 1], exports[i])
           /\ syncSetupExportLines(lines, exports) = g[Len(exports)]
    <3>1. lines \in Seq(T) /\ exports \in Seq(T)
      BY <1>6
    <3> HIDE DEF T
    <3> QED BY <2>1, <3>1, SyncScans
  <2>3. /\ f[1] = Append(f[0], A) /\ f[2] = Append(f[1], B) /\ f[3] = Append(f[2], C)
        /\ f[4] = Append(f[3], D) /\ f[5] = Append(f[4], E)
        /\ lines = six => f[6] = IF Dropped(F0, exports) THEN f[5] ELSE Append(f[5], SyncedLine(F0, exports))
    <3>1. /\ lines[1] = A /\ lines[2] = B0 /\ lines[3] = C0 /\ lines[4] = D /\ lines[5] = E
          /\ Len(lines) \in {5, 6} /\ (lines = six => lines[6] = F0 /\ Len(lines) = 6)
      BY <1>6, <1>7
    <3>2. 1 \in 1..Len(lines) /\ 2 \in 1..Len(lines) /\ 3 \in 1..Len(lines) /\ 4 \in 1..Len(lines)
          /\ 5 \in 1..Len(lines) /\ (lines = six => 6 \in 1..Len(lines))
          /\ 1 - 1 = 0 /\ 2 - 1 = 1 /\ 3 - 1 = 2 /\ 4 - 1 = 3 /\ 5 - 1 = 4 /\ 6 - 1 = 5
      BY <3>1
    <3>3. f[1] = Append(f[0], SyncedLine(lines[1], exports)) /\ f[2] = Append(f[1], SyncedLine(lines[2], exports))
      BY <1>3, <2>2, <3>1, <3>2
    <3>4. f[3] = Append(f[2], SyncedLine(lines[3], exports)) /\ f[4] = Append(f[3], SyncedLine(lines[4], exports))
      BY <1>3, <2>2, <3>1, <3>2
    <3>5. f[5] = Append(f[4], SyncedLine(lines[5], exports))
      BY <1>3, <2>2, <3>1, <3>2
    <3>6. lines = six => f[6] = IF Dropped(F0, exports) THEN f[5] ELSE Append(f[5], SyncedLine(F0, exports))
      BY <2>2, <3>1, <3>2
    <3> QED BY <1>3, <3>1, <3>3, <3>4, <3>5, <3>6
  <2>4. f[5] = <<A, B, C, D, E>>
    <3>1. f[1] = <<A>>
      BY <2>2, <2>3, Appended
    <3>2. f[2] = <<A, B>>
      BY <2>3, <3>1, Appended
    <3>3. f[3] = <<A, B, C>>
      BY <2>3, <3>2, Appended
    <3>4. f[4] = <<A, B, C, D>>
      BY <2>3, <3>3, Appended
    <3> QED BY <2>3, <3>4, Appended
  <2>5. lines = six \/ exports = three => g[Len(exports)] = g[0]
    <3>1. ASSUME NEW i \in 1..Len(exports), lines = six \/ exports = three PROVE g[i] = g[i - 1]
      <4>1. exports[i].name \in NamesOf(lines)
        <5>1. CASE exports = three
          <6>1. exports[i] \in {A, B, C}
            <7>1. \A j \in 1..3 : j \in {1, 2, 3}
              OBVIOUS
            <7> QED BY <1>6, <1>7, <5>1, <7>1
          <6> QED BY <1>5, <6>1
        <5>2. CASE exports = four
          <6>1. exports[i] \in {A, B, C, F}
            <7>1. \A j \in 1..4 : j \in {1, 2, 3, 4}
              OBVIOUS
            <7> QED BY <1>6, <1>7, <5>2, <7>1
          <6>2. lines = six \/ exports[i] \in {A, B, C}
            <7>1. three # four
              <8>1. Len(three) = 3 /\ Len(four) = 4
                BY <1>6
              <8> QED BY <8>1
            <7> QED BY <3>1, <5>2, <7>1
          <6> QED BY <1>5, <6>1, <6>2
        <5> QED BY <5>1, <5>2
      <4> QED BY <2>2, <4>1
    <3>2. /\ 1 - 1 = 0 /\ 2 - 1 = 1 /\ 3 - 1 = 2 /\ 4 - 1 = 3
          /\ 1 \in 1..Len(exports) /\ 2 \in 1..Len(exports) /\ 3 \in 1..Len(exports)
          /\ Len(exports) \in {3, 4} /\ (Len(exports) = 4 => 4 \in 1..Len(exports))
      <4>1. Len(exports) \in {3, 4}
        BY <1>6
      <4> QED BY <4>1
    <3> SUFFICES ASSUME lines = six \/ exports = three PROVE g[Len(exports)] = g[0]
      OBVIOUS
    <3>3. g[1] = g[0] /\ g[2] = g[1] /\ g[3] = g[2] /\ (Len(exports) = 4 => g[4] = g[3])
      BY <3>1, <3>2
    <3> QED BY <3>2, <3>3
  <2> QED BY <2>2, <2>3, <2>4, <2>5
<1>9. syncSetupExportLines(five, three) = <<A, B, C, D, E>>
  BY <1>6, <1>8
<1>10. syncSetupExportLines(six, three) = <<A, B, C, D, E>>
  BY <1>4, <1>6, <1>8
<1>11. syncSetupExportLines(six, four) = <<A, B, C, D, E, F>>
  <2>1. PICK f : f[5] = <<A, B, C, D, E>> /\ f[6] = Append(f[5], F) /\ syncSetupExportLines(six, four) = f[6]
    BY <1>4, <1>6, <1>8
  <2> QED BY <2>1, Appended
<1> QED BY <1>2, <1>9, <1>10, <1>11 DEF five, six, three, four

------------------------------------------------------------------------------
\* The broker that is started on a whole configuration.

\* Its environment: the path of the configuration, and the exports that are there.
LEMMA EnvOfBroker ==
  ASSUME Detected # ""
  PROVE  /\ BrokerEnv["CONFIG"] = "config"
         /\ \A v \in Transport!EnvVars \ {"CONFIG"} :
              BrokerEnv[v] = IF envFile.text # "absent" /\ v \in NamesOf(envFile.lines)
                             THEN ValueIn(envFile.lines, v) ELSE ""
<1>1. Detected = "config" /\ envFile.text # "absent"
  BY DEF Detected
<1> DEFINE exports == [p \in {"config"} |-> loadWorkspaceSetupEnvExports]
           named == [Blank EXCEPT !["CONFIG"] = "config"]
<1>2. BrokerEnv = Transport!daemonEnv("", Blank, "config", exports)
  BY <1>1, Zenon DEF BrokerEnv
<1>3. Transport!resolvedWorkspaceSetupConfigPath(Transport!Or("", Blank["CONFIG"]), "config") = "config"
  BY DEF Transport!resolvedWorkspaceSetupConfigPath, Transport!Or, Blank, Transport!EnvVars
<1>4. Transport!daemonEnv("", Blank, "config", exports) = Transport!mergeMissingEnv(named, exports["config"])
  BY <1>3 DEF Transport!daemonEnv
<1>5. exports["config"] = loadWorkspaceSetupEnvExports
  OBVIOUS
<1>6. BrokerEnv = Transport!mergeMissingEnv(named, loadWorkspaceSetupEnvExports)
  BY <1>2, <1>4, <1>5
<1>7. named["CONFIG"] = "config" /\ \A v \in Transport!EnvVars \ {"CONFIG"} : named[v] = ""
  BY DEF Blank, Transport!EnvVars
<1>8. "CONFIG" \in Transport!EnvVars
  BY DEF Transport!EnvVars
<1> HIDE DEF named
<1> QED BY <1>1, <1>6, <1>7, <1>8 DEF Transport!mergeMissingEnv, loadWorkspaceSetupEnvExports

\* The configuration it runs with: that of the file, the profile applied, under its environment.
Effective(d) == Transport!applyEnvOverrides(Transport!applyProfile(d, goos), BrokerEnv)

\* The layouts of a host: the old one, and the one a run writes now.
KnownOS == goos \in {"linux", "darwin"}
Layouts == {OldLayout, buildWorkspaceSetupLayout(goos)}

\* The fields of a configuration that setup has written.
DocSays(d, L, t) ==
  /\ d = [f \in Fields |-> d[f]]
  /\ d.profile = "hardened" /\ d.local = TRUE /\ d.legacy = "" /\ d.agent = L.agent
  /\ d.operator = L.operator /\ d.bridge = L.bridge /\ d.bridgeKey = (L.bridge # "")
  /\ d.execPolicy = TRUE /\ d.auth = TRUE /\ d.token = t /\ d.durable = TRUE
  /\ L.agent # "" /\ L.operator # "" /\ L.agent # L.operator /\ L.bridge \in {"", "loopback"}
  /\ L.bridge = "" => goos = "linux"

\* A written configuration has the thirteen fields and the paths of its layout.
LEMMA DocFields ==
  ASSUME NEW L \in Layouts, NEW t, KnownOS
  PROVE  DocSays(buildWorkspaceSetupConfig(L, t).doc, L, t)
<1> DEFINE d == buildWorkspaceSetupConfig(L, t).doc
<1>2. d = [f \in Fields |-> d[f]]
  BY DocWhole, Zenon DEF Shaped
<1>3. /\ d.profile = "hardened" /\ d.local = TRUE /\ d.legacy = "" /\ d.agent = L.agent
      /\ d.operator = L.operator /\ d.bridge = L.bridge
      /\ d.execPolicy = TRUE /\ d.auth = TRUE /\ d.token = t /\ d.durable = TRUE
  BY DEF buildWorkspaceSetupConfig
<1>4. d.bridgeKey = (L.bridge # "")
  BY DEF buildWorkspaceSetupConfig
<1>5. /\ L.agent # "" /\ L.operator # "" /\ L.agent # L.operator /\ L.bridge \in {"", "loopback"}
      /\ L.bridge = "" => goos = "linux"
  <2>1. CASE L = OldLayout
    BY <2>1 DEF OldLayout
  <2>2. CASE L = buildWorkspaceSetupLayout(goos)
    BY <2>2 DEF KnownOS, buildWorkspaceSetupLayout, Transport!DefaultBridge
  <2> QED BY <2>1, <2>2 DEF Layouts
<1> HIDE DEF d
<1>6. DocSays(d, L, t)
  BY <1>2, <1>3, <1>4, <1>5, Zenon DEF DocSays
<1> QED BY <1>6, Zenon DEF d

\* Those the broker runs with, and those a client reads.
EffectiveSays(c, p, L, t) ==
  /\ c.profile = "hardened" /\ c.auth = TRUE /\ c.durable = TRUE /\ c.local = TRUE
  /\ c.legacy = Transport!Or(BrokerEnv["LEGACY_SOCK"], "")
  /\ c.agent = Transport!Or(BrokerEnv["AGENT_SOCK"], L.agent)
  /\ c.operator = Transport!Or(BrokerEnv["OPERATOR_SOCK"], L.operator)
  /\ c.bridge = Transport!Or(BrokerEnv["BRIDGE"], L.bridge)
  /\ c.token = Transport!Or(BrokerEnv["TOKEN"], t)
  /\ p.operator = L.operator /\ p.legacy = "" /\ p.token = t
Configured(d, L, t) == EffectiveSays(Effective(d), Transport!applyProfile(d, goos), L, t)

\* The profile changes no path of a written configuration, and the environment overrides them.
LEMMA EffectiveFields ==
  ASSUME NEW L \in Layouts, NEW t, KnownOS
  PROVE  Configured(buildWorkspaceSetupConfig(L, t).doc, L, t)
<1> DEFINE d == buildWorkspaceSetupConfig(L, t).doc
           p == Transport!applyProfile(d, goos)
           c == Effective(d)
<1>1. /\ d = [f \in Fields |-> d[f]]
      /\ d.profile = "hardened" /\ d.local = TRUE /\ d.legacy = "" /\ d.agent = L.agent
      /\ d.operator = L.operator /\ d.bridge = L.bridge /\ d.bridgeKey = (L.bridge # "")
      /\ d.execPolicy = TRUE /\ d.auth = TRUE /\ d.token = t /\ d.durable = TRUE
      /\ L.agent # "" /\ L.operator # "" /\ L.agent # L.operator /\ L.bridge \in {"", "loopback"}
      /\ L.bridge = "" => goos = "linux"
  <2>1. DocSays(d, L, t)
    <3>1. DocSays(buildWorkspaceSetupConfig(L, t).doc, L, t)
      BY DocFields
    <3> QED BY <3>1, Zenon DEF d
  <2> HIDE DEF d
  <2> QED BY <2>1, Zenon DEF DocSays
<1> HIDE DEF d
<1>2. Transport!AnySocket(d) /\ Transport!UsesDualUnixSockets(d)
  BY <1>1 DEF Transport!AnySocket, Transport!UsesDualUnixSockets
<1> DEFINE bridge == IF ~Transport!bridgeConfigured(d) /\ Transport!UsesDualUnixSockets(d)
                     THEN Transport!DefaultBridge(goos) ELSE d.bridge
<1>3. p = [d EXCEPT !.maxTO = Transport!AtMost(d.maxTO, 120), !.defaultTO = Transport!AtMost(d.defaultTO, 60),
                    !.bridge = bridge]
  BY <1>1, <1>2, Zenon DEF Transport!applyProfile
<1>4. bridge = L.bridge
  BY <1>1, <1>2 DEF Transport!bridgeConfigured, Transport!DefaultBridge, KnownOS
<1> HIDE DEF bridge
<1>5. /\ p = [f \in Fields |-> p[f]]
      /\ p.profile = "hardened" /\ p.local = TRUE /\ p.legacy = "" /\ p.agent = L.agent
      /\ p.operator = L.operator /\ p.bridge = L.bridge
      /\ p.auth = TRUE /\ p.token = t /\ p.durable = TRUE
  <2> HIDE DEF p
  <2>1. /\ p.profile = d.profile /\ p.local = d.local /\ p.legacy = d.legacy /\ p.agent = d.agent
        /\ p.operator = d.operator /\ p.bridge = bridge /\ p.auth = d.auth /\ p.token = d.token
        /\ p.durable = d.durable
    BY <1>1, <1>3 DEF Fields
  <2>2. p = [f \in Fields |-> p[f]]
    BY <1>1, <1>3 DEF Fields
  <2> QED BY <1>1, <1>4, <2>1, <2>2
<1>6. c = Transport!applyEnvOverrides(p, BrokerEnv)
  BY Zenon DEF Effective
<1> HIDE DEF p, c
<1>7. /\ c.profile = p.profile /\ c.auth = p.auth /\ c.durable = p.durable /\ c.local = p.local
      /\ c.legacy = Transport!Or(BrokerEnv["LEGACY_SOCK"], p.legacy)
      /\ c.agent = Transport!Or(BrokerEnv["AGENT_SOCK"], p.agent)
      /\ c.operator = Transport!Or(BrokerEnv["OPERATOR_SOCK"], p.operator)
      /\ c.bridge = Transport!Or(BrokerEnv["BRIDGE"], p.bridge)
      /\ c.token = Transport!Or(BrokerEnv["TOKEN"], p.token)
  BY <1>5, <1>6 DEF Transport!applyEnvOverrides, Fields
<1>8. EffectiveSays(c, p, L, t)
  BY <1>5, <1>7 DEF EffectiveSays
<1> QED BY <1>8, Zenon DEF c, p, d, Configured

\* What is served: the listeners of that configuration, if it passes its checks.
Passes(c) ==
  /\ Transport!validateSocketConfig(c) /\ Transport!validateSecurityProfile(c, FALSE)
  /\ Transport!validateDeploymentMode(c, BrokerEnv) /\ (c.auth => c.token # "")
  /\ Transport!validateTransportSafety(c, FALSE)

\* A start on a whole configuration runs these checks and opens these listeners (Start).
LEMMA ServedOn ==
  ASSUME Detected # "", configFile.text = "whole"
  PROVE  /\ Files["config"] = configFile.doc
         /\ Transport!Load(Files, "config", goos) = Transport!applyProfile(configFile.doc, goos)
         /\ Served = IF Passes(Effective(configFile.doc))
                     THEN Transport!serveConfiguredListeners(Effective(configFile.doc)) ELSE {}
<1> DEFINE p == Transport!applyProfile(configFile.doc, goos)
<1>1. Files = [q \in {"config"} |-> configFile.doc]
  BY DEF Files
<1>2. "config" \in DOMAIN Files /\ Files["config"] = configFile.doc
  BY <1>1
<1>3. Transport!Load(Files, "config", goos) = p
  BY <1>2, Zenon DEF Transport!Load
<1>4. Transport!Or(BrokerEnv["CONFIG"], Transport!EtcConfig) = "config"
  BY EnvOfBroker DEF Transport!Or
<1>5. Served = Transport!Start(Files, BrokerEnv, goos, FALSE)
  BY DEF Served
<1> HIDE DEF p
<1>6. Served = IF Passes(Effective(configFile.doc))
               THEN Transport!serveConfiguredListeners(Effective(configFile.doc)) ELSE {}
  BY <1>3, <1>4, <1>5, Zenon DEF Transport!Start, Passes, Effective, p
<1> QED BY <1>2, <1>3, <1>6 DEF p

\* No broker runs without the key its auth store is to be encrypted with.
LEMMA KeyNeeded ==
  ASSUME NEW L \in Layouts, NEW t, KnownOS,
         configFile = buildWorkspaceSetupConfig(L, t), Detected # "", Served # {}
  PROVE  BrokerEnv["KEY"] # ""
<1> DEFINE c == Effective(configFile.doc)
           p == Transport!applyProfile(configFile.doc, goos)
<1>1. configFile.text = "whole"
  BY DEF buildWorkspaceSetupConfig
<1>2. EffectiveSays(c, p, L, t)
  <2>1. Configured(buildWorkspaceSetupConfig(L, t).doc, L, t)
    BY EffectiveFields
  <2> QED BY <2>1, Zenon DEF Configured
<1>3. Transport!validateDeploymentMode(c, BrokerEnv)
  BY <1>1, ServedOn DEF Passes
<1> HIDE DEF c, p
<1>4. c.auth = TRUE /\ c.profile = "hardened"
  BY <1>2 DEF EffectiveSays
<1> QED BY <1>3, <1>4 DEF Transport!validateDeploymentMode, Transport!Profile

\* The environment that a whole instance.env makes.
LEMMA EnvFromFile ==
  ASSUME NEW L \in Layouts, NEW t, NEW k, KnownOS,
         envFile = buildWorkspaceSetupEnvFile(L, t, k), Detected # ""
  PROVE  /\ BrokerEnv["LEGACY_SOCK"] = "" /\ BrokerEnv["AGENT_SOCK"] = L.agent
         /\ BrokerEnv["OPERATOR_SOCK"] = L.operator /\ BrokerEnv["BRIDGE"] = L.bridge
         /\ BrokerEnv["TOKEN"] = t /\ BrokerEnv["KEY"] = k
<1> DEFINE lines == IF L.bridge = "" THEN Lines5(L.agent, L.operator, t, k)
                    ELSE Lines6(L.agent, L.operator, t, k, L.bridge)
<1>1. envFile = [text |-> "whole", lines |-> lines]
  BY EnvLines, Zenon
<1> HIDE DEF lines
<1>2. envFile.text # "absent" /\ envFile.lines = lines
  <2>1. ASSUME NEW x
        PROVE  [text |-> "whole", lines |-> x].text = "whole" /\ [text |-> "whole", lines |-> x].lines = x
    OBVIOUS
  <2>2. envFile.text = "whole" /\ envFile.lines = lines
    BY <1>1, <2>1, Zenon
  <2> QED BY <2>2
<1>3. LinesGive(L.agent, L.operator, t, k, L.bridge)
  BY LinesHave, Zenon
<1>4. {"LEGACY_SOCK", "AGENT_SOCK", "OPERATOR_SOCK", "BRIDGE", "TOKEN", "KEY"}
        \subseteq Transport!EnvVars \ {"CONFIG"}
  BY DEF Transport!EnvVars
<1>5. \A v \in {"LEGACY_SOCK", "AGENT_SOCK", "OPERATOR_SOCK", "BRIDGE", "TOKEN", "KEY"} :
        BrokerEnv[v] = IF v \in NamesOf(lines) THEN ValueIn(lines, v) ELSE ""
  BY <1>2, <1>4, EnvOfBroker
<1>6. /\ "LEGACY_SOCK" \notin NamesOf(lines) /\ "AGENT_SOCK" \in NamesOf(lines) /\ "OPERATOR_SOCK" \in NamesOf(lines)
      /\ "TOKEN" \in NamesOf(lines) /\ "KEY" \in NamesOf(lines) /\ ("BRIDGE" \in NamesOf(lines) <=> L.bridge # "")
  <2>1. CASE L.bridge = ""
    <3>1. lines = Lines5(L.agent, L.operator, t, k)
      BY <2>1 DEF lines
    <3>2. NamesOf(lines) = {"CONFIG", "AGENT_SOCK", "OPERATOR_SOCK", "TOKEN", "KEY"}
      BY <1>3, <3>1, Zenon DEF LinesGive
    <3> QED BY <2>1, <3>2
  <2>2. CASE L.bridge # ""
    <3>1. lines = Lines6(L.agent, L.operator, t, k, L.bridge)
      BY <2>2 DEF lines
    <3>2. NamesOf(lines) = {"CONFIG", "AGENT_SOCK", "OPERATOR_SOCK", "TOKEN", "KEY", "BRIDGE"}
      BY <1>3, <3>1, Zenon DEF LinesGive
    <3> QED BY <2>2, <3>2
  <2> QED BY <2>1, <2>2
<1>7. /\ ValueIn(lines, "AGENT_SOCK") = L.agent /\ ValueIn(lines, "OPERATOR_SOCK") = L.operator
      /\ ValueIn(lines, "TOKEN") = t /\ ValueIn(lines, "KEY") = k
      /\ ("BRIDGE" \in NamesOf(lines) => ValueIn(lines, "BRIDGE") = L.bridge)
  <2>1. lines \in {Lines5(L.agent, L.operator, t, k), Lines6(L.agent, L.operator, t, k, L.bridge),
                   Exports3(L.agent, L.operator), Exports4(L.agent, L.operator, L.bridge)}
    BY DEF lines
  <2> QED BY <1>3, <1>6, <2>1, Zenon DEF LinesGive
<1> QED BY <1>5, <1>6, <1>7

\* The two files setup writes, with the token t and the key k.
Written(t, k) ==
  /\ configFile = buildWorkspaceSetupConfig(buildWorkspaceSetupLayout(goos), t)
  /\ envFile = buildWorkspaceSetupEnvFile(buildWorkspaceSetupLayout(goos), t, k)

\* On them a broker serves the operator where watch looks, and takes its token.
LEMMA ReadyServes ==
  ASSUME NEW t, NEW k, KnownOS, t # "", k # "", Written(t, k)
  PROVE  LET noFlags == [unix |-> "", url |-> ""]
             socket == Transport!workspaceSetupBrokerSocket("operator", Files, Blank, Detected, goos)
             found == Transport!resolveBrokerSelection("operator", noFlags, socket, Blank,
                        Transport!StatOf(Served, {"na", "no", "xa", "xo", "da", "do"}))
             token == Transport!applyEnvOverrides(configFile.doc, BrokerEnv).token
         IN /\ [role |-> "operator", transport |-> found] \in Served
            /\ token = Transport!defaultOperatorToken(Files, Blank, Detected, goos)
<1> DEFINE L == buildWorkspaceSetupLayout(goos)
           d == configFile.doc
           c == Effective(d)
           p == Transport!applyProfile(d, goos)
           flags == [unix |-> "", url |-> ""]
           socket == Transport!workspaceSetupBrokerSocket("operator", Files, Blank, Detected, goos)
           stat == Transport!StatOf(Served, {"na", "no", "xa", "xo", "da", "do"})
           found == Transport!resolveBrokerSelection("operator", flags, socket, Blank, stat)
           token == Transport!applyEnvOverrides(d, BrokerEnv).token
<1>1. configFile = buildWorkspaceSetupConfig(L, t) /\ envFile = buildWorkspaceSetupEnvFile(L, t, k)
  BY Zenon DEF Written
<1>2. configFile.text = "whole" /\ envFile.text = "whole"
  BY <1>1, Zenon DEF buildWorkspaceSetupConfig, buildWorkspaceSetupEnvFile
<1>3. Detected = "config"
  BY <1>2 DEF Detected
<1>4. L \in Layouts
  BY DEF Layouts
<1>5. L.agent = "na" /\ L.operator = "no" /\ L.bridge \in {"", "loopback"}
  BY DEF buildWorkspaceSetupLayout, Transport!DefaultBridge
<1>6. /\ BrokerEnv["LEGACY_SOCK"] = "" /\ BrokerEnv["AGENT_SOCK"] = L.agent
      /\ BrokerEnv["OPERATOR_SOCK"] = L.operator /\ BrokerEnv["BRIDGE"] = L.bridge
      /\ BrokerEnv["TOKEN"] = t /\ BrokerEnv["KEY"] = k
  <2>1. Detected # ""
    BY <1>3
  <2> HIDE DEF L
  <2> HIDE DEF d, c, p, flags, socket, stat, found, token
  <2> QED BY <1>1, <1>4, <2>1, EnvFromFile
<1>7. EffectiveSays(c, p, L, t)
  <2>1. Configured(buildWorkspaceSetupConfig(L, t).doc, L, t)
    <3> HIDE DEF L
    <3> QED BY <1>4, EffectiveFields
  <2> QED BY <1>1, <2>1, Zenon DEF Configured
<1>8. DocSays(d, L, t)
  <2>1. DocSays(buildWorkspaceSetupConfig(L, t).doc, L, t)
    <3> HIDE DEF L
    <3> QED BY <1>4, DocFields
  <2> QED BY <1>1, <2>1, Zenon
<1>9. /\ Files["config"] = d /\ Transport!Load(Files, "config", goos) = p
      /\ Served = IF Passes(c) THEN Transport!serveConfiguredListeners(c) ELSE {}
  <2>1. Detected # ""
    BY <1>3
  <2> QED BY <1>2, <2>1, ServedOn
<1> HIDE DEF c, p, L, d
<1>10. /\ c.profile = "hardened" /\ c.auth = TRUE /\ c.durable = TRUE /\ c.local = TRUE
       /\ c.legacy = "" /\ c.agent = "na" /\ c.operator = "no" /\ c.bridge \in {"", "loopback"} /\ c.token = t
       /\ p.operator = "no" /\ p.legacy = "" /\ p.token = t
  <2>1. \A x : Transport!Or("", x) = x /\ (x # "" => \A y : Transport!Or(x, y) = x)
    BY DEF Transport!Or
  <2> QED BY <1>5, <1>6, <1>7, <2>1 DEF EffectiveSays, Transport!Or
<1>11. Passes(c)
  <2>1. Transport!validateSocketConfig(c)
    BY <1>10 DEF Transport!validateSocketConfig
  <2>2. Transport!validateSecurityProfile(c, FALSE)
    BY <1>10 DEF Transport!validateSecurityProfile, Transport!Profile
  <2>3. Transport!validateDeploymentMode(c, BrokerEnv)
    BY <1>6, <1>10 DEF Transport!validateDeploymentMode, Transport!Profile
  <2>4. Transport!validateTransportSafety(c, FALSE)
    BY <1>10 DEF Transport!validateTransportSafety
  <2> QED BY <1>10, <2>1, <2>2, <2>3, <2>4 DEF Passes
<1>12. [role |-> "operator", transport |-> Transport!Unix("no")] \in Served
  <2>1. Transport!UsesDualUnixSockets(c) /\ ~Transport!UsesLegacyUnixSocket(c) /\ c.agent # "" /\ c.operator # ""
    BY <1>10 DEF Transport!UsesDualUnixSockets, Transport!UsesLegacyUnixSocket
  <2>2. [role |-> "operator", transport |-> Transport!Unix(c.operator)] \in Transport!serveConfiguredListeners(c)
    BY <2>1, Zenon DEF Transport!serveConfiguredListeners
  <2>3. Served = Transport!serveConfiguredListeners(c)
    BY <1>9, <1>11
  <2> QED BY <1>10, <2>2, <2>3, Zenon
<1>13. Blank["CONFIG"] = "" /\ Blank["BROKER_SOCK"] = "" /\ Blank["OPERATOR_SOCK"] = "" /\ Blank["BROKER_URL"] = ""
       /\ Blank["TOKEN"] = ""
  BY DEF Blank, Transport!EnvVars
<1>14. Transport!resolvedWorkspaceSetupConfigPath(Blank["CONFIG"], Detected) = "config"
  BY <1>3, <1>13 DEF Transport!resolvedWorkspaceSetupConfigPath, Transport!Or
<1>15. socket = "no"
  BY <1>9, <1>10, <1>14 DEF Transport!workspaceSetupBrokerSocket, Transport!Or
<1>16. stat["no"] = "socket"
  <2>1. \E e \in Served : e.transport = Transport!Unix("no")
    <3>1. [role |-> "operator", transport |-> Transport!Unix("no")].transport = Transport!Unix("no")
      BY Zenon
    <3> QED BY <1>12, <3>1, Zenon
  <2>2. [kind |-> "unix", at |-> "no"] \in {e.transport : e \in Served}
    BY <2>1, Zenon DEF Transport!Unix
  <2> QED BY <2>2 DEF Transport!StatOf
<1>17. found = Transport!Unix("no")
  <2>1. flags.unix = "" /\ flags.url = ""
    OBVIOUS
  <2>2. Transport!Or(Transport!roleSpecificBrokerUnixSocket("operator", Blank),
                     Transport!Or(socket, Transport!defaultBrokerUnixSocket("operator"))) = "no"
    BY <1>13, <1>15 DEF Transport!Or, Transport!roleSpecificBrokerUnixSocket
  <2> HIDE DEF flags, socket, stat
  <2>3. found = Transport!Expected(stat, "no", "")
    BY <1>13, <2>1, <2>2 DEF Transport!resolveBrokerSelection
  <2>4. Transport!brokerSocketExists(stat, "no") = "socket"
    BY <1>16 DEF Transport!brokerSocketExists
  <2>5. Transport!Expected(stat, "no", "") = Transport!Unix("no")
    BY <2>4 DEF Transport!Expected
  <2> QED BY <2>3, <2>5
<1>18. token = t
  <2>1. d = [f \in Fields |-> d[f]] /\ d.token = t
    BY <1>8, Zenon DEF DocSays
  <2>2. token = Transport!Or(BrokerEnv["TOKEN"], d.token)
    BY <2>1 DEF Transport!applyEnvOverrides, Fields
  <2> QED BY <1>6, <2>1, <2>2 DEF Transport!Or
<1>19. Transport!defaultOperatorToken(Files, Blank, Detected, goos) = t
  BY <1>9, <1>10, <1>13, <1>14 DEF Transport!defaultOperatorToken, Transport!Or
<1>20. /\ [role |-> "operator", transport |-> found] \in Served
       /\ token = Transport!defaultOperatorToken(Files, Blank, Detected, goos)
  BY <1>12, <1>17, <1>18, <1>19, Zenon
<1> QED BY <1>20, Zenon DEF d

------------------------------------------------------------------------------
\* The refresh of a whole instance.env is the one of the new layout.
LEMMA EnvRefreshed ==
  ASSUME KnownOS, NEW L \in Layouts, NEW t, NEW k, envFile = buildWorkspaceSetupEnvFile(L, t, k)
  PROVE  RefreshedEnv(buildWorkspaceSetupLayout(goos))
           = buildWorkspaceSetupEnvFile(buildWorkspaceSetupLayout(goos), t, k)
<1> DEFINE M == buildWorkspaceSetupLayout(goos)
           was == IF L.bridge = "" THEN Lines5(L.agent, L.operator, t, k)
                  ELSE Lines6(L.agent, L.operator, t, k, L.bridge)
           becomes == IF M.bridge = "" THEN Lines5(M.agent, M.operator, t, k)
                      ELSE Lines6(M.agent, M.operator, t, k, M.bridge)
           exports == IF M.bridge = "" THEN Exports3(M.agent, M.operator)
                      ELSE Exports4(M.agent, M.operator, M.bridge)
<1>1. /\ envFile = [text |-> "whole", lines |-> was]
      /\ buildWorkspaceSetupEnvFile(M, t, k) = [text |-> "whole", lines |-> becomes]
      /\ desiredWorkspaceSetupPathExports(M) = exports
  <2> HIDE DEF M
  <2> QED BY EnvLines, Wanted, Zenon
<1>2. M.bridge = "" \/ L.bridge # ""
  <2>1. DocSays(buildWorkspaceSetupConfig(L, t).doc, L, t) /\ goos \in {"linux", "darwin"}
    BY DocFields DEF KnownOS
  <2>2. L.bridge = "" => goos = "linux"
    BY <2>1, Zenon DEF DocSays
  <2>3. goos = "linux" => M.bridge = ""
    BY DEF buildWorkspaceSetupLayout, Transport!DefaultBridge
  <2> HIDE DEF M
  <2> QED BY <2>2, <2>3
<1> HIDE DEF M
<1>3. syncSetupExportLines(was, exports) = becomes
  <2>1. CASE L.bridge = ""
    <3>1. /\ was = Lines5(L.agent, L.operator, t, k) /\ exports = Exports3(M.agent, M.operator)
          /\ becomes = Lines5(M.agent, M.operator, t, k)
      BY <1>2, <2>1
    <3>2. syncSetupExportLines(Lines5(L.agent, L.operator, t, k), Exports3(M.agent, M.operator))
            = Lines5(M.agent, M.operator, t, k)
      BY ONLY LinesSynced
    <3> QED BY <3>1, <3>2
  <2>2. CASE L.bridge # "" /\ M.bridge = ""
    <3>1. /\ was = Lines6(L.agent, L.operator, t, k, L.bridge) /\ exports = Exports3(M.agent, M.operator)
          /\ becomes = Lines5(M.agent, M.operator, t, k)
      BY <2>2
    <3>2. syncSetupExportLines(Lines6(L.agent, L.operator, t, k, L.bridge), Exports3(M.agent, M.operator))
            = Lines5(M.agent, M.operator, t, k)
      BY ONLY LinesSynced
    <3> QED BY <3>1, <3>2
  <2>3. CASE L.bridge # "" /\ M.bridge # ""
    <3>1. /\ was = Lines6(L.agent, L.operator, t, k, L.bridge) /\ exports = Exports4(M.agent, M.operator, M.bridge)
          /\ becomes = Lines6(M.agent, M.operator, t, k, M.bridge)
      BY <2>3
    <3>2. syncSetupExportLines(Lines6(L.agent, L.operator, t, k, L.bridge), Exports4(M.agent, M.operator, M.bridge))
            = Lines6(M.agent, M.operator, t, k, M.bridge)
      BY ONLY LinesSynced
    <3> QED BY <3>1, <3>2
  <2> QED BY <2>1, <2>2, <2>3
<1> HIDE DEF was, exports, becomes
<1>4. ASSUME NEW x, NEW y
      PROVE  /\ [text |-> "whole", lines |-> x].lines = x
             /\ [[text |-> "whole", lines |-> x] EXCEPT !.lines = y] = [text |-> "whole", lines |-> y]
  OBVIOUS
<1>5. RefreshedEnv(M) = [envFile EXCEPT !.lines = becomes]
  <2>1. envFile.lines = was
    BY <1>1, <1>4, Zenon
  <2> QED BY <1>1, <1>3, <2>1, Zenon DEF RefreshedEnv
<1>6. RefreshedEnv(M) = [text |-> "whole", lines |-> becomes]
  <2>1. [[text |-> "whole", lines |-> was] EXCEPT !.lines = becomes] = [text |-> "whole", lines |-> becomes]
    BY <1>4, Zenon
  <2> QED BY <1>1, <1>5, <2>1, Zenon
<1> QED BY <1>1, <1>6, Zenon DEF M

------------------------------------------------------------------------------
\* The inductive invariant.

AllTokens == {"t0"} \cup {Tokens[n] : n \in 1..MaxIssued}
AllKeys == {"k0"} \cup {Keys[n] : n \in 1..MaxIssued}
NewLayout == buildWorkspaceSetupLayout(goos)

SetupPhases == Writing \cup {"none", "refused", "ready", "failed"}
SetupTypeOK ==
  /\ KnownOS /\ issued \in Nat /\ ready \in BOOLEAN /\ spoiled \in BOOLEAN
  /\ runs \in [Runs -> [pc : SetupPhases, made : Nat]]

\* A configuration is none, torn, or one that setup wrote.
ConfigInv ==
  \/ configFile \in {NoFile, [text |-> "empty"], [text |-> "cut"]}
  \/ \E L \in Layouts, t \in AllTokens : configFile = buildWorkspaceSetupConfig(L, t)

\* Unless an instance was spoiled, its two files, its broker and its auth store are of one token
\* and one key, wherever a run stopped.
PairedWith(t, k) ==
  /\ configFile.text = "whole" => \E L \in Layouts : configFile = buildWorkspaceSetupConfig(L, t)
  /\ broker # "none" => broker = k
  /\ "auth" \in stores => storeKey = k
PairInv == ~spoiled =>
  \/ envFile = NoFile /\ broker = "none"
  \/ \E L \in Layouts, t \in AllTokens, k \in AllKeys :
       envFile = buildWorkspaceSetupEnvFile(L, t, k) /\ PairedWith(t, k)

KeyInv == /\ broker # ""
          /\ "auth" \in stores => storeKey # ""

\* A run that makes a new instance is alone and finds nothing; one that refreshes an old one
\* has brought its configuration up to date before it comes to the environment.
Making(r) == runs[r].pc \in {"config", "env"}
RunInv == \A r \in Runs :
  /\ Making(r) => runs[r].made \in 1..MaxIssued
  /\ Making(r) /\ ~spoiled => /\ envFile = NoFile /\ stores = {}
                              /\ \A q \in Runs \ {r} : runs[q].pc \notin Writing
  /\ runs[r].pc = "env" /\ ~spoiled => configFile = buildWorkspaceSetupConfig(NewLayout, Tokens[runs[r].made])
  /\ runs[r].pc = "refreshEnv" /\ ~spoiled =>
       \E t \in AllTokens : configFile = buildWorkspaceSetupConfig(NewLayout, t)

ReadyInv == ready /\ ~spoiled => \E t \in AllTokens, k \in AllKeys : Written(t, k)

SetupInv == SetupTypeOK /\ ConfigInv /\ PairInv /\ KeyInv /\ RunInv /\ ReadyInv

\* The texts of the files, and the token a configuration gives.
LEMMA Texts ==
  /\ NoFile.text = "absent" /\ [text |-> "empty"].text = "empty" /\ [text |-> "cut"].text = "cut"
  /\ \A L, t : buildWorkspaceSetupConfig(L, t).text = "whole"
  /\ \A L, t : buildWorkspaceSetupConfig(L, t).doc.token = t
  /\ \A L, t, k : buildWorkspaceSetupEnvFile(L, t, k).text = "whole"
<1>1. NoFile.text = "absent" /\ [text |-> "empty"].text = "empty" /\ [text |-> "cut"].text = "cut"
  BY DEF NoFile
<1>2. \A L, t : buildWorkspaceSetupConfig(L, t).text = "whole" /\ buildWorkspaceSetupConfig(L, t).doc.token = t
  BY DEF buildWorkspaceSetupConfig
<1>3. \A L, t, k : buildWorkspaceSetupEnvFile(L, t, k).text = "whole"
  <2> TAKE L, t, k
  <2>1. \A x : [text |-> "whole", lines |-> x].text = "whole"
    OBVIOUS
  <2> QED BY <2>1, Zenon DEF buildWorkspaceSetupEnvFile
<1> QED BY <1>1, <1>2, <1>3

\* No token and no key is empty.
LEMMA Issued ==
  /\ \A t \in AllTokens : t # ""
  /\ \A k \in AllKeys : k # ""
  /\ \A n \in 1..MaxIssued : Tokens[n] \in AllTokens /\ Keys[n] \in AllKeys
<1>1. \A n \in 1..MaxIssued : Tokens[n] # "" /\ Keys[n] # ""
  BY SetupAssumption
<1> QED BY <1>1 DEF AllTokens, AllKeys

\* The broker has the key of the environment it was started on.
LEMMA BrokersKey ==
  ASSUME SetupTypeOK, ConfigInv
  PROVE  /\ Detected = "" => BrokerEnv["KEY"] = ""
         /\ \A L \in Layouts : \A t, k : envFile = buildWorkspaceSetupEnvFile(L, t, k) /\ Detected # ""
              => BrokerEnv["KEY"] = k
         /\ Detected # "" /\ configFile.text = "whole" /\ Served # {} => BrokerEnv["KEY"] # ""
<1>1. ASSUME Detected = "" PROVE BrokerEnv["KEY"] = ""
  <2>1. Transport!resolvedWorkspaceSetupConfigPath(Transport!Or("", Blank["CONFIG"]), Detected) = ""
    BY <1>1 DEF Transport!resolvedWorkspaceSetupConfigPath, Transport!Or, Blank, Transport!EnvVars
  <2>2. BrokerEnv = Blank
    BY <2>1, Zenon DEF BrokerEnv, Transport!daemonEnv
  <2> QED BY <2>2 DEF Blank, Transport!EnvVars
<1>2. ASSUME NEW L \in Layouts, NEW t, NEW k, envFile = buildWorkspaceSetupEnvFile(L, t, k), Detected # ""
      PROVE  BrokerEnv["KEY"] = k
  <2>1. KnownOS
    BY DEF SetupTypeOK
  <2> QED BY <1>2, <2>1, EnvFromFile
<1>3. ASSUME Detected # "", configFile.text = "whole", Served # {} PROVE BrokerEnv["KEY"] # ""
  <2>1. KnownOS
    BY DEF SetupTypeOK
  <2>2. PICK L \in Layouts, t \in AllTokens : configFile = buildWorkspaceSetupConfig(L, t)
    BY <1>3, Texts DEF ConfigInv
  <2> QED BY <1>3, <2>1, <2>2, KeyNeeded
<1> QED BY <1>1, <1>2, <1>3

\* It holds of a fresh workspace and of one that an older release has set up.
LEMMA SetupInvInit == SetupInit => SetupInv
<1> SUFFICES ASSUME SetupInit PROVE SetupInv
  OBVIOUS
<1> USE DEF SetupInit
<1>1. SetupTypeOK
  BY DEF SetupTypeOK, KnownOS, SetupPhases
<1>2. OldLayout \in Layouts /\ "t0" \in AllTokens /\ "k0" \in AllKeys
  BY DEF Layouts, AllTokens, AllKeys
<1>3. ConfigInv
  BY <1>2 DEF ConfigInv
<1>4. PairInv
  BY <1>2, Texts DEF PairInv, PairedWith
<1>5. KeyInv
  BY DEF KeyInv
<1>6. \A r \in Runs : runs[r].pc = "none"
  OBVIOUS
<1>7. RunInv
  BY <1>6 DEF RunInv, Making
<1>8. ReadyInv
  BY DEF ReadyInv
<1> QED BY <1>1, <1>3, <1>4, <1>5, <1>7, <1>8 DEF SetupInv

\* It implies the property: a ready pair is served, and keys agree with the store.
LEMMA SetupInvSound == SetupInv => SetupSound
<1> SUFFICES ASSUME SetupInv PROVE SetupSound
  OBVIOUS
<1>0. SetupTypeOK /\ ConfigInv /\ PairInv /\ KeyInv /\ ReadyInv /\ KnownOS
  BY DEF SetupInv, SetupTypeOK
<1> DEFINE noFlags == [unix |-> "", url |-> ""]
           socket == Transport!workspaceSetupBrokerSocket("operator", Files, Blank, Detected, goos)
           found == Transport!resolveBrokerSelection("operator", noFlags, socket, Blank,
                      Transport!StatOf(Served, {"na", "no", "xa", "xo", "da", "do"}))
           token == Transport!applyEnvOverrides(configFile.doc, BrokerEnv).token
           Reached == /\ [role |-> "operator", transport |-> found] \in Served
                      /\ token = Transport!defaultOperatorToken(Files, Blank, Detected, goos)
<1>1. ASSUME ready, ~spoiled PROVE Reached
  <2>1. PICK t \in AllTokens, k \in AllKeys : Written(t, k)
    BY <1>0, <1>1 DEF ReadyInv
  <2>2. t # "" /\ k # ""
    BY Issued
  <2> HIDE DEF Reached
  <2>3. Reached
    BY <1>0, <2>1, <2>2, ReadyServes DEF Reached
  <2> QED BY <2>3
<1> HIDE DEF Reached
<1>2. ASSUME ~spoiled, "auth" \in stores, envFile.text = "whole" PROVE BrokerEnv["KEY"] \in {"", storeKey}
  <2>1. PICK L \in Layouts, t \in AllTokens, k \in AllKeys :
          envFile = buildWorkspaceSetupEnvFile(L, t, k) /\ PairedWith(t, k)
    BY <1>0, <1>2, Texts DEF PairInv
  <2>2. storeKey = k
    BY <1>2, <2>1 DEF PairedWith
  <2> QED BY <1>0, <2>1, <2>2, BrokersKey
<1>3. "auth" \in stores => storeKey # ""
  BY <1>0 DEF KeyInv
<1> QED BY <1>1, <1>2, <1>3, Zenon DEF SetupSound, Reached

\* The operating system does not change, and with it the layouts.
LEMMA Stays ==
  ASSUME SetupInv, UNCHANGED goos
  PROVE  /\ Layouts' = Layouts /\ NewLayout' = NewLayout
         /\ KnownOS' /\ KnownOS
BY DEF SetupInv, SetupTypeOK, KnownOS, Layouts, NewLayout

\* A run looks at the files: it may refresh, refuse, or begin a new instance (ensureWorkspaceSetup).
LEMMA EnsurePreserves ==
  ASSUME SetupInv, NEW r \in Runs, ensureWorkspaceSetup(r)
  PROVE  SetupInv'
<1>0. /\ SetupTypeOK /\ ConfigInv /\ PairInv /\ KeyInv /\ RunInv /\ ReadyInv
      /\ UNCHANGED <<goos, configFile, envFile, stores, storeKey, broker, ready>>
      /\ runs[r].pc \notin Writing
  BY DEF SetupInv, ensureWorkspaceSetup
<1>1. UNCHANGED <<Layouts, NewLayout, KnownOS>>
  BY <1>0, Stays
<1> DEFINE New == /\ configFile.text = "absent" /\ envFile.text = "absent" /\ stores = {}
                  /\ issued < MaxIssued /\ issued' = issued + 1
                  /\ runs' = [runs EXCEPT ![r] = [pc |-> "config", made |-> issued + 1]]
                  /\ spoiled' = (spoiled \/ \E q \in Runs \ {r} : runs[q].pc \in Writing)
           Old == /\ UNCHANGED <<issued, spoiled>>
                  /\ \/ envFile.text # "absent" /\ runs' = [runs EXCEPT ![r].pc = "refresh"]
                     \/ runs' = [runs EXCEPT ![r].pc = "refused"]
<1>2. Old \/ New
  <2> DEFINE there == {configFile.text # "absent", envFile.text # "absent"}
  <2>1. CASE there = {TRUE}
    <3>1. envFile.text # "absent"
      BY <2>1
    <3> QED BY <2>1, <3>1 DEF ensureWorkspaceSetup, Leads
  <2>2. CASE there # {TRUE} /\ (TRUE \in there \/ otherStateExists)
    BY <2>2 DEF ensureWorkspaceSetup, Leads
  <2>3. CASE there # {TRUE} /\ ~(TRUE \in there \/ otherStateExists)
    <3>1. configFile.text = "absent" /\ envFile.text = "absent" /\ stores = {}
      BY <2>3 DEF otherStateExists
    <3> QED BY <2>3, <3>1, Zenon DEF ensureWorkspaceSetup
  <2> QED BY <2>1, <2>2, <2>3
<1>3. spoiled => spoiled'
  BY <1>2
<1>4. SetupTypeOK'
  <2>1. runs \in [Runs -> [pc : SetupPhases, made : Nat]] /\ issued \in Nat
    BY <1>0 DEF SetupTypeOK
  <2>2. /\ runs' \in [Runs -> [pc : SetupPhases, made : Nat]]
        /\ issued' \in Nat /\ spoiled' \in BOOLEAN
    <3>1. CASE Old
      <4>1. {"refresh", "refused"} \subseteq SetupPhases
        BY DEF SetupPhases, Writing
      <4> QED BY <1>0, <2>1, <3>1, <4>1 DEF SetupTypeOK
    <3>2. CASE New
      <4>1. "config" \in SetupPhases /\ issued + 1 \in Nat
        BY <2>1 DEF SetupPhases, Writing
      <4>2. [pc |-> "config", made |-> issued + 1]
              \in [pc : SetupPhases, made : Nat]
        BY <4>1
      <4>3. spoiled' \in BOOLEAN
        BY <3>2
      <4>4. issued' \in Nat
        BY <3>2, <4>1
      <4> QED BY <2>1, <3>2, <4>2, <4>3, <4>4
    <3> QED BY <1>2, <3>1, <3>2
  <2> QED BY <1>0, <1>1, <2>2 DEF SetupTypeOK
<1>5. ConfigInv' /\ KeyInv'
  BY <1>0, <1>1 DEF ConfigInv, KeyInv
<1>6. PairInv'
  BY <1>0, <1>1, <1>3 DEF PairInv, PairedWith
<1>7. RunInv'
  <2>1. CASE Old
    <3>1. /\ \A q \in Runs : q # r => runs'[q] = runs[q]
          /\ runs'[r].pc \in {"refresh", "refused"} /\ (runs'[r].pc = "refresh" => envFile.text # "absent")
      BY <1>0, <2>1 DEF SetupTypeOK
    <3>2. \A q \in Runs : /\ Making(q)' => Making(q) /\ q # r
                          /\ runs'[q].pc \in {"env", "refreshEnv"} => q # r
      BY <3>1 DEF Making
    <3>3. ASSUME NEW q \in Runs, Making(q), ~spoiled, q # r
          PROVE  \A s \in Runs \ {q} : runs'[s].pc \notin Writing
      <4>1. envFile.text = "absent" /\ \A s \in Runs \ {q} : runs[s].pc \notin Writing
        BY <1>0, <3>3, Texts DEF RunInv
      <4>2. runs'[r].pc \notin Writing
        BY <3>1, <4>1 DEF Writing
      <4> QED BY <3>1, <4>1, <4>2
    <3> QED BY <1>0, <1>1, <2>1, <3>1, <3>2, <3>3 DEF RunInv
  <2>2. CASE New
    <3>1. /\ \A q \in Runs : q # r => runs'[q] = runs[q]
          /\ runs'[r].pc = "config" /\ runs'[r].made = issued + 1
      BY <1>0, <2>2 DEF SetupTypeOK
    <3>2. issued + 1 \in 1..MaxIssued
      <4>1. issued \in Nat /\ MaxIssued \in Nat /\ issued < MaxIssued
        BY <1>0, <2>2, SetupAssumption DEF SetupTypeOK
      <4> QED BY <4>1
    <3>3. ~spoiled' => /\ ~spoiled /\ envFile = NoFile /\ \A q \in Runs \ {r} : runs'[q].pc \notin Writing
      <4>1. ~spoiled' => ~spoiled /\ \A q \in Runs \ {r} : runs[q].pc \notin Writing
        BY <2>2
      <4>2. ~spoiled => envFile = NoFile
        <5>1. \A L, t, k : envFile # buildWorkspaceSetupEnvFile(L, t, k)
          BY <2>2, Texts
        <5> QED BY <1>0, <5>1 DEF PairInv
      <4> QED BY <3>1, <4>1, <4>2
    <3>4. \A q \in Runs : /\ q # r /\ Making(q)' => Making(q)
                          /\ q # r /\ runs'[q].pc \in {"config", "env", "refreshEnv"} => spoiled'
      BY <3>1, <3>3 DEF Making, Writing
    <3> QED BY <1>0, <1>1, <2>2, <3>1, <3>2, <3>3, <3>4 DEF RunInv, Making
  <2> QED BY <1>2, <2>1, <2>2
<1>8. ReadyInv'
  BY <1>0, <1>1, <1>3 DEF ReadyInv, Written, NewLayout
<1> QED BY <1>4, <1>5, <1>6, <1>7, <1>8 DEF SetupInv

\* A run that goes on to another phase.
LEMMA RunLed ==
  ASSUME SetupTypeOK, NEW r \in Runs, NEW pc \in SetupPhases, Leads(r, pc)
  PROVE  /\ runs' \in [Runs -> [pc : SetupPhases, made : Nat]]
         /\ runs'[r].pc = pc /\ runs'[r].made = runs[r].made
         /\ \A q \in Runs : q # r => runs'[q] = runs[q]
BY DEF SetupTypeOK, Leads

\* The configuration of a new instance is written, or torn.
LEMMA WriteConfigPreserves ==
  ASSUME SetupInv, NEW r \in Runs, WriteConfig(r)
  PROVE  SetupInv'
<1> DEFINE token == Tokens[runs[r].made]
           fresh == buildWorkspaceSetupConfig(NewLayout, token)
           Done == configFile' = fresh /\ Leads(r, "env") /\ UNCHANGED ready
           Nothing == /\ envFile = NoFile /\ stores = {} /\ broker = "none" /\ ~ready
                      /\ \A q \in Runs \ {r} : runs[q].pc \notin Writing
           Torn == configFile' \in TornConfig(configFile) /\ Leads(r, "failed") /\ ready' = FALSE
<1>0. /\ SetupTypeOK /\ ConfigInv /\ PairInv /\ KeyInv /\ RunInv /\ ReadyInv
      /\ UNCHANGED <<goos, envFile, stores, storeKey, broker, issued, spoiled>>
      /\ runs[r].pc = "config" /\ (Done \/ Torn)
  BY DEF SetupInv, WriteConfig, NewLayout
<1>1. UNCHANGED <<Layouts, NewLayout, KnownOS>>
  BY <1>0, Stays
<1>2. /\ runs' \in [Runs -> [pc : SetupPhases, made : Nat]]
      /\ runs'[r].pc \in {"env", "failed"} /\ runs'[r].made = runs[r].made
      /\ (runs'[r].pc = "env" => configFile' = fresh) /\ ready' \in BOOLEAN
      /\ \A q \in Runs : q # r => runs'[q] = runs[q]
  <2>1. {"env", "failed"} \subseteq SetupPhases
    BY DEF SetupPhases, Writing
  <2>2. CASE Done
    <3>1. ready' \in BOOLEAN
      BY <1>0, <2>2 DEF SetupTypeOK
    <3> QED BY <1>0, <2>1, <2>2, <3>1, RunLed
  <2>3. CASE Torn
    <3> QED BY <1>0, <2>1, <2>3, RunLed
  <2> QED BY <1>0, <2>2, <2>3
<1>3. SetupTypeOK'
  BY <1>0, <1>1, <1>2 DEF SetupTypeOK
<1>4. runs[r].made \in 1..MaxIssued /\ token \in AllTokens /\ NewLayout \in Layouts
  BY <1>0, Issued DEF RunInv, Making, Layouts, NewLayout
<1>5. ~spoiled => Nothing
  <2> SUFFICES ASSUME ~spoiled PROVE Nothing
    OBVIOUS
  <2>1. envFile = NoFile /\ stores = {} /\ (\A q \in Runs \ {r} : runs[q].pc \notin Writing)
    BY <1>0 DEF RunInv, Making
  <2>2. \A L, t, k : envFile # buildWorkspaceSetupEnvFile(L, t, k)
    BY <2>1, Texts
  <2>3. broker = "none"
    BY <1>0, <2>2 DEF PairInv
  <2>4. ~ready
    BY <1>0, <2>2 DEF ReadyInv, Written
  <2> QED BY <2>1, <2>3, <2>4
<1>6. ConfigInv'
  <2>1. CASE Done
    BY <1>1, <1>4, <2>1 DEF ConfigInv
  <2>2. CASE Torn
    BY <1>0, <1>1, <2>2 DEF ConfigInv, TornConfig
  <2> QED BY <1>0, <2>1, <2>2
<1>7. PairInv'
  BY <1>0, <1>5 DEF PairInv
<1>8. KeyInv'
  BY <1>0 DEF KeyInv
<1>9. RunInv'
  <2>1. ASSUME NEW q \in Runs, q # r
        PROVE  /\ Making(q)' => runs'[q].made \in 1..MaxIssued
               /\ ~spoiled => runs'[q].pc \notin Writing
    BY <1>0, <1>2, <1>5, <2>1 DEF RunInv, Making
  <2>2. \A q \in Runs : Making(q)' => runs'[q].made \in 1..MaxIssued
    BY <1>2, <1>4, <2>1
  <2>3. \A q \in Runs : Making(q)' /\ ~spoiled' => q = r
    BY <1>0, <2>1 DEF Making, Writing
  <2>4. \A q \in Runs : runs'[q].pc \in {"env", "refreshEnv"} /\ ~spoiled' => q = r
    BY <1>0, <2>1 DEF Writing
  <2> QED BY <1>0, <1>1, <1>2, <1>5, <2>1, <2>2, <2>3, <2>4 DEF RunInv
<1>10. ReadyInv'
  BY <1>0, <1>5 DEF ReadyInv
<1> QED BY <1>3, <1>6, <1>7, <1>8, <1>9, <1>10 DEF SetupInv

\* The environment of a new instance completes the pair, or the write fails.
LEMMA WriteNewEnvPreserves ==
  ASSUME SetupInv, NEW r \in Runs, WriteNewEnv(r)
  PROVE  SetupInv'
<1> DEFINE token == Tokens[runs[r].made]
           key == Keys[runs[r].made]
           fresh == buildWorkspaceSetupEnvFile(NewLayout, token, key)
           Done == envFile' = fresh /\ Leads(r, "ready") /\ ready' = TRUE /\ UNCHANGED spoiled
           Cut == Leads(r, "failed") /\ ready' = FALSE /\ spoiled' = TRUE
           Failed == UNCHANGED <<envFile, spoiled>> /\ Leads(r, "failed") /\ ready' = FALSE
<1>0. /\ SetupTypeOK /\ ConfigInv /\ PairInv /\ KeyInv /\ RunInv /\ ReadyInv
      /\ UNCHANGED <<goos, configFile, stores, storeKey, broker, issued>>
      /\ runs[r].pc = "env" /\ (Done \/ Cut \/ Failed)
  BY DEF SetupInv, WriteNewEnv, WriteEnv, NewLayout
<1>1. UNCHANGED <<Layouts, NewLayout, KnownOS>>
  BY <1>0, Stays
<1>2. /\ runs' \in [Runs -> [pc : SetupPhases, made : Nat]]
      /\ runs'[r].pc \in {"ready", "failed"} /\ ready' \in BOOLEAN /\ spoiled' \in BOOLEAN
      /\ \A q \in Runs : q # r => runs'[q] = runs[q]
  <2>1. {"ready", "failed"} \subseteq SetupPhases
    BY DEF SetupPhases
  <2>2. CASE Done
    <3>1. spoiled' \in BOOLEAN
      BY <1>0, <2>2 DEF SetupTypeOK
    <3> QED BY <1>0, <2>1, <2>2, <3>1, RunLed
  <2>3. CASE Cut
    BY <1>0, <2>1, <2>3, RunLed
  <2>4. CASE Failed
    <3>1. spoiled' \in BOOLEAN
      BY <1>0, <2>4 DEF SetupTypeOK
    <3> QED BY <1>0, <2>1, <2>4, <3>1, RunLed
  <2> QED BY <1>0, <2>2, <2>3, <2>4
<1>3. SetupTypeOK'
  BY <1>0, <1>1, <1>2 DEF SetupTypeOK
<1>a. runs[r].made \in 1..MaxIssued /\ token \in AllTokens /\ key \in AllKeys
  BY <1>0, Issued DEF RunInv, Making
<1>4. PICK t \in AllTokens, k \in AllKeys : token = t /\ key = k
  BY <1>a
<1> DEFINE Nothing == /\ ~spoiled /\ envFile = NoFile /\ stores = {} /\ broker = "none"
                      /\ \A q \in Runs \ {r} : runs[q].pc \notin Writing
                      /\ configFile = buildWorkspaceSetupConfig(NewLayout, t)
<1>b. NewLayout \in Layouts
  BY DEF Layouts, NewLayout
<1>5. ~spoiled' => Nothing
  <2> SUFFICES ASSUME ~spoiled' PROVE Nothing
    OBVIOUS
  <2>0. ~spoiled
    BY <1>0
  <2>1. envFile = NoFile /\ stores = {} /\ (\A q \in Runs \ {r} : runs[q].pc \notin Writing)
        /\ configFile = buildWorkspaceSetupConfig(NewLayout, t)
    BY <1>0, <1>4, <2>0 DEF RunInv, Making
  <2>2. \A L, u, v : envFile # buildWorkspaceSetupEnvFile(L, u, v)
    BY <2>1, Texts
  <2>3. broker = "none"
    BY <1>0, <2>0, <2>2 DEF PairInv
  <2> QED BY <2>0, <2>1, <2>3
<1>6. ConfigInv' /\ KeyInv'
  BY <1>0, <1>1 DEF ConfigInv, KeyInv
<1>7. PairInv'
  <2> SUFFICES ASSUME ~spoiled'
               PROVE  \/ envFile' = NoFile /\ broker' = "none"
                      \/ \E L \in Layouts, u \in AllTokens, v \in AllKeys :
                           envFile' = buildWorkspaceSetupEnvFile(L, u, v) /\ PairedWith(u, v)'
    BY <1>1 DEF PairInv
  <2>1. CASE Done
    <3>1. PairedWith(t, k)'
      BY <1>0, <1>1, <1>b, <1>5 DEF PairedWith
    <3>2. envFile' = buildWorkspaceSetupEnvFile(NewLayout, t, k)
      BY <1>4, <2>1
    <3> QED BY <1>b, <3>1, <3>2
  <2>2. CASE Failed
    BY <1>0, <1>5, <2>2
  <2> QED BY <1>0, <2>1, <2>2
<1>8. RunInv'
  <2>1. \A q \in Runs : Making(q)' => runs'[q].made \in 1..MaxIssued
    BY <1>0, <1>2 DEF RunInv, Making
  <2>2. \A q \in Runs : ~spoiled' => runs'[q].pc \notin Writing
    BY <1>2, <1>5 DEF Writing
  <2> QED BY <2>1, <2>2 DEF RunInv, Making, Writing
<1>9. ReadyInv'
  <2> SUFFICES ASSUME ready', ~spoiled' PROVE \E u \in AllTokens, v \in AllKeys : Written(u, v)'
    BY DEF ReadyInv
  <2>1. Done
    BY <1>0
  <2>2. /\ envFile' = buildWorkspaceSetupEnvFile(NewLayout, t, k)
        /\ configFile' = buildWorkspaceSetupConfig(NewLayout, t)
    BY <1>0, <1>4, <1>5, <2>1
  <2>3. Written(t, k)'
    BY <1>1, <2>2 DEF Written, NewLayout
  <2> QED BY <2>3
<1> QED BY <1>3, <1>6, <1>7, <1>8, <1>9 DEF SetupInv

\* A refresh of the configuration keeps its token (refreshWorkspaceSetupConfigPaths).
LEMMA RefreshConfigPreserves ==
  ASSUME SetupInv, NEW r \in Runs, refreshWorkspaceSetupConfigPaths(r)
  PROVE  SetupInv'
<1> DEFINE l == NewLayout
           fresh == Moved(configFile, l)
           Done == configFile.text = "whole" /\ configFile' = fresh /\ Leads(r, "refreshEnv") /\ UNCHANGED ready
           Torn == /\ configFile.text = "whole" /\ configFile # fresh
                   /\ configFile' \in TornConfig(configFile) /\ Leads(r, "failed") /\ ready' = FALSE
           Refused == configFile.text # "whole" /\ Leads(r, "failed") /\ UNCHANGED <<configFile, ready>>
<1>0. /\ SetupTypeOK /\ ConfigInv /\ PairInv /\ KeyInv /\ RunInv /\ ReadyInv
      /\ UNCHANGED <<goos, envFile, stores, storeKey, broker, issued, spoiled>>
      /\ runs[r].pc = "refresh" /\ (Done \/ Torn \/ Refused)
  BY DEF SetupInv, refreshWorkspaceSetupConfigPaths, NewLayout, Moved
<1>1. UNCHANGED <<Layouts, NewLayout, KnownOS>> /\ NewLayout \in Layouts
  BY <1>0, Stays DEF Layouts, NewLayout
<1>2. \A L, t : configFile = buildWorkspaceSetupConfig(L, t) => fresh = buildWorkspaceSetupConfig(l, t)
  <2> TAKE L, t
  <2> HAVE configFile = buildWorkspaceSetupConfig(L, t)
  <2>1. Moved(buildWorkspaceSetupConfig(L, t), l) = buildWorkspaceSetupConfig(l, t)
    BY ConfigRefreshed
  <2> QED BY <2>1, Zenon
<1> HIDE DEF fresh, l
<1>3. /\ runs' \in [Runs -> [pc : SetupPhases, made : Nat]]
      /\ runs'[r].pc \in {"refreshEnv", "failed"} /\ ready' \in BOOLEAN
      /\ (runs'[r].pc = "refreshEnv" => Done)
      /\ \A q \in Runs : q # r => runs'[q] = runs[q]
  <2>1. {"refreshEnv", "failed"} \subseteq SetupPhases
    BY DEF SetupPhases, Writing
  <2>2. CASE Done
    <3>1. ready' \in BOOLEAN
      BY <1>0, <2>2 DEF SetupTypeOK
    <3> QED BY <1>0, <2>1, <2>2, <3>1, RunLed
  <2>3. CASE Torn
    BY <1>0, <2>1, <2>3, RunLed
  <2>4. CASE Refused
    <3>1. ready' \in BOOLEAN
      BY <1>0, <2>4 DEF SetupTypeOK
    <3> QED BY <1>0, <2>1, <2>4, <3>1, RunLed
  <2> QED BY <1>0, <2>2, <2>3, <2>4
<1>4. SetupTypeOK'
  BY <1>0, <1>1, <1>3 DEF SetupTypeOK
\* What is whole stays so with its token, and is of the new layout where it was.
<1>5. /\ ConfigInv'
      /\ configFile'.text = "whole" => configFile.text = "whole"
      /\ \A L, t : configFile = buildWorkspaceSetupConfig(L, t) /\ configFile'.text = "whole" =>
           configFile' \in {buildWorkspaceSetupConfig(L, t), buildWorkspaceSetupConfig(l, t)}
      /\ \A t : configFile = buildWorkspaceSetupConfig(l, t) /\ ~Torn => configFile' = configFile
      /\ \A t : configFile = buildWorkspaceSetupConfig(l, t) => ~Torn
      /\ runs'[r].pc = "refreshEnv" => \E t \in AllTokens : configFile' = buildWorkspaceSetupConfig(l, t)
  <2>1. configFile.text = "whole" =>
          \E L \in Layouts, t \in AllTokens : configFile = buildWorkspaceSetupConfig(L, t)
    BY <1>0, Texts DEF ConfigInv
  <2>2. CASE Done
    <3>1. PICK L \in Layouts, t \in AllTokens : configFile = buildWorkspaceSetupConfig(L, t)
      BY <2>1, <2>2
    <3>2. configFile' = buildWorkspaceSetupConfig(l, t) /\ configFile'.text = "whole"
      BY <1>2, <2>2, <3>1, Texts
    <3>3. ConfigInv'
      BY <1>1, <3>1, <3>2 DEF ConfigInv, l
    <3>4. \A M, u : configFile = buildWorkspaceSetupConfig(M, u) => configFile' = buildWorkspaceSetupConfig(l, u)
      BY <1>2, <2>2
    <3>5. \A u : configFile = buildWorkspaceSetupConfig(l, u) => configFile = fresh
      BY <1>2
    <3> QED BY <2>2, <3>1, <3>2, <3>3, <3>4, <3>5
  <2>3. CASE Torn
    <3>1. configFile' \in {configFile, [text |-> "empty"], [text |-> "cut"]} /\ configFile.text = "whole"
      BY <2>3 DEF TornConfig
    <3>2. ConfigInv'
      BY <1>0, <1>1, <3>1 DEF ConfigInv
    <3>3. configFile'.text = "whole" => configFile' = configFile
      BY <3>1, Texts
    <3>4. \A u : configFile # buildWorkspaceSetupConfig(l, u)
      BY <1>2, <2>3
    <3>5. "failed" \in SetupPhases
      BY DEF SetupPhases
    <3>6. runs'[r].pc # "refreshEnv"
      BY <1>0, <2>3, <3>5, RunLed
    <3> HIDE DEF Done, Torn
    <3> QED BY <3>1, <3>2, <3>3, <3>4, <3>6
  <2>4. CASE Refused
    <3>1. ConfigInv'
      BY <1>0, <1>1, <2>4 DEF ConfigInv
    <3>2. \A L, u : configFile # buildWorkspaceSetupConfig(L, u)
      BY <2>4, Texts
    <3>3. "failed" \in SetupPhases
      BY DEF SetupPhases
    <3>4. runs'[r].pc # "refreshEnv"
      BY <1>0, <2>4, <3>3, RunLed
    <3> QED BY <2>4, <3>1, <3>2, <3>4
  <2> QED BY <1>0, <2>2, <2>3, <2>4
<1>6. KeyInv'
  BY <1>0 DEF KeyInv
<1>7. PairInv'
  <2>1. ASSUME NEW t, NEW k, PairedWith(t, k) PROVE PairedWith(t, k)'
    <3>1. ASSUME configFile'.text = "whole" PROVE \E L \in Layouts : configFile' = buildWorkspaceSetupConfig(L, t)
      <4>1. PICK L \in Layouts : configFile = buildWorkspaceSetupConfig(L, t)
        BY <1>5, <2>1, <3>1 DEF PairedWith
      <4> QED BY <1>1, <1>5, <3>1, <4>1 DEF l
    <3> QED BY <1>0, <1>1, <2>1, <3>1 DEF PairedWith
  <2> QED BY <1>0, <1>1, <2>1 DEF PairInv
<1>8. RunInv'
  <2>1. \A q \in Runs : Making(q)' => Making(q) /\ q # r /\ runs'[q] = runs[q]
    BY <1>3 DEF Making
  <2>2. \A q \in Runs : Making(q)' => spoiled'
    BY <1>0, <2>1 DEF RunInv, Writing
  <2>3. \A q \in Runs : runs'[q].pc = "refreshEnv" /\ ~spoiled' =>
          \E t \in AllTokens : configFile' = buildWorkspaceSetupConfig(l, t)
    <3> TAKE q \in Runs
    <3> HAVE runs'[q].pc = "refreshEnv" /\ ~spoiled'
    <3>1. CASE q = r
      BY <1>3, <1>5, <3>1
    <3>2. CASE q # r
      <4>1. PICK t \in AllTokens : configFile = buildWorkspaceSetupConfig(l, t)
        BY <1>0, <1>3, <3>2 DEF RunInv, l
      <4> QED BY <1>5, <4>1
    <3> QED BY <3>1, <3>2
  <2>4. \A q \in Runs : Making(q)' => runs'[q].made \in 1..MaxIssued
    BY <1>0, <2>1 DEF RunInv
  <2> QED BY <1>1, <2>2, <2>3, <2>4 DEF RunInv, Making, l
<1>9. ReadyInv'
  <2> SUFFICES ASSUME ready', ~spoiled' PROVE \E t \in AllTokens, k \in AllKeys : Written(t, k)'
    BY DEF ReadyInv
  <2>1. ~Torn /\ ready
    BY <1>0
  <2>2. PICK t \in AllTokens, k \in AllKeys : Written(t, k)
    BY <1>0, <2>1 DEF ReadyInv
  <2>3. configFile' = configFile
    BY <1>5, <2>1, <2>2 DEF Written, l, NewLayout
  <2> QED BY <1>0, <1>1, <2>2, <2>3 DEF Written, NewLayout
<1> QED BY <1>4, <1>5, <1>6, <1>7, <1>8, <1>9 DEF SetupInv

\* A refresh of the environment keeps its token and key (refreshWorkspaceSetupEnvPaths).
LEMMA RefreshEnvPreserves ==
  ASSUME SetupInv, NEW r \in Runs, refreshWorkspaceSetupEnvPaths(r)
  PROVE  SetupInv'
<1> DEFINE fresh == RefreshedEnv(NewLayout)
           Done == /\ envFile.text # "absent" /\ envFile' = fresh /\ Leads(r, "ready") /\ ready' = TRUE
                   /\ UNCHANGED spoiled
           Cut == Leads(r, "failed") /\ ready' = FALSE /\ spoiled' = TRUE
           Failed == UNCHANGED <<envFile, spoiled>> /\ Leads(r, "failed") /\ ready' \in {FALSE, ready}
<1>0. /\ SetupTypeOK /\ ConfigInv /\ PairInv /\ KeyInv /\ RunInv /\ ReadyInv
      /\ UNCHANGED <<goos, configFile, stores, storeKey, broker, issued>>
      /\ runs[r].pc = "refreshEnv" /\ (Done \/ Cut \/ Failed)
  <2>1. Done \/ Cut \/ Failed
    <3> HIDE DEF fresh
    <3>1. \/ envFile.text = "absent" /\ Leads(r, "failed") /\ UNCHANGED <<envFile, ready, spoiled>>
          \/ /\ envFile.text # "absent" /\ fresh = envFile /\ Leads(r, "ready") /\ ready' = TRUE
             /\ UNCHANGED <<envFile, spoiled>>
          \/ /\ envFile.text # "absent" /\ fresh # envFile
             /\ \/ envFile' = fresh /\ Leads(r, "ready") /\ ready' = TRUE /\ UNCHANGED spoiled
                \/ Leads(r, "failed") /\ ready' = FALSE /\ spoiled' = TRUE
                \/ UNCHANGED <<envFile, spoiled>> /\ Leads(r, "failed") /\ ready' = FALSE
      BY DEF refreshWorkspaceSetupEnvPaths, NewLayout, fresh
    <3> QED BY <3>1
  <2> HIDE DEF Done, Cut, Failed
  <2> QED BY <2>1 DEF SetupInv, refreshWorkspaceSetupEnvPaths
<1>1. UNCHANGED <<Layouts, NewLayout, KnownOS>> /\ KnownOS /\ NewLayout \in Layouts
  BY <1>0, Stays DEF Layouts, NewLayout
<1>2. \A L \in Layouts : \A t, k : envFile = buildWorkspaceSetupEnvFile(L, t, k)
        => fresh = buildWorkspaceSetupEnvFile(NewLayout, t, k)
  BY <1>1, EnvRefreshed DEF NewLayout
<1> HIDE DEF fresh
<1>3. /\ runs' \in [Runs -> [pc : SetupPhases, made : Nat]]
      /\ runs'[r].pc \in {"ready", "failed"} /\ ready' \in BOOLEAN /\ spoiled' \in BOOLEAN
      /\ \A q \in Runs : q # r => runs'[q] = runs[q]
  <2>1. {"ready", "failed"} \subseteq SetupPhases
    BY DEF SetupPhases
  <2>0. ready \in BOOLEAN /\ spoiled \in BOOLEAN
    BY <1>0 DEF SetupTypeOK
  <2>2. CASE Done
    BY <1>0, <2>0, <2>1, <2>2, RunLed
  <2>3. CASE Cut
    BY <1>0, <2>1, <2>3, RunLed
  <2>4. CASE Failed
    BY <1>0, <2>0, <2>1, <2>4, RunLed
  <2> QED BY <1>0, <2>2, <2>3, <2>4
<1>4. SetupTypeOK'
  BY <1>0, <1>1, <1>3 DEF SetupTypeOK
<1>5. ConfigInv' /\ KeyInv'
  BY <1>0, <1>1 DEF ConfigInv, KeyInv
<1>6. ASSUME ~spoiled' PROVE ~spoiled /\ (Done \/ Failed)
  <2>1. ~Cut
    BY <1>6
  <2>2. spoiled' = spoiled
    BY <1>0, <2>1
  <2> QED BY <1>0, <1>6, <2>1, <2>2
\* The configuration is of the new layout already, so a new environment makes the pair.
<1>7. ASSUME ~spoiled', Done
      PROVE  \E t \in AllTokens, k \in AllKeys :
               /\ PairedWith(t, k) /\ configFile = buildWorkspaceSetupConfig(NewLayout, t)
               /\ envFile' = buildWorkspaceSetupEnvFile(NewLayout, t, k)
  <2>1. PICK L \in Layouts, t \in AllTokens, k \in AllKeys :
          envFile = buildWorkspaceSetupEnvFile(L, t, k) /\ PairedWith(t, k)
    BY <1>0, <1>6, <1>7, Texts DEF PairInv
  <2>2. PICK u \in AllTokens : configFile = buildWorkspaceSetupConfig(NewLayout, u)
    BY <1>0, <1>6, <1>7 DEF RunInv
  <2>3. PICK M \in Layouts : configFile = buildWorkspaceSetupConfig(M, t)
    BY <2>1, <2>2, Texts DEF PairedWith
  <2>4. u = t
    <3>1. buildWorkspaceSetupConfig(NewLayout, u).doc.token = u /\ buildWorkspaceSetupConfig(M, t).doc.token = t
      BY Texts, Zenon
    <3> QED BY <2>2, <2>3, <3>1
  <2>5. envFile' = buildWorkspaceSetupEnvFile(NewLayout, t, k)
    BY <1>2, <1>7, <2>1
  <2> QED BY <2>1, <2>2, <2>4, <2>5
<1>8. PairInv'
  <2> SUFFICES ASSUME ~spoiled'
               PROVE  \/ envFile' = NoFile /\ broker' = "none"
                      \/ \E L \in Layouts, t \in AllTokens, k \in AllKeys :
                           envFile' = buildWorkspaceSetupEnvFile(L, t, k) /\ PairedWith(t, k)'
    BY <1>1 DEF PairInv
  <2>0. \A t, k : PairedWith(t, k)' <=> PairedWith(t, k)
    BY <1>0, <1>1 DEF PairedWith
  <2>1. CASE Done
    BY <1>1, <1>7, <2>0, <2>1
  <2>2. CASE Failed
    BY <1>0, <1>6, <2>0, <2>2 DEF PairInv
  <2> QED BY <1>6, <2>1, <2>2
<1>9. RunInv'
  <2>1. \A q \in Runs : Making(q)' => Making(q) /\ runs'[q] = runs[q] /\ q # r
    BY <1>3 DEF Making
  <2>2. \A q \in Runs : Making(q)' => spoiled'
    BY <1>0, <1>6, <2>1 DEF RunInv, Writing
  <2>3. \A q \in Runs : Making(q)' => runs'[q].made \in 1..MaxIssued
    BY <1>0, <2>1 DEF RunInv
  <2>4. \A q \in Runs : runs'[q].pc = "refreshEnv" /\ ~spoiled' =>
          \E t \in AllTokens : configFile' = buildWorkspaceSetupConfig(NewLayout, t)
    BY <1>0, <1>3, <1>6 DEF RunInv
  <2> QED BY <1>1, <2>2, <2>3, <2>4 DEF RunInv, Making
<1>10. ReadyInv'
  <2> SUFFICES ASSUME ready', ~spoiled' PROVE \E t \in AllTokens, k \in AllKeys : Written(t, k)'
    BY DEF ReadyInv
  <2>1. CASE Done
    <3>1. PICK t \in AllTokens, k \in AllKeys :
            /\ configFile = buildWorkspaceSetupConfig(NewLayout, t)
            /\ envFile' = buildWorkspaceSetupEnvFile(NewLayout, t, k)
      BY <1>7, <2>1
    <3>2. Written(t, k)'
      BY <1>0, <1>1, <3>1 DEF Written, NewLayout
    <3> QED BY <3>2
  <2>2. CASE Failed
    <3>1. ready /\ ~spoiled
      BY <1>6, <2>2
    <3>2. PICK t \in AllTokens, k \in AllKeys : Written(t, k)
      BY <1>0, <3>1 DEF ReadyInv
    <3>3. Written(t, k)'
      BY <1>0, <2>2, <3>2 DEF Written
    <3> QED BY <3>3
  <2> QED BY <1>6, <2>1, <2>2
<1> QED BY <1>4, <1>5, <1>8, <1>9, <1>10 DEF SetupInv

\* The steps of the broker leave the two files and the runs as they are.
LEMMA BrokerPreserves ==
  ASSUME SetupInv, StartBroker \/ Persist \/ StopBroker
  PROVE  SetupInv'
<1>0. /\ SetupTypeOK /\ ConfigInv /\ PairInv /\ KeyInv /\ RunInv /\ ReadyInv
      /\ UNCHANGED <<goos, configFile, envFile, runs, issued, ready, spoiled>>
  BY DEF SetupInv, StartBroker, Persist, StopBroker
<1>1. UNCHANGED <<Layouts, NewLayout, KnownOS>>
  BY <1>0, Stays
<1>2. SetupTypeOK' /\ ConfigInv' /\ ReadyInv'
  <2>1. SetupTypeOK'
    BY <1>0, <1>1 DEF SetupTypeOK
  <2>2. ConfigInv'
    BY <1>0, <1>1 DEF ConfigInv
  <2>3. ReadyInv'
    BY <1>0, <1>1 DEF ReadyInv, Written
  <2> QED BY <2>1, <2>2, <2>3
\* The key a started broker has is not empty, and the one of a whole environment.
<1>3. ASSUME StartBroker
      PROVE  /\ "auth" \in stores' <=> "auth" \in stores
             /\ storeKey' = storeKey /\ envFile.text # "absent" /\ broker' # ""
             /\ \A L \in Layouts : \A t, k :
                  envFile = buildWorkspaceSetupEnvFile(L, t, k) => broker' \in {"none", k}
  <2>1. /\ Detected # "" /\ configFile.text = "whole" /\ storeKey' = storeKey
        /\ stores' \in {stores, stores \cup {"audit"}}
        /\ broker' = "none" \/ (Served # {} /\ broker' = BrokerEnv["KEY"])
    BY <1>3, Zenon DEF StartBroker
  <2>2. envFile.text # "absent"
    BY <2>1 DEF Detected
  <2>3. "auth" \in stores' <=> "auth" \in stores
    BY <2>1
  <2> QED BY <1>0, <2>1, <2>2, <2>3, BrokersKey
\* A broker runs on an environment that is there.
<1>4. ASSUME Persist \/ StopBroker, ~spoiled
      PROVE  \E L \in Layouts, t \in AllTokens, k \in AllKeys :
               envFile = buildWorkspaceSetupEnvFile(L, t, k) /\ PairedWith(t, k)
  BY <1>0, <1>4 DEF PairInv, Persist, StopBroker
<1>5. PairInv'
  <2> SUFFICES ASSUME ~spoiled PROVE PairInv'
    BY <1>0 DEF PairInv
  <2>1. PICK L \in Layouts, t \in AllTokens, k \in AllKeys :
          envFile = buildWorkspaceSetupEnvFile(L, t, k) /\ PairedWith(t, k)
    BY <1>0, <1>3, <1>4, Texts DEF PairInv
  <2>2. PairedWith(t, k)'
    <3>1. configFile'.text = "whole" => \E M \in Layouts' : configFile' = buildWorkspaceSetupConfig(M, t)
      BY <1>0, <1>1, <2>1 DEF PairedWith
    <3>2. (broker' # "none" => broker' = k) /\ ("auth" \in stores' => storeKey' = k)
      <4>1. CASE StartBroker
        BY <1>3, <2>1, <4>1 DEF PairedWith
      <4>2. CASE Persist
        BY <2>1, <4>2 DEF PairedWith, Persist
      <4>3. CASE StopBroker
        BY <2>1, <4>3 DEF PairedWith, StopBroker
      <4> QED BY <4>1, <4>2, <4>3
    <3> QED BY <3>1, <3>2 DEF PairedWith
  <2> QED BY <1>0, <1>1, <2>1, <2>2 DEF PairInv
<1>6. KeyInv'
  <2>1. CASE StartBroker
    BY <1>0, <1>3, <2>1 DEF KeyInv
  <2>2. CASE Persist
    BY <1>0, <2>2 DEF KeyInv, Persist
  <2>3. CASE StopBroker
    BY <1>0, <2>3 DEF KeyInv, StopBroker
  <2> QED BY <2>1, <2>2, <2>3
<1>7. RunInv'
  <2>1. envFile.text # "absent" \/ spoiled
    <3>1. CASE StartBroker
      BY <1>3, <3>1
    <3>2. CASE (Persist \/ StopBroker) /\ ~spoiled
      <4>1. PICK L \in Layouts, t \in AllTokens, k \in AllKeys : envFile = buildWorkspaceSetupEnvFile(L, t, k)
        BY <1>4, <3>2
      <4> QED BY <4>1, Texts
    <3> QED BY <3>1, <3>2
  <2>2. \A q \in Runs : Making(q) => spoiled
    BY <1>0, <2>1, Texts DEF RunInv
  <2>3. \A q \in Runs : Making(q)' <=> Making(q)
    BY <1>0 DEF Making
  <2> QED BY <1>0, <1>1, <2>2, <2>3 DEF RunInv
<1> QED BY <1>2, <1>5, <1>6, <1>7 DEF SetupInv

\* The user clears away a file no broker runs on.
LEMMA RemovePreserves ==
  ASSUME SetupInv, RemoveFile
  PROVE  SetupInv'
<1> DEFINE Config == configFile' = NoFile /\ ready' = FALSE /\ UNCHANGED <<envFile, stores, storeKey>>
           Environment == envFile' = NoFile /\ ready' = FALSE /\ UNCHANGED <<configFile, stores, storeKey>>
           Store == /\ \E f \in stores : /\ stores' = stores \ {f}
                                         /\ storeKey' = IF f = "auth" THEN "none" ELSE storeKey
                    /\ UNCHANGED <<configFile, envFile, ready>>
<1>0. /\ SetupTypeOK /\ ConfigInv /\ PairInv /\ KeyInv /\ RunInv /\ ReadyInv
      /\ UNCHANGED <<goos, broker, runs, issued>> /\ broker = "none"
      /\ Config \/ Environment \/ Store
      /\ spoiled' = (spoiled \/ \E r \in Runs : runs[r].pc \in Writing)
  BY DEF SetupInv, RemoveFile
<1>1. UNCHANGED <<Layouts, NewLayout, KnownOS>>
  BY <1>0, Stays
<1>2. ~spoiled' => ~spoiled /\ \A r \in Runs : runs'[r].pc \notin Writing
  BY <1>0
<1>3. "auth" \in stores' => "auth" \in stores /\ storeKey' = storeKey
  BY <1>0
<1>4. SetupTypeOK'
  <2>1. ready' \in BOOLEAN /\ spoiled' \in BOOLEAN
    BY <1>0 DEF SetupTypeOK
  <2> QED BY <1>0, <1>1, <2>1 DEF SetupTypeOK
<1>5. configFile' \in {configFile, NoFile} /\ envFile' \in {envFile, NoFile}
  BY <1>0
<1>6. ConfigInv'
  BY <1>0, <1>1, <1>5 DEF ConfigInv
<1>7. KeyInv'
  BY <1>0, <1>3 DEF KeyInv
<1>8. PairInv'
  <2> SUFFICES ASSUME ~spoiled', envFile' # NoFile
               PROVE  \E L \in Layouts, t \in AllTokens, k \in AllKeys :
                        envFile' = buildWorkspaceSetupEnvFile(L, t, k) /\ PairedWith(t, k)'
    BY <1>0, <1>1 DEF PairInv
  <2>1. envFile' = envFile /\ envFile # NoFile
    BY <1>5
  <2>2. PICK L \in Layouts, t \in AllTokens, k \in AllKeys :
          envFile = buildWorkspaceSetupEnvFile(L, t, k) /\ PairedWith(t, k)
    BY <1>0, <1>2, <2>1 DEF PairInv
  <2>3. PairedWith(t, k)'
    BY <1>0, <1>1, <1>3, <1>5, <2>2, Texts DEF PairedWith
  <2> QED BY <2>1, <2>2, <2>3
<1>9. RunInv'
  <2>1. \A r \in Runs : Making(r)' => runs'[r].made \in 1..MaxIssued
    BY <1>0 DEF RunInv, Making
  <2> QED BY <1>2, <2>1 DEF RunInv, Making, Writing
<1>10. ReadyInv'
  <2> SUFFICES ASSUME ready', ~spoiled' PROVE \E t \in AllTokens, k \in AllKeys : Written(t, k)'
    BY DEF ReadyInv
  <2>1. ready /\ ~spoiled /\ UNCHANGED <<configFile, envFile>>
    BY <1>0, <1>2
  <2> QED BY <1>0, <2>1 DEF ReadyInv, Written
<1> QED BY <1>4, <1>6, <1>7, <1>8, <1>9, <1>10 DEF SetupInv

\* Whatever runs of setup are interrupted or interleaved, and for any numbers of them: once
\* one says the quickstart is ready, and until its files are spoiled, the broker started there
\* serves the operator where watch looks and takes the token watch sends; no key is put beside
\* an auth store of another, and no auth store is written without one
\* (ensureWorkspaceSetup, refreshExistingWorkspaceSetupPaths, validateDeploymentMode).
THEOREM SetupStaysSound == SetupSpec => []SetupSound
<1>1. SetupInit => SetupInv
  BY SetupInvInit
<1>2. SetupInv /\ [SetupNext]_svars => SetupInv'
  <2> SUFFICES ASSUME SetupInv, [SetupNext]_svars PROVE SetupInv'
    OBVIOUS
  <2>1. ASSUME NEW r \in Runs, ensureWorkspaceSetup(r) PROVE SetupInv'
    BY <2>1, EnsurePreserves
  <2>2. ASSUME NEW r \in Runs, WriteConfig(r) PROVE SetupInv'
    BY <2>2, WriteConfigPreserves
  <2>3. ASSUME NEW r \in Runs, WriteNewEnv(r) PROVE SetupInv'
    BY <2>3, WriteNewEnvPreserves
  <2>4. ASSUME NEW r \in Runs, refreshWorkspaceSetupConfigPaths(r) PROVE SetupInv'
    BY <2>4, RefreshConfigPreserves
  <2>5. ASSUME NEW r \in Runs, refreshWorkspaceSetupEnvPaths(r) PROVE SetupInv'
    BY <2>5, RefreshEnvPreserves
  <2>6. CASE StartBroker \/ Persist \/ StopBroker
    BY <2>6, BrokerPreserves
  <2>7. CASE RemoveFile
    BY <2>7, RemovePreserves
  <2>8. CASE UNCHANGED svars
    <3>1. UNCHANGED <<goos, configFile, envFile, stores, storeKey, broker, runs, issued, ready, spoiled>>
      BY <2>8 DEF svars
    <3>2. UNCHANGED <<Layouts, NewLayout, KnownOS>>
      BY <3>1, Stays
    <3> QED BY <3>1, <3>2 DEF SetupInv, SetupTypeOK, ConfigInv, PairInv, PairedWith, KeyInv, RunInv, Making,
                                    ReadyInv, Written
  <2> QED BY <2>1, <2>2, <2>3, <2>4, <2>5, <2>6, <2>7, <2>8 DEF SetupNext
<1>3. SetupInv => SetupSound
  BY SetupInvSound
<1> QED BY <1>1, <1>2, <1>3, PTL DEF SetupSpec
==============================================================================
