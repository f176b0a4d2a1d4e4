----------------------------- MODULE AuthRateLimit -----------------------------
(***************************************************************************)
(* The limiter of failed authentication: a bucket for each scope and host. *)
(* A request asks whether its bucket has room, has its credential examined *)
(* and, when that fails, adds to the bucket: two critical sections, each   *)
(* with a time read before its lock is taken, and other requests between.  *)
(***************************************************************************)
EXTENDS Integers, FiniteSets

CONSTANTS Workers,          \* goroutines that serve a request each
          Buckets,          \* scope and host of a request
          ConfiguredMax, ConfiguredWindow,  \* rate_limit_max_attempts, rate_limit_window_seconds
          MaxTime           \* bound: the clock

ASSUME LimiterAssumption == /\ IsFiniteSet(Workers)
                            /\ ConfiguredMax \in Int /\ ConfiguredWindow \in Int /\ MaxTime \in Nat

VARIABLES bucket,  \* failures counted, and when the window ends (0: never begun)
          worker,  \* each request: where it is, its bucket, the time it read
          time

rvars == <<bucket, worker, time>>

newAuthRateLimiter(max, window) ==
  [max |-> IF max <= 0 THEN 20 ELSE max, window |-> IF window <= 0 THEN 60 ELSE window]
Limit == newAuthRateLimiter(ConfiguredMax, ConfiguredWindow)

Free == [pc |-> "free", key |-> "none", now |-> 0]

LimiterInit ==
  /\ bucket = [k \in Buckets |-> [count |-> 0, resetAt |-> 0]]
  /\ worker = [w \in Workers |-> Free]
  /\ time = 1

\* The bucket as a critical section that read the time now finds it.
Current(k, now) ==
  IF bucket[k].resetAt = 0 \/ now >= bucket[k].resetAt
  THEN [count |-> 0, resetAt |-> now + Limit.window] ELSE bucket[k]

Become(w, pc, key, now) == worker' = [worker EXCEPT ![w] = [pc |-> pc, key |-> key, now |-> now]]

Arrive(w) ==
  /\ worker[w].pc = "free"
  /\ \E k \in Buckets : Become(w, "asks", k, time)
  /\ UNCHANGED <<bucket, time>>

HasRoom_OffByOne(b) == b.count <= Limit.max
HasRoom(b) == b.count < Limit.max

allow(w) ==
  LET b == Current(worker[w].key, worker[w].now) IN
  /\ worker[w].pc = "asks"
  /\ bucket' = [bucket EXCEPT ![worker[w].key] = b]
  /\ IF HasRoom(b) THEN Become(w, "examined", worker[w].key, 0) ELSE worker' = [worker EXCEPT ![w] = Free]
  /\ UNCHANGED time

\* A credential that is good leaves the bucket alone.
Examine(w) ==
  /\ worker[w].pc = "examined"
  /\ \/ worker' = [worker EXCEPT ![w] = Free]
     \/ Become(w, "failed", worker[w].key, time)
  /\ UNCHANGED <<bucket, time>>

recordFailure(w) ==
  LET b == Current(worker[w].key, worker[w].now) IN
  /\ worker[w].pc = "failed"
  /\ bucket' = [bucket EXCEPT ![worker[w].key] = [b EXCEPT !.count = @ + 1]]
  /\ worker' = [worker EXCEPT ![w] = Free]
  /\ UNCHANGED time

TimePasses == time < MaxTime /\ time' = time + 1 /\ UNCHANGED <<bucket, worker>>

LimiterNext ==
  \/ \E w \in Workers : Arrive(w) \/ allow(w) \/ Examine(w) \/ recordFailure(w)
  \/ TimePasses

LimiterSpec == LimiterInit /\ [][LimiterNext]_rvars

-----------------------------------------------------------------------------
LimiterTypeOK ==
  /\ bucket \in [Buckets -> [count : Nat, resetAt : Int]]
  /\ worker \in [Workers -> [pc : {"free", "asks", "examined", "failed"}, key : Buckets \cup {"none"}, now : Int]]
  /\ \A w \in Workers : worker[w].pc # "free" => worker[w].key \in Buckets
  /\ time \in Int

\* Requests past the check whose failure the bucket does not have yet.
UnderWay(k) == {w \in Workers : worker[w].key = k /\ worker[w].pc \in {"examined", "failed"}}

\* In a window, the failures of a host and the credentials of it that are still
\* to be found good or bad are fewer than the limit and the requests served at
\* once: the gap between the two critical sections lets no more through, also
\* when the window ends between them (auth_ratelimit.go 50-81).
FailuresBounded ==
  \A k \in Buckets :
    bucket[k].count + Cardinality(UnderWay(k)) < Limit.max + Cardinality(Workers)
==============================================================================
