----------------------------- MODULE RateLimiter -----------------------------
(***************************************************************************)
(* The rate limiter (src/app/security/rate_limit.py) and the way requests  *)
(* reach it (src/app/api/dependencies.py): fixed windows, counted in the   *)
(* memory of a limiter or in Redis, for one key "subject + path" (keys do  *)
(* not interact).                                                          *)
(*                                                                         *)
(* Requests are handled by a pool of threads: each reads the clock, and    *)
(* counts itself some time later.                                          *)
(***************************************************************************)
EXTENDS Integers, FiniteSets

CONSTANTS Requests,      \* the requests with this key, each made once
          Processes,
          ProcessOf,     \* the process that handles a request
          RedisProcs,    \* the processes whose limiters have a Redis backend
          Limit,         \* rate_limit_per_minute
          Window,        \* window_seconds
          MaxTime,       \* bound: the clock stops there
          RedisFails,    \* whether a call to Redis may raise
          None

ASSUME LimiterAssumption == /\ IsFiniteSet(Requests)
                            /\ ProcessOf \in [Requests -> Processes]
                            /\ RedisProcs \subseteq Processes
                            /\ Limit \in Nat
                            /\ Window \in Nat \ {0}
                            /\ MaxTime \in Nat
                            /\ RedisFails \in BOOLEAN
                            /\ None \notin Requests

VARIABLES now,
          cached,        \* per process: the limiter get_rate_limiter has cached
          memory,        \* per limiter: _counters, by start of the window
          redis, expiry, \* per window: the Redis counter and when it expires
          request

vars == <<now, cached, memory, redis, expiry, request>>

Time == 0..MaxTime

(***************************************************************************)
(* A limiter is named by the request that built it; "late" tells whether   *)
(* the window was over when the request was counted in it.                 *)
(***************************************************************************)
Request == [pc      : {"new", "build", "check", "redis", "fallback", "memory",
                       "allowed", "denied"},
            limiter : Requests \cup {None},
            read    : Time,
            by      : {"nobody", "memory", "redis"},
            late    : BOOLEAN]

NewRequest == [pc |-> "new", limiter |-> None, read |-> 0,
               by |-> "nobody", late |-> FALSE]

Init == /\ now = 0
        /\ cached = [p \in Processes |-> None]
        /\ memory = [i \in Requests |-> [s \in Time |-> 0]]
        /\ redis  = [s \in Time |-> 0]
        /\ expiry = [s \in Time |-> 0]
        /\ request = [r \in Requests |-> NewRequest]

WindowStart(t) == t - (t % Window)

Becomes(r, state) == request' = [request EXCEPT ![r] = state]

(***************************************************************************)
(* get_rate_limiter: lru_cache holds no lock while a limiter is built, so  *)
(* requests that find the cache empty build one each; the first is kept,   *)
(* the others serve the request that built them.                           *)
(***************************************************************************)
GetRateLimiter(r) ==
  /\ request[r].pc = "new"
  /\ LET i == cached[ProcessOf[r]] IN
       Becomes(r, IF i = None THEN [request[r] EXCEPT !.pc = "build"]
                  ELSE [request[r] EXCEPT !.pc = "check", !.limiter = i])
  /\ UNCHANGED <<now, cached, memory, redis, expiry>>

Build(r) ==
  /\ request[r].pc = "build"
  /\ cached' = [cached EXCEPT ![ProcessOf[r]] = IF @ = None THEN r ELSE @]
  /\ Becomes(r, [request[r] EXCEPT !.pc = "check", !.limiter = r])
  /\ UNCHANGED <<now, memory, redis, expiry>>

(***************************************************************************)
(* RateLimiter.check reads the clock, once for each backend it tries.      *)
(***************************************************************************)
ReadClock(r) ==
  /\ request[r].pc \in {"check", "fallback"}
  /\ Becomes(r, [request[r] EXCEPT !.read = now,
                   !.pc = IF @ = "check" /\ ProcessOf[r] \in RedisProcs
                          THEN "redis" ELSE "memory"])
  /\ UNCHANGED <<now, cached, memory, redis, expiry>>

(***************************************************************************)
(* The answer to the n-th request counted in the window of its clock.      *)
(***************************************************************************)
MutantAnswer(r, by, n) ==              \* count <= limit + 1
  Becomes(r, [request[r] EXCEPT !.pc = IF n <= Limit + 1 THEN "allowed" ELSE "denied",
                                !.by = by,
                                !.late = now >= WindowStart(request[r].read) + Window])

Answer(r, by, n) ==
  Becomes(r, [request[r] EXCEPT !.pc = IF n <= Limit THEN "allowed" ELSE "denied",
                                !.by = by,
                                !.late = now >= WindowStart(request[r].read) + Window])

(***************************************************************************)
(* InMemoryRateLimiter.check, under its lock.                              *)
(***************************************************************************)
CountInMemory(r) ==
  /\ request[r].pc = "memory"
  /\ LET i == request[r].limiter
         s == WindowStart(request[r].read)
     IN  /\ memory' = [memory EXCEPT ![i][s] = @ + 1]
         /\ Answer(r, "memory", memory[i][s] + 1)
  /\ UNCHANGED <<now, cached, redis, expiry>>

(***************************************************************************)
(* RedisRateLimiter.check: INCR and EXPIRE in one MULTI.                   *)
(***************************************************************************)
Counted(s) == IF now < expiry[s] THEN redis[s] ELSE 0

MutantIncrementShort(s) ==             \* expires when the window does not
  /\ redis' = [redis EXCEPT ![s] = Counted(s) + 1]
  /\ expiry' = [expiry EXCEPT ![s] = now + Window - 1]

Increment(s) == /\ redis' = [redis EXCEPT ![s] = Counted(s) + 1]
                /\ expiry' = [expiry EXCEPT ![s] = now + Window]

CountInRedis(r) ==
  /\ request[r].pc = "redis"
  /\ LET s == WindowStart(request[r].read) IN
       /\ Increment(s)
       /\ Answer(r, "redis", Counted(s) + 1)
  /\ UNCHANGED <<now, cached, memory>>

(***************************************************************************)
(* The call raises, before or after Redis has counted the request; the     *)
(* limiter falls back to its memory.                                       *)
(***************************************************************************)
MutantRedisRaisesOpen(r) ==            \* lets the request pass
  /\ request[r].pc = "redis" /\ RedisFails
  /\ \/ Increment(WindowStart(request[r].read))
     \/ UNCHANGED <<redis, expiry>>
  /\ Becomes(r, [request[r] EXCEPT !.pc = "allowed"])
  /\ UNCHANGED <<now, cached, memory>>

RedisRaises(r) ==
  /\ request[r].pc = "redis" /\ RedisFails
  /\ \/ Increment(WindowStart(request[r].read))
     \/ UNCHANGED <<redis, expiry>>
  /\ Becomes(r, [request[r] EXCEPT !.pc = "fallback"])
  /\ UNCHANGED <<now, cached, memory>>

Tick == /\ now < MaxTime
        /\ now' = now + 1
        /\ UNCHANGED <<cached, memory, redis, expiry, request>>

Next == \/ \E r \in Requests : \/ GetRateLimiter(r) \/ Build(r) \/ ReadClock(r)
                               \/ CountInMemory(r) \/ CountInRedis(r) \/ RedisRaises(r)
        \/ Tick

Spec == Init /\ [][Next]_vars

-----------------------------------------------------------------------------
(***************************************************************************)
(* Every variable has its type.                                            *)
(***************************************************************************)
TypeOK == /\ now \in Time
          /\ cached \in [Processes -> Requests \cup {None}]
          /\ memory \in [Requests -> [Time -> Nat]]
          /\ redis \in [Time -> Nat]
          /\ expiry \in [Time -> Nat]
          /\ request \in [Requests -> Request]

InWindow(r, s) == request[r].pc = "allowed" /\ WindowStart(request[r].read) = s

AllowedByMemory(i, s) == {r \in Requests : /\ InWindow(r, s)
                                           /\ request[r].by = "memory"
                                           /\ request[r].limiter = i}

AllowedByRedis(s) == {r \in Requests : /\ InWindow(r, s)
                                       /\ request[r].by = "redis" /\ ~request[r].late}

(***************************************************************************)
(* The memory of a limiter allows Limit requests a window, not one more,   *)
(* and refuses none before, however late a thread counts itself in a       *)
(* window that is over, and whatever other threads count in the meantime.  *)
(***************************************************************************)
MemoryQuota ==
  \A i \in Requests, s \in Time :
    Cardinality(AllowedByMemory(i, s)) = IF memory[i][s] <= Limit THEN memory[i][s]
                                         ELSE Limit

(***************************************************************************)
(* Redis allows at most Limit requests a window among those that are       *)
(* counted before the window is over: until then its counter, which        *)
(* expires, has not been forgotten.                                        *)
(***************************************************************************)
RedisQuota == \A s \in Time : Cardinality(AllowedByRedis(s)) <= Limit

(***************************************************************************)
(* The counter that a request was counted in: the memory of a limiter, or  *)
(* Redis.                                                                  *)
(***************************************************************************)
CounterOf(r) == IF request[r].by = "memory" THEN request[r].limiter ELSE None

Admitted(s) == {r \in Requests : InWindow(r, s) /\ ~(request[r].by = "redis" /\ request[r].late)}

Counters(s) == {CounterOf(r) : r \in Admitted(s)}

(***************************************************************************)
(* The requests that are counted before their window is over, or in a      *)
(* memory, which never forgets, are at most Limit for every counter that   *)
(* allowed one of them: this is all a subject gains when its requests      *)
(* reach several processes, when first requests build limiters of their    *)
(* own, or when Redis fails (rate_limit.py 93-101, dependencies.py 72-74). *)
(***************************************************************************)
TotalQuota == \A s \in Time : Cardinality(Admitted(s)) <= Limit * Cardinality(Counters(s))

(***************************************************************************)
(* What a request holds and what its counter still knows: the              *)
(* strengthening under which the quotas are inductive.                     *)
(***************************************************************************)
RequestsHold ==
  /\ \A r \in Requests : request[r].pc \in {"check", "redis", "fallback", "memory"} =>
                           request[r].limiter \in Requests
  /\ \A r \in Requests : request[r].pc \in {"redis", "memory"} => request[r].read <= now

RedisRemembers ==
  \A s \in Time :
    /\ redis[s] > 0 => s + Window <= expiry[s]
    /\ now < s + Window => Cardinality(AllowedByRedis(s)) <= redis[s]

IInv == TypeOK /\ RequestsHold /\ RedisRemembers /\ MemoryQuota /\ RedisQuota
=============================================================================
