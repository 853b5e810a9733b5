-------------------------- MODULE RateLimiterProofs --------------------------
(***************************************************************************)
(* The quotas hold for any number of requests, processes and failures.     *)
(***************************************************************************)
EXTENDS RateLimiter, FiniteSetTheorems, TLAPS

(***************************************************************************)
(* A moment lies in its window.                                            *)
(***************************************************************************)
LEMMA Windows ==
  ASSUME NEW t \in Nat
  PROVE  WindowStart(t) \in Nat /\ WindowStart(t) <= t /\ t < WindowStart(t) + Window
BY LimiterAssumption DEF WindowStart

LEMMA AllowedFinite ==
  ASSUME NEW i, NEW s
  PROVE  /\ IsFiniteSet(AllowedByMemory(i, s)) /\ Cardinality(AllowedByMemory(i, s)) \in Nat
         /\ IsFiniteSet(AllowedByRedis(s)) /\ Cardinality(AllowedByRedis(s)) \in Nat
<1>1. AllowedByMemory(i, s) \subseteq Requests /\ AllowedByRedis(s) \subseteq Requests
  BY DEF AllowedByMemory, AllowedByRedis
<1> QED  BY <1>1, LimiterAssumption, FS_Subset, FS_CardinalityType

LEMMA InitIInv == Init => IInv
<1> SUFFICES ASSUME Init PROVE IInv
  OBVIOUS
<1> USE LimiterAssumption DEF Init, NewRequest
<1>1. 0 \in Time
  BY DEF Time
<1>2. TypeOK
  BY <1>1 DEF TypeOK, Request
<1>3. RequestsHold
  BY DEF RequestsHold
<1>4. ASSUME NEW i \in Requests, NEW s \in Time
      PROVE  Cardinality(AllowedByMemory(i, s)) = 0 /\ memory[i][s] = 0
  <2>1. AllowedByMemory(i, s) = {}
    BY DEF AllowedByMemory, InWindow
  <2> QED  BY <2>1, FS_EmptySet
<1>5. ASSUME NEW s \in Time
      PROVE  Cardinality(AllowedByRedis(s)) = 0 /\ redis[s] = 0
  <2>1. AllowedByRedis(s) = {}
    BY DEF AllowedByRedis, InWindow
  <2> QED  BY <2>1, FS_EmptySet
<1>6. MemoryQuota
  BY <1>4 DEF MemoryQuota
<1>7. RedisQuota /\ RedisRemembers
  BY <1>5 DEF RedisQuota, RedisRemembers
<1> QED  BY <1>2, <1>3, <1>6, <1>7 DEF IInv

(***************************************************************************)
(* A step of a request that is not answered by it: nobody is allowed.      *)
(***************************************************************************)
LEMMA Unanswered ==
  ASSUME TypeOK, NEW r \in Requests, NEW state,
         Becomes(r, state), request[r].pc # "allowed", state.pc # "allowed"
  PROVE  \A s \in Time : /\ \A i \in Requests : AllowedByMemory(i, s)' = AllowedByMemory(i, s)
                         /\ AllowedByRedis(s)' = AllowedByRedis(s)
<1>1. ASSUME NEW q \in Requests
      PROVE  request'[q] = IF q = r THEN state ELSE request[q]
  BY DEF Becomes, TypeOK
<1>2. ASSUME NEW q \in Requests, NEW s
      PROVE  InWindow(q, s)' <=> q # r /\ InWindow(q, s)
  BY <1>1 DEF InWindow
<1>3. ASSUME NEW s PROVE ~InWindow(r, s)
  BY DEF InWindow
<1>4. ASSUME NEW s \in Time PROVE AllowedByRedis(s)' = AllowedByRedis(s)
  BY <1>1, <1>2, <1>3 DEF AllowedByRedis
<1>5. ASSUME NEW s \in Time, NEW i \in Requests
      PROVE  AllowedByMemory(i, s)' = AllowedByMemory(i, s)
  BY <1>1, <1>2, <1>3 DEF AllowedByMemory
<1> QED  BY <1>4, <1>5

(***************************************************************************)
(* An answer: the request that is counted joins the ones that were allowed *)
(* by its counter in its window, if the count is within the limit and, in  *)
(* Redis, the window is not over.                                          *)
(***************************************************************************)
LEMMA Answered ==
  ASSUME TypeOK, NEW r \in Requests, NEW by \in {"memory", "redis"}, NEW n \in Nat,
         Answer(r, by, n), request[r].pc # "allowed"
  PROVE  LET start == WindowStart(request[r].read) IN
         \A s \in Time :
           /\ \A i \in Requests :
                Cardinality(AllowedByMemory(i, s)') = Cardinality(AllowedByMemory(i, s)) +
                  (IF /\ by = "memory" /\ i = request[r].limiter /\ s = start
                      /\ n <= Limit THEN 1 ELSE 0)
           /\ Cardinality(AllowedByRedis(s)') = Cardinality(AllowedByRedis(s)) +
                  (IF /\ by = "redis" /\ s = start /\ now < start + Window
                      /\ n <= Limit THEN 1 ELSE 0)
<1> DEFINE start == WindowStart(request[r].read)
           late == now >= start + Window
           pc == IF n <= Limit THEN "allowed" ELSE "denied"
           state == [request[r] EXCEPT !.pc = pc, !.by = by, !.late = late]
<1>1. /\ request[r] \in Request /\ request[r].read \in Nat /\ now \in Nat
      /\ start \in Nat /\ Window \in Nat /\ Limit \in Nat
  <2>1. request[r] \in Request /\ request[r].read \in Nat /\ now \in Nat
    BY DEF TypeOK, Request, Time
  <2> QED  BY <2>1, Windows, LimiterAssumption
<1>2. /\ state.pc = pc /\ state.by = by /\ state.late = late
      /\ state.read = request[r].read /\ state.limiter = request[r].limiter
  BY <1>1 DEF Request
<1>3. ASSUME NEW q \in Requests
      PROVE  request'[q] = IF q = r THEN state ELSE request[q]
  BY DEF Answer, Becomes, TypeOK
<1> HIDE DEF state
<1>4. ASSUME NEW s, NEW i PROVE r \notin AllowedByMemory(i, s) /\ r \notin AllowedByRedis(s)
  BY DEF AllowedByMemory, AllowedByRedis, InWindow
<1>5. ASSUME NEW s
      PROVE  /\ \A q \in Requests : q # r => (InWindow(q, s)' <=> InWindow(q, s))
             /\ InWindow(r, s)' <=> n <= Limit /\ s = start
  BY <1>2, <1>3 DEF InWindow
<1>6. late <=> ~(now < start + Window)
  BY <1>1
<1>7. ASSUME NEW s \in Time
      PROVE  Cardinality(AllowedByRedis(s)') = Cardinality(AllowedByRedis(s)) +
               (IF /\ by = "redis" /\ s = start /\ now < start + Window
                   /\ n <= Limit THEN 1 ELSE 0)
  <2> DEFINE joins == by = "redis" /\ s = start /\ now < start + Window /\ n <= Limit
  <2>1. r \in AllowedByRedis(s)' <=> joins
    BY <1>2, <1>3, <1>5, <1>6 DEF AllowedByRedis
  <2>2. ASSUME NEW q \in Requests \ {r}
        PROVE  q \in AllowedByRedis(s)' <=> q \in AllowedByRedis(s)
    BY <1>3, <1>5 DEF AllowedByRedis
  <2>3. AllowedByRedis(s) \subseteq Requests /\ AllowedByRedis(s)' \subseteq Requests
    BY DEF AllowedByRedis
  <2>4. r \notin AllowedByRedis(s) /\ IsFiniteSet(AllowedByRedis(s))
    BY <1>4, AllowedFinite
  <2> HIDE DEF joins
  <2>5. CASE joins
    <3>1. AllowedByRedis(s)' = AllowedByRedis(s) \cup {r}
      BY <2>1, <2>2, <2>3, <2>5
    <3>2. Cardinality(AllowedByRedis(s)') = Cardinality(AllowedByRedis(s)) + 1
      BY <2>4, <3>1, FS_AddElement
    <3> QED  BY <2>5, <3>2 DEF joins
  <2>6. CASE ~joins
    <3>1. AllowedByRedis(s)' = AllowedByRedis(s)
      BY <2>1, <2>2, <2>3, <2>4, <2>6
    <3>2. Cardinality(AllowedByRedis(s)') = Cardinality(AllowedByRedis(s)) + 0
      BY <2>4, <3>1, FS_CardinalityType
    <3> QED  BY <2>6, <3>2 DEF joins
  <2> QED  BY <2>5, <2>6
<1>8. ASSUME NEW s \in Time, NEW i \in Requests
      PROVE  Cardinality(AllowedByMemory(i, s)') = Cardinality(AllowedByMemory(i, s)) +
               (IF /\ by = "memory" /\ i = request[r].limiter /\ s = start
                   /\ n <= Limit THEN 1 ELSE 0)
  <2> DEFINE joins == /\ by = "memory" /\ i = request[r].limiter /\ s = start
                      /\ n <= Limit
  <2>1. r \in AllowedByMemory(i, s)' <=> joins
    BY <1>2, <1>3, <1>5 DEF AllowedByMemory
  <2>2. ASSUME NEW q \in Requests \ {r}
        PROVE  q \in AllowedByMemory(i, s)' <=> q \in AllowedByMemory(i, s)
    BY <1>3, <1>5 DEF AllowedByMemory
  <2>3. AllowedByMemory(i, s) \subseteq Requests /\ AllowedByMemory(i, s)' \subseteq Requests
    BY DEF AllowedByMemory
  <2>4. r \notin AllowedByMemory(i, s) /\ IsFiniteSet(AllowedByMemory(i, s))
    BY <1>4, AllowedFinite
  <2> HIDE DEF joins
  <2>5. CASE joins
    <3>1. AllowedByMemory(i, s)' = AllowedByMemory(i, s) \cup {r}
      BY <2>1, <2>2, <2>3, <2>5
    <3>2. Cardinality(AllowedByMemory(i, s)') = Cardinality(AllowedByMemory(i, s)) + 1
      BY <2>4, <3>1, FS_AddElement
    <3> QED  BY <2>5, <3>2 DEF joins
  <2>6. CASE ~joins
    <3>1. AllowedByMemory(i, s)' = AllowedByMemory(i, s)
      BY <2>1, <2>2, <2>3, <2>4, <2>6
    <3>2. Cardinality(AllowedByMemory(i, s)') = Cardinality(AllowedByMemory(i, s)) + 0
      BY <2>4, <3>1, FS_CardinalityType
    <3> QED  BY <2>6, <3>2 DEF joins
  <2> QED  BY <2>5, <2>6
<1> QED  BY <1>7, <1>8

(***************************************************************************)
(* A step that answers nobody and leaves every counter alone.              *)
(***************************************************************************)
LEMMA QuotasKept ==
  ASSUME IInv, NEW r \in Requests, NEW state,
         Becomes(r, state), request[r].pc # "allowed", state.pc # "allowed",
         UNCHANGED <<now, memory, redis, expiry>>
  PROVE  RedisRemembers' /\ MemoryQuota' /\ RedisQuota'
<1>1. \A s \in Time : /\ \A i \in Requests : AllowedByMemory(i, s)' = AllowedByMemory(i, s)
                      /\ AllowedByRedis(s)' = AllowedByRedis(s)
  BY Unanswered DEF IInv
<1>2. RedisRemembers'
  BY <1>1 DEF IInv, RedisRemembers
<1>3. MemoryQuota'
  BY <1>1 DEF IInv, MemoryQuota
<1>4. RedisQuota'
  BY <1>1 DEF IInv, RedisQuota
<1> QED  BY <1>2, <1>3, <1>4

LEMMA GetRateLimiterIInv ==
  ASSUME IInv, NEW r \in Requests, GetRateLimiter(r) PROVE IInv'
<1> DEFINE i == cached[ProcessOf[r]]
           state == IF i = None THEN [request[r] EXCEPT !.pc = "build"]
                    ELSE [request[r] EXCEPT !.pc = "check", !.limiter = i]
<1>1. /\ request[r] \in Request /\ i \in Requests \cup {None} /\ request[r].pc = "new"
      /\ request' = [request EXCEPT ![r] = state] /\ Becomes(r, state)
      /\ UNCHANGED <<now, cached, memory, redis, expiry>>
  BY LimiterAssumption DEF GetRateLimiter, Becomes, IInv, TypeOK
<1>2. /\ state \in Request /\ state.pc \in {"build", "check"}
      /\ state.pc = "check" => state.limiter \in Requests
  BY <1>1 DEF Request
<1> HIDE DEF state
<1>3. TypeOK'
  BY <1>1, <1>2 DEF IInv, TypeOK
<1>4. RequestsHold'
  BY <1>1, <1>2 DEF IInv, TypeOK, RequestsHold
<1> QED  BY <1>1, <1>2, <1>3, <1>4, QuotasKept DEF IInv

LEMMA BuildIInv ==
  ASSUME IInv, NEW r \in Requests, Build(r) PROVE IInv'
<1> DEFINE state == [request[r] EXCEPT !.pc = "check", !.limiter = r]
<1>1. /\ request[r] \in Request /\ request[r].pc = "build"
      /\ request' = [request EXCEPT ![r] = state] /\ Becomes(r, state)
      /\ UNCHANGED <<now, memory, redis, expiry>>
  BY DEF Build, Becomes, IInv, TypeOK
<1>2. state \in Request /\ state.pc = "check" /\ state.limiter = r
  BY <1>1 DEF Request
<1> HIDE DEF state
<1>3. TypeOK'
  BY <1>1, <1>2, LimiterAssumption DEF Build, IInv, TypeOK
<1>4. RequestsHold'
  BY <1>1, <1>2 DEF IInv, TypeOK, RequestsHold
<1> QED  BY <1>1, <1>2, <1>3, <1>4, QuotasKept DEF IInv

LEMMA ReadClockIInv ==
  ASSUME IInv, NEW r \in Requests, ReadClock(r) PROVE IInv'
<1> DEFINE pc == IF request[r].pc = "check" /\ ProcessOf[r] \in RedisProcs
                 THEN "redis" ELSE "memory"
           state == [request[r] EXCEPT !.read = now, !.pc = pc]
<1>1. /\ request[r] \in Request /\ request[r].pc \in {"check", "fallback"} /\ now \in Time
      /\ request[r].limiter \in Requests
      /\ request' = [request EXCEPT ![r] = state] /\ Becomes(r, state)
      /\ UNCHANGED <<now, cached, memory, redis, expiry>>
  BY DEF ReadClock, Becomes, IInv, TypeOK, RequestsHold
<1>2. /\ state \in Request /\ state.pc \in {"redis", "memory"} /\ state.read = now
      /\ state.limiter = request[r].limiter
  BY <1>1 DEF Request
<1> HIDE DEF state
<1>3. TypeOK'
  BY <1>1, <1>2 DEF IInv, TypeOK
<1>4. RequestsHold'
  BY <1>1, <1>2 DEF IInv, TypeOK, RequestsHold, Time
<1> QED  BY <1>1, <1>2, <1>3, <1>4, QuotasKept DEF IInv

(***************************************************************************)
(* What an answer does to the types and to what requests hold.             *)
(***************************************************************************)
LEMMA AnswerHolds ==
  ASSUME IInv, NEW r \in Requests, NEW by \in {"memory", "redis"}, NEW n \in Nat,
         Answer(r, by, n), UNCHANGED now
  PROVE  request' \in [Requests -> Request] /\ RequestsHold'
<1> DEFINE pc == IF n <= Limit THEN "allowed" ELSE "denied"
           late == now >= WindowStart(request[r].read) + Window
           state == [request[r] EXCEPT !.pc = pc, !.by = by, !.late = late]
<1>1. request[r] \in Request /\ request' = [request EXCEPT ![r] = state]
  BY DEF Answer, Becomes, IInv, TypeOK
<1>2. pc \in {"allowed", "denied"} /\ late \in BOOLEAN
  OBVIOUS
<1> HIDE DEF pc, late
<1>3. state \in Request /\ state.pc \in {"allowed", "denied"}
  BY <1>1, <1>2 DEF Request
<1> HIDE DEF state
<1> QED  BY <1>1, <1>3 DEF IInv, TypeOK, RequestsHold

LEMMA CountInMemoryIInv ==
  ASSUME IInv, NEW r \in Requests, CountInMemory(r) PROVE IInv'
<1> DEFINE l == request[r].limiter
           start == WindowStart(request[r].read)
           n == memory[l][start] + 1
<1>1. /\ request[r].pc = "memory" /\ l \in Requests /\ request[r].read \in Time
      /\ Answer(r, "memory", n) /\ UNCHANGED <<now, cached, redis, expiry>>
      /\ memory' = [memory EXCEPT ![l][start] = @ + 1]
  BY DEF CountInMemory, IInv, TypeOK, Request, RequestsHold
<1>2. start \in Time /\ Limit \in Nat
  BY <1>1, Windows, LimiterAssumption DEF Time
<1>3. n \in Nat /\ n = memory[l][start] + 1 /\ memory[l][start] \in Nat
  BY <1>1, <1>2 DEF IInv, TypeOK
<1>4. \A s \in Time :
        /\ \A i \in Requests :
             Cardinality(AllowedByMemory(i, s)') = Cardinality(AllowedByMemory(i, s)) +
               (IF i = l /\ s = start /\ n <= Limit THEN 1 ELSE 0)
        /\ Cardinality(AllowedByRedis(s)') = Cardinality(AllowedByRedis(s))
  <2> HIDE DEF n
  <2> QED  BY <1>1, <1>3, Answered, AllowedFinite DEF IInv
<1>5. /\ memory' \in [Requests -> [Time -> Nat]]
      /\ \A i \in Requests, s \in Time :
           memory'[i][s] = IF i = l /\ s = start THEN n ELSE memory[i][s]
  BY <1>1, <1>2, <1>3 DEF IInv, TypeOK
<1>6. request' \in [Requests -> Request] /\ RequestsHold'
  BY <1>1, <1>3, AnswerHolds
<1> HIDE DEF n, start, l
<1>7. TypeOK'
  BY <1>1, <1>5, <1>6 DEF IInv, TypeOK
<1>8. MemoryQuota'
  <2> SUFFICES ASSUME NEW i \in Requests, NEW s \in Time
               PROVE  Cardinality(AllowedByMemory(i, s)') =
                        IF memory'[i][s] <= Limit THEN memory'[i][s] ELSE Limit
    BY DEF MemoryQuota
  <2>1. Cardinality(AllowedByMemory(i, s)) =
          (IF memory[i][s] <= Limit THEN memory[i][s] ELSE Limit)
    BY DEF IInv, MemoryQuota
  <2>2. memory[i][s] \in Nat
    BY DEF IInv, TypeOK
  <2> QED  BY <1>2, <1>3, <1>4, <1>5, <2>1, <2>2
<1>9. RedisQuota' /\ RedisRemembers'
  BY <1>1, <1>4 DEF IInv, RedisQuota, RedisRemembers
<1> QED  BY <1>6, <1>7, <1>8, <1>9 DEF IInv

(***************************************************************************)
(* A Redis counter keeps counting while its window lasts.                  *)
(***************************************************************************)
LEMMA Incremented ==
  ASSUME IInv, NEW r \in Requests, request[r].pc = "redis",
         Increment(WindowStart(request[r].read)), UNCHANGED now
  PROVE  LET start == WindowStart(request[r].read) IN
         /\ start \in Time /\ Counted(start) \in Nat
         /\ redis' \in [Time -> Nat] /\ expiry' \in [Time -> Nat]
         /\ \A s \in Time : redis'[s] > 0 => s + Window <= expiry'[s]
         /\ \A s \in Time : redis'[s] = IF s = start THEN Counted(start) + 1 ELSE redis[s]
         /\ now < start + Window => Cardinality(AllowedByRedis(start)) <= Counted(start)
<1> DEFINE start == WindowStart(request[r].read)
<1>1. /\ request[r].read \in Time /\ request[r].read <= now /\ now \in Nat
      /\ redis \in [Time -> Nat] /\ expiry \in [Time -> Nat]
  BY DEF IInv, TypeOK, Request, RequestsHold, Time
<1>2. start \in Time /\ start <= now /\ Window \in Nat \ {0}
  <2>1. request[r].read \in Nat /\ now \in 0..MaxTime /\ MaxTime \in Nat
    BY LimiterAssumption DEF IInv, TypeOK, Request, Time
  <2>2. start \in Nat /\ start <= request[r].read
    BY <2>1, Windows
  <2> HIDE DEF start
  <2> QED  BY <1>1, <2>1, <2>2, LimiterAssumption DEF Time
<1>3. Counted(start) \in Nat
  BY <1>1, <1>2 DEF Counted
<1>4. /\ redis' = [redis EXCEPT ![start] = Counted(start) + 1]
      /\ expiry' = [expiry EXCEPT ![start] = now + Window]
  BY DEF Increment
<1>5. now < start + Window => Cardinality(AllowedByRedis(start)) <= Counted(start)
  <2>1. /\ redis[start] > 0 => start + Window <= expiry[start]
        /\ now < start + Window => Cardinality(AllowedByRedis(start)) <= redis[start]
    BY <1>2 DEF IInv, RedisRemembers
  <2>2. redis[start] \in Nat /\ expiry[start] \in Nat
    BY <1>1, <1>2
  <2>3. Cardinality(AllowedByRedis(start)) \in Nat
    BY AllowedFinite
  <2> HIDE DEF start
  <2>4. start \in Nat
    BY <1>2 DEF Time
  <2>5. CASE now < expiry[start]
    BY <2>1, <2>5 DEF Counted
  <2>6. CASE ~(now < expiry[start])
    <3>1. now < start + Window => redis[start] = 0
      BY <1>1, <1>2, <2>1, <2>2, <2>4, <2>6
    <3>2. Counted(start) = 0
      BY <2>6 DEF Counted
    <3> QED  BY <2>1, <3>1, <3>2
  <2> QED  BY <2>5, <2>6
<1> HIDE DEF start
<1>6. \A s \in Time : redis'[s] > 0 => s + Window <= expiry'[s]
  BY <1>1, <1>2, <1>4 DEF IInv, RedisRemembers, Time
<1>7. redis' \in [Time -> Nat] /\ expiry' \in [Time -> Nat]
  BY <1>1, <1>2, <1>3, <1>4
<1> QED  BY <1>1, <1>2, <1>3, <1>4, <1>5, <1>6, <1>7 DEF start

LEMMA CountInRedisIInv ==
  ASSUME IInv, NEW r \in Requests, CountInRedis(r) PROVE IInv'
<1> DEFINE start == WindowStart(request[r].read)
           n == Counted(start) + 1
<1>1. /\ request[r].pc = "redis" /\ Increment(WindowStart(request[r].read))
      /\ Answer(r, "redis", n) /\ UNCHANGED <<now, cached, memory>>
  BY DEF CountInRedis
<1>2. /\ start \in Time /\ Counted(start) \in Nat
      /\ redis' \in [Time -> Nat] /\ expiry' \in [Time -> Nat]
      /\ \A s \in Time : redis'[s] > 0 => s + Window <= expiry'[s]
      /\ \A s \in Time : redis'[s] = IF s = start THEN Counted(start) + 1 ELSE redis[s]
      /\ now < start + Window => Cardinality(AllowedByRedis(start)) <= Counted(start)
  BY <1>1, Incremented
<1>3. n \in Nat /\ n = Counted(start) + 1 /\ Limit \in Nat
  BY <1>2, LimiterAssumption
<1>4. \A s \in Time :
        /\ \A i \in Requests :
             Cardinality(AllowedByMemory(i, s)') = Cardinality(AllowedByMemory(i, s))
        /\ Cardinality(AllowedByRedis(s)') = Cardinality(AllowedByRedis(s)) +
             (IF s = start /\ now < start + Window /\ n <= Limit THEN 1 ELSE 0)
  <2> HIDE DEF n
  <2> QED  BY <1>1, <1>3, Answered, AllowedFinite DEF IInv
<1>5. request' \in [Requests -> Request] /\ RequestsHold'
  BY <1>1, <1>3, AnswerHolds
<1> HIDE DEF n, start
<1>6. TypeOK'
  BY <1>1, <1>2, <1>5 DEF IInv, TypeOK
<1>7. MemoryQuota'
  BY <1>1, <1>4 DEF IInv, MemoryQuota
<1>8. ASSUME NEW s \in Time
      PROVE  /\ Cardinality(AllowedByRedis(s)') <= Limit
             /\ now' < s + Window => Cardinality(AllowedByRedis(s)') <= redis'[s]
  <2>1. /\ Cardinality(AllowedByRedis(s)) <= Limit
        /\ now < s + Window => Cardinality(AllowedByRedis(s)) <= redis[s]
        /\ Cardinality(AllowedByRedis(s)) \in Nat /\ redis[s] \in Nat
    BY AllowedFinite DEF IInv, RedisQuota, RedisRemembers, TypeOK
  <2>2. now' = now /\ now \in Nat /\ Window \in Nat /\ s \in Nat
    BY <1>1, LimiterAssumption DEF IInv, TypeOK, Time
  <2>3. CASE s = start /\ now < start + Window /\ n <= Limit
    BY <1>2, <1>3, <1>4, <2>1, <2>2, <2>3
  <2>4. CASE ~(s = start /\ now < start + Window /\ n <= Limit)
    BY <1>2, <1>3, <1>4, <2>1, <2>2, <2>4
  <2> QED  BY <2>3, <2>4
<1>9. RedisQuota' /\ RedisRemembers'
  BY <1>2, <1>8 DEF RedisQuota, RedisRemembers
<1> QED  BY <1>5, <1>6, <1>7, <1>9 DEF IInv

LEMMA RedisRaisesIInv ==
  ASSUME IInv, NEW r \in Requests, RedisRaises(r) PROVE IInv'
<1> DEFINE state == [request[r] EXCEPT !.pc = "fallback"]
           start == WindowStart(request[r].read)
<1>1. /\ request[r] \in Request /\ request[r].pc = "redis"
      /\ request[r].limiter \in Requests
      /\ request' = [request EXCEPT ![r] = state] /\ Becomes(r, state)
      /\ UNCHANGED <<now, cached, memory>>
      /\ Increment(start) \/ UNCHANGED <<redis, expiry>>
  BY DEF RedisRaises, Becomes, IInv, TypeOK, RequestsHold
<1>2. /\ state \in Request /\ state.pc = "fallback"
      /\ state.limiter = request[r].limiter
  BY <1>1 DEF Request
<1> HIDE DEF state
<1>3. /\ redis' \in [Time -> Nat] /\ expiry' \in [Time -> Nat]
      /\ \A s \in Time : redis'[s] > 0 => s + Window <= expiry'[s]
      /\ \A s \in Time : now < s + Window => Cardinality(AllowedByRedis(s)) <= redis'[s]
  <2>1. CASE UNCHANGED <<redis, expiry>>
    BY <2>1 DEF IInv, TypeOK, RedisRemembers
  <2>2. CASE Increment(start)
    <3>1. /\ start \in Time /\ Counted(start) \in Nat
          /\ redis' \in [Time -> Nat] /\ expiry' \in [Time -> Nat]
          /\ \A s \in Time : redis'[s] > 0 => s + Window <= expiry'[s]
          /\ \A s \in Time : redis'[s] = IF s = start THEN Counted(start) + 1 ELSE redis[s]
          /\ now < start + Window => Cardinality(AllowedByRedis(start)) <= Counted(start)
      BY <1>1, <2>2, Incremented
    <3> HIDE DEF start
    <3>2. ASSUME NEW s \in Time, now < s + Window
          PROVE  Cardinality(AllowedByRedis(s)) <= redis'[s]
      <4>1. CASE s = start
        <5>1. Cardinality(AllowedByRedis(start)) \in Nat
          BY AllowedFinite
        <5> QED  BY <3>1, <3>2, <4>1, <5>1
      <4>2. CASE s # start
        BY <3>1, <3>2, <4>2 DEF IInv, RedisRemembers
      <4> QED  BY <4>1, <4>2
    <3> QED  BY <3>1, <3>2
  <2> QED  BY <1>1, <2>1, <2>2
<1>4. \A s \in Time : /\ \A i \in Requests : AllowedByMemory(i, s)' = AllowedByMemory(i, s)
                      /\ AllowedByRedis(s)' = AllowedByRedis(s)
  BY <1>1, <1>2, Unanswered DEF IInv
<1>5. TypeOK'
  BY <1>1, <1>2, <1>3 DEF IInv, TypeOK
<1>6. RequestsHold'
  BY <1>1, <1>2 DEF IInv, TypeOK, RequestsHold
<1>7. RedisRemembers' /\ RedisQuota'
  BY <1>1, <1>3, <1>4 DEF IInv, RedisRemembers, RedisQuota
<1>8. MemoryQuota'
  BY <1>1, <1>4 DEF IInv, MemoryQuota
<1> QED  BY <1>5, <1>6, <1>7, <1>8 DEF IInv

LEMMA TickIInv == IInv /\ Tick => IInv'
<1> SUFFICES ASSUME IInv, Tick PROVE IInv'
  OBVIOUS
<1>1. /\ now \in Nat /\ now' = now + 1 /\ now' \in Time
      /\ UNCHANGED <<cached, memory, redis, expiry, request>>
  BY LimiterAssumption DEF Tick, IInv, TypeOK, Time
<1>2. \A i, s : /\ AllowedByMemory(i, s)' = AllowedByMemory(i, s)
                /\ AllowedByRedis(s)' = AllowedByRedis(s)
  BY <1>1 DEF AllowedByMemory, AllowedByRedis, InWindow
<1>3. TypeOK'
  BY <1>1 DEF IInv, TypeOK
<1>4. RequestsHold'
  BY <1>1 DEF IInv, RequestsHold, TypeOK, Request, Time
<1>5. MemoryQuota' /\ RedisQuota'
  BY <1>1, <1>2 DEF IInv, MemoryQuota, RedisQuota
<1>6. RedisRemembers'
  <2>1. ASSUME NEW s \in Time, now' < s + Window PROVE now < s + Window
    BY <1>1, <2>1, LimiterAssumption DEF Time
  <2> QED  BY <1>1, <1>2, <2>1 DEF IInv, RedisRemembers
<1> QED  BY <1>3, <1>4, <1>5, <1>6 DEF IInv

(***************************************************************************)
(* The inductive invariant holds in every reachable state.                 *)
(***************************************************************************)
THEOREM Limited == Spec => []IInv
<1>1. IInv /\ [Next]_vars => IInv'
  <2> SUFFICES ASSUME IInv, [Next]_vars PROVE IInv'
    OBVIOUS
  <2>1. ASSUME NEW r \in Requests, GetRateLimiter(r) PROVE IInv'
    BY <2>1, GetRateLimiterIInv
  <2>2. ASSUME NEW r \in Requests, Build(r) PROVE IInv'
    BY <2>2, BuildIInv
  <2>3. ASSUME NEW r \in Requests, ReadClock(r) PROVE IInv'
    BY <2>3, ReadClockIInv
  <2>4. ASSUME NEW r \in Requests, CountInMemory(r) PROVE IInv'
    BY <2>4, CountInMemoryIInv
  <2>5. ASSUME NEW r \in Requests, CountInRedis(r) PROVE IInv'
    BY <2>5, CountInRedisIInv
  <2>6. ASSUME NEW r \in Requests, RedisRaises(r) PROVE IInv'
    BY <2>6, RedisRaisesIInv
  <2>7. CASE Tick
    BY <2>7, TickIInv
  <2>8. CASE UNCHANGED vars
    <3>1. \A i, s : /\ AllowedByMemory(i, s)' = AllowedByMemory(i, s)
                    /\ AllowedByRedis(s)' = AllowedByRedis(s)
      BY <2>8 DEF vars, AllowedByMemory, AllowedByRedis, InWindow
    <3>2. TypeOK' /\ RequestsHold'
      BY <2>8 DEF vars, IInv, TypeOK, RequestsHold
    <3>3. RedisRemembers' /\ MemoryQuota' /\ RedisQuota'
      BY <2>8, <3>1 DEF vars, IInv, RedisRemembers, MemoryQuota, RedisQuota
    <3> QED  BY <3>2, <3>3 DEF IInv
  <2> QED  BY <2>1, <2>2, <2>3, <2>4, <2>5, <2>6, <2>7, <2>8 DEF Next
<1> QED  BY InitIInv, <1>1, PTL DEF Spec

(***************************************************************************)
(* The memory of a limiter allows exactly its quota, however requests      *)
(* interleave and however late they are counted.                           *)
(***************************************************************************)
THEOREM MemoryLimited == Spec => []MemoryQuota
<1>1. IInv => MemoryQuota
  BY DEF IInv
<1> QED  BY Limited, <1>1, PTL

(***************************************************************************)
(* Redis keeps the quota of a window until the window is over.             *)
(***************************************************************************)
THEOREM RedisLimited == Spec => []RedisQuota
<1>1. IInv => RedisQuota
  BY DEF IInv
<1> QED  BY Limited, <1>1, PTL

-----------------------------------------------------------------------------
(* All counters together.                                                  *)

(***************************************************************************)
(* Where every limiter has Redis, and Redis does not fail, it is the only  *)
(* counter, so that the quota is one for all processes together.           *)
(***************************************************************************)
GlobalQuota == \A s \in Time : Cardinality(Admitted(s)) <= Limit

(***************************************************************************)
(* Whoever was allowed was counted by something.                           *)
(***************************************************************************)
AllowedCounted ==
  \A r \in Requests : request[r].pc = "allowed" =>
    request[r].by \in {"memory", "redis"} /\ request[r].limiter \in Requests

(***************************************************************************)
(* What a step makes of one request.                                       *)
(***************************************************************************)
LEMMA RequestOfStep ==
  ASSUME IInv, [Next]_vars, NEW q \in Requests
  PROVE  \/ request'[q] = request[q]
         \/ /\ request'[q].by = request[q].by
            /\ \/ request'[q].pc \in {"build", "check"}
               \/ request'[q].pc = "redis" /\ ProcessOf[q] \in RedisProcs
               \/ /\ request'[q].pc = "memory"
                  /\ request[q].pc = "fallback" \/ ProcessOf[q] \notin RedisProcs
               \/ request'[q].pc = "fallback" /\ RedisFails
         \/ /\ request'[q].pc \in {"allowed", "denied"}
            /\ request'[q].limiter = request[q].limiter
            /\ \/ request'[q].by = "memory" /\ request[q].pc = "memory"
               \/ request'[q].by = "redis" /\ request[q].pc = "redis"
<1>1. request[q] \in Request /\ request \in [Requests -> Request]
  BY DEF IInv, TypeOK
<1>2. CASE UNCHANGED request
  BY <1>2
<1>3. ASSUME NEW r \in Requests, NEW state, Becomes(r, state)
      PROVE  request'[q] = IF q = r THEN state ELSE request[q]
  BY <1>1, <1>3 DEF Becomes
<1>4. ASSUME GetRateLimiter(q) \/ Build(q) \/ ReadClock(q) \/ RedisRaises(q)
      PROVE  /\ request'[q].by = request[q].by
             /\ \/ request'[q].pc \in {"build", "check"}
                \/ request'[q].pc = "redis" /\ ProcessOf[q] \in RedisProcs
                \/ /\ request'[q].pc = "memory"
                   /\ request[q].pc = "fallback" \/ ProcessOf[q] \notin RedisProcs
                \/ request'[q].pc = "fallback" /\ RedisFails
  <2>1. CASE GetRateLimiter(q)
    <3>1. PICK i : Becomes(q, IF i = None THEN [request[q] EXCEPT !.pc = "build"]
                              ELSE [request[q] EXCEPT !.pc = "check", !.limiter = i])
      BY <2>1 DEF GetRateLimiter
    <3>2. request'[q] = IF i = None THEN [request[q] EXCEPT !.pc = "build"]
                        ELSE [request[q] EXCEPT !.pc = "check", !.limiter = i]
      BY <1>3, <3>1
    <3> QED  BY <1>1, <3>2 DEF Request
  <2>2. CASE Build(q)
    <3>1. request'[q] = [request[q] EXCEPT !.pc = "check", !.limiter = q]
      BY <1>3, <2>2 DEF Build
    <3> QED  BY <1>1, <3>1 DEF Request
  <2>3. CASE ReadClock(q)
    <3> DEFINE pc == IF request[q].pc = "check" /\ ProcessOf[q] \in RedisProcs
                     THEN "redis" ELSE "memory"
    <3>1. Becomes(q, [request[q] EXCEPT !.read = now, !.pc = pc])
      BY <2>3, <1>1 DEF ReadClock
    <3>2. request[q].pc \in {"check", "fallback"}
      BY <2>3 DEF ReadClock
    <3>3. request'[q].pc = pc /\ request'[q].by = request[q].by
      <4> HIDE DEF pc
      <4>1. request'[q] = [request[q] EXCEPT !.read = now, !.pc = pc]
        BY <1>3, <3>1
      <4> QED  BY <1>1, <4>1 DEF Request
    <3> QED  BY <3>2, <3>3
  <2>4. CASE RedisRaises(q)
    BY <1>1, <1>3, <2>4 DEF RedisRaises, Request
  <2> QED  BY <1>4, <2>1, <2>2, <2>3, <2>4
<1>5. ASSUME NEW r \in Requests, NEW by \in {"memory", "redis"}, NEW n, Answer(r, by, n), q = r
      PROVE  /\ request'[q].pc \in {"allowed", "denied"}
             /\ request'[q].limiter = request[q].limiter /\ request'[q].by = by
  BY <1>1, <1>5 DEF Answer, Becomes, Request
<1>6. ASSUME NEW r \in Requests, CountInMemory(r) \/ CountInRedis(r), q = r
      PROVE  /\ request'[q].pc \in {"allowed", "denied"}
             /\ request'[q].limiter = request[q].limiter
             /\ \/ request'[q].by = "memory" /\ request[q].pc = "memory"
                \/ request'[q].by = "redis" /\ request[q].pc = "redis"
  <2>1. CASE CountInMemory(r)
    <3>1. PICK n : Answer(r, "memory", n) /\ request[r].pc = "memory"
      BY <2>1 DEF CountInMemory
    <3> QED  BY <1>5, <1>6, <3>1
  <2>2. CASE CountInRedis(r)
    <3>1. PICK n : Answer(r, "redis", n) /\ request[r].pc = "redis"
      BY <2>2 DEF CountInRedis
    <3> QED  BY <1>5, <1>6, <3>1
  <2> QED  BY <1>6, <2>1, <2>2
<1>7. ASSUME NEW r \in Requests,
             \/ GetRateLimiter(r) \/ Build(r) \/ ReadClock(r)
             \/ CountInMemory(r) \/ CountInRedis(r) \/ RedisRaises(r),
             q # r
      PROVE  request'[q] = request[q]
  BY <1>3, <1>7 DEF GetRateLimiter, Build, ReadClock, CountInMemory, CountInRedis, RedisRaises,
                    Answer
<1> QED  BY <1>2, <1>4, <1>6, <1>7 DEF Next, Tick, vars

LEMMA AllAllowedCounted == Spec => []AllowedCounted
<1>1. Init => AllowedCounted
  BY DEF Init, NewRequest, AllowedCounted
<1>2. IInv /\ AllowedCounted /\ [Next]_vars => AllowedCounted'
  <2> SUFFICES ASSUME IInv, AllowedCounted, [Next]_vars, NEW q \in Requests,
                      request'[q].pc = "allowed"
               PROVE  request'[q].by \in {"memory", "redis"} /\ request'[q].limiter \in Requests
    BY DEF AllowedCounted
  <2> QED  BY RequestOfStep DEF IInv, RequestsHold, AllowedCounted
<1> QED  BY <1>1, <1>2, Limited, PTL DEF Spec

(***************************************************************************)
(* A finite set of at most n elements is numbered by 1..n.                 *)
(***************************************************************************)
LEMMA Numbered ==
  ASSUME NEW S, IsFiniteSet(S), NEW n \in Nat, Cardinality(S) <= n
  PROVE  \E f \in [S -> 1..n] : \A x, y \in S : f[x] = f[y] => x = y
<1> DEFINE k == Cardinality(S)
<1>1. k \in Nat
  BY FS_CardinalityType
<1>2. IsFiniteSet(1..k) /\ Cardinality(1..k) = k
  <2> HIDE DEF k
  <2> QED  BY <1>1, FS_Interval
<1>3. ExistsBijection(S, 1..k)
  BY <1>2, FS_SameCardinalityBij
<1>4. PICK f : f \in Bijection(S, 1..k)
  BY <1>3 DEF ExistsBijection
<1>5. k <= n
  OBVIOUS
<1> HIDE DEF k
<1>6. f \in [S -> 1..k] /\ \A x, y \in S : f[x] = f[y] => x = y
  BY <1>4 DEF Bijection, Injection, Surjection, IsInjective
<1>7. f \in [S -> 1..n]
  BY <1>1, <1>5, <1>6
<1> QED  BY <1>6, <1>7

ByCounter(s, c) == {r \in Admitted(s) : CounterOf(r) = c}

(***************************************************************************)
(* A counter allows no more than the limit.                                *)
(***************************************************************************)
LEMMA CounterBound ==
  ASSUME IInv, AllowedCounted, NEW s \in Time, NEW c \in Counters(s)
  PROVE  /\ IsFiniteSet(ByCounter(s, c)) /\ Cardinality(ByCounter(s, c)) \in Nat
         /\ Cardinality(ByCounter(s, c)) <= Limit
<1>1. /\ \A r \in Admitted(s) : r \in Requests /\ InWindow(r, s)
      /\ \A r \in Admitted(s) : request[r].by \in {"memory", "redis"}
                                /\ request[r].limiter \in Requests
      /\ \A r \in Admitted(s) : request[r].by = "redis" => ~request[r].late
  BY DEF Admitted, AllowedCounted, InWindow
<1>2. c \in Requests \cup {None}
  BY <1>1 DEF Counters, CounterOf
<1>3. CASE c \in Requests
  <2>1. ByCounter(s, c) \subseteq AllowedByMemory(c, s)
    BY <1>1, <1>3, LimiterAssumption DEF ByCounter, CounterOf, AllowedByMemory
  <2>2. Cardinality(AllowedByMemory(c, s)) <= Limit
    <3>1. memory[c][s] \in Nat /\ Limit \in Nat
      BY <1>3, LimiterAssumption DEF IInv, TypeOK
    <3> QED  BY <1>3, <3>1 DEF IInv, MemoryQuota
  <2>3. IsFiniteSet(AllowedByMemory(c, s)) /\ Cardinality(AllowedByMemory(c, s)) \in Nat
    BY AllowedFinite
  <2>4. /\ IsFiniteSet(ByCounter(s, c))
        /\ Cardinality(ByCounter(s, c)) <= Cardinality(AllowedByMemory(c, s))
    BY <2>1, <2>3, FS_Subset
  <2> QED  BY <2>2, <2>3, <2>4, FS_CardinalityType, LimiterAssumption
<1>4. CASE c = None
  <2>1. ByCounter(s, c) \subseteq AllowedByRedis(s)
    BY <1>1, <1>4, LimiterAssumption DEF ByCounter, CounterOf, AllowedByRedis
  <2>2. Cardinality(AllowedByRedis(s)) <= Limit
    BY DEF IInv, RedisQuota
  <2>3. IsFiniteSet(AllowedByRedis(s)) /\ Cardinality(AllowedByRedis(s)) \in Nat
    BY AllowedFinite
  <2>4. /\ IsFiniteSet(ByCounter(s, c))
        /\ Cardinality(ByCounter(s, c)) <= Cardinality(AllowedByRedis(s))
    BY <2>1, <2>3, FS_Subset
  <2> QED  BY <2>2, <2>3, <2>4, FS_CardinalityType, LimiterAssumption
<1> QED  BY <1>2, <1>3, <1>4

(***************************************************************************)
(* All counters together allow no more than the limit each, for any number *)
(* of processes and limiters and whatever fails: a request is told by its  *)
(* counter and its number among those of that counter.                     *)
(***************************************************************************)
THEOREM TotalLimited == Spec => []TotalQuota
<1>1. ASSUME IInv, AllowedCounted, NEW s \in Time
      PROVE  Cardinality(Admitted(s)) <= Limit * Cardinality(Counters(s))
  <2>1. \A c \in Counters(s) :
          \E f \in [ByCounter(s, c) -> 1..Limit] :
            \A x, y \in ByCounter(s, c) : f[x] = f[y] => x = y
    BY <1>1, CounterBound, Numbered, LimiterAssumption
  <2> DEFINE Numbering(c) == CHOOSE f \in [ByCounter(s, c) -> 1..Limit] :
                               \A x, y \in ByCounter(s, c) : f[x] = f[y] => x = y
             Pair(r) == <<CounterOf(r), Numbering(CounterOf(r))[r]>>
             T == Counters(s) \X (1..Limit)
             tell == [r \in Admitted(s) |-> Pair(r)]
  <2>2. ASSUME NEW c \in Counters(s)
        PROVE  /\ Numbering(c) \in [ByCounter(s, c) -> 1..Limit]
               /\ \A x, y \in ByCounter(s, c) : Numbering(c)[x] = Numbering(c)[y] => x = y
    BY <2>1
  <2> HIDE DEF Numbering
  <2>3. ASSUME NEW r \in Admitted(s)
        PROVE  CounterOf(r) \in Counters(s) /\ r \in ByCounter(s, CounterOf(r))
    BY DEF Counters, ByCounter
  <2>4. ASSUME NEW r \in Admitted(s) PROVE Pair(r) \in T
    BY <2>2, <2>3
  <2>5. ASSUME NEW x \in Admitted(s), NEW y \in Admitted(s), Pair(x) = Pair(y) PROVE x = y
    <3>1. /\ CounterOf(x) = CounterOf(y)
          /\ Numbering(CounterOf(x))[x] = Numbering(CounterOf(x))[y]
      BY <2>5
    <3> QED  BY <2>2, <2>3, <3>1
  <2> HIDE DEF Pair
  <2>6. tell \in Injection(Admitted(s), T)
    BY <2>4, <2>5 DEF Injection, IsInjective
  <2>7. IsFiniteSet(Admitted(s)) /\ IsFiniteSet(Counters(s))
    <3>1. IsFiniteSet(Admitted(s))
      BY LimiterAssumption, FS_Subset DEF Admitted
    <3>2. [r \in Admitted(s) |-> CounterOf(r)] \in Surjection(Admitted(s), Counters(s))
      BY DEF Counters, Surjection
    <3> QED  BY <3>1, <3>2, FS_Surjection
  <2>8. Limit \in Nat /\ IsFiniteSet(1..Limit) /\ Cardinality(1..Limit) = Limit
    BY LimiterAssumption, FS_Interval
  <2>9. IsFiniteSet(T) /\ Cardinality(T) = Cardinality(Counters(s)) * Limit
    BY <2>7, <2>8, FS_Product
  <2>10. Cardinality(Admitted(s)) <= Cardinality(T)
    BY <2>6, <2>9, FS_Injection
  <2>11. Cardinality(Counters(s)) * Limit = Limit * Cardinality(Counters(s))
    BY <2>7, <2>8, FS_CardinalityType
  <2> QED  BY <2>9, <2>10, <2>11
<1>2. IInv /\ AllowedCounted => TotalQuota
  BY <1>1 DEF TotalQuota
<1> QED  BY <1>2, Limited, AllAllowedCounted, PTL

(***************************************************************************)
(* With all limiters on a Redis that does not fail the quota is global.    *)
(***************************************************************************)
NoMemory == \A r \in Requests : request[r].pc \notin {"fallback", "memory"} /\ request[r].by # "memory"

THEOREM GlobalLimited ==
  ASSUME Processes \subseteq RedisProcs, ~RedisFails
  PROVE  Spec => []GlobalQuota
<1>1. Init => NoMemory
  BY DEF Init, NewRequest, NoMemory
<1>2. IInv /\ NoMemory /\ [Next]_vars => NoMemory'
  <2> SUFFICES ASSUME IInv, NoMemory, [Next]_vars, NEW q \in Requests
               PROVE  request'[q].pc \notin {"fallback", "memory"} /\ request'[q].by # "memory"
    BY DEF NoMemory
  <2>1. ProcessOf[q] \in RedisProcs
    BY LimiterAssumption
  <2>2. request[q].pc \notin {"fallback", "memory"} /\ request[q].by # "memory" /\ ~RedisFails
    BY DEF NoMemory
  <2> QED  BY <2>1, <2>2, RequestOfStep
<1>3. ASSUME IInv, AllowedCounted, NoMemory, NEW s \in Time
      PROVE  Cardinality(Admitted(s)) <= Limit
  <2>1. Admitted(s) \subseteq AllowedByRedis(s)
    BY <1>3 DEF Admitted, AllowedCounted, NoMemory, AllowedByRedis, InWindow
  <2>2. Cardinality(AllowedByRedis(s)) <= Limit /\ Limit \in Nat
    BY <1>3, LimiterAssumption DEF IInv, RedisQuota
  <2>3. IsFiniteSet(AllowedByRedis(s)) /\ Cardinality(AllowedByRedis(s)) \in Nat
    BY AllowedFinite
  <2>4. Cardinality(Admitted(s)) <= Cardinality(AllowedByRedis(s)) /\ IsFiniteSet(Admitted(s))
    BY <2>1, <2>3, FS_Subset
  <2> QED  BY <2>2, <2>3, <2>4, FS_CardinalityType
<1>4. IInv /\ AllowedCounted /\ NoMemory => GlobalQuota
  BY <1>3 DEF GlobalQuota
<1> QED  BY <1>1, <1>2, <1>4, Limited, AllAllowedCounted, PTL DEF Spec
=============================================================================
