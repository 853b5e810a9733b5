----------------------------- MODULE RedisQueue -----------------------------
(***************************************************************************)
(* The Redis keys of RedisQueueBackend and its commands on them            *)
(* (src/app/queue/redis_queue.py): a list of ready ids, a sorted set of    *)
(* delayed ids and the dead-letter list.  Each operator is one round trip  *)
(* to the server, which is atomic; dequeue is three of them.               *)
(***************************************************************************)
EXTENDS Integers, Sequences, FiniteSets

CONSTANT Refs          \* the job ids a queue may hold

VARIABLES ready,       \* list  queue:<name>:ready, popped at its head
          delayed,     \* zset  queue:<name>:delayed, ticks left or NotDelayed
          dlq          \* list  queue:<name>:dlq

queueVars == <<ready, delayed, dlq>>

NotDelayed == -1

QueueInit == /\ ready = <<>>
             /\ delayed = [j \in Refs |-> NotDelayed]
             /\ dlq = <<>>

(***************************************************************************)
(* The types of the keys.                                                  *)
(***************************************************************************)
QueueTypeOK == /\ ready \in Seq(Refs)
               /\ delayed \in [Refs -> Nat \cup {NotDelayed}]
               /\ dlq \in Seq(Refs)

(***************************************************************************)
(* enqueue: a due id goes to the ready list, any other is (re)scored in    *)
(* the delayed set, where an id has one score.                             *)
(***************************************************************************)
Enqueue(j, wait) ==
  IF wait = 0
  THEN ready' = Append(ready, j) /\ UNCHANGED <<delayed, dlq>>
  ELSE delayed' = [delayed EXCEPT ![j] = wait] /\ UNCHANGED <<ready, dlq>>

(***************************************************************************)
(* nack: the dead-letter list or a new enqueue.                            *)
(***************************************************************************)
MutantNackDropsDelayed(j, wait, dead) ==   \* loses a retry that is not due
  IF dead
  THEN dlq' = Append(dlq, j) /\ UNCHANGED <<ready, delayed>>
  ELSE /\ ready' = IF wait = 0 THEN Append(ready, j) ELSE ready
       /\ UNCHANGED <<delayed, dlq>>

Nack(j, wait, dead) ==
  IF dead
  THEN dlq' = Append(dlq, j) /\ UNCHANGED <<ready, delayed>>
  ELSE Enqueue(j, wait)

(***************************************************************************)
(* _promote_due_jobs: the zrangebyscore reads DueRefs; later one MULTI     *)
(* pushes and removes the ids that were read, in their order, whatever the *)
(* set holds by then.                                                      *)
(***************************************************************************)
DueRefs == {j \in Refs : delayed[j] = 0}

Orders(S) == {s \in [1..Cardinality(S) -> S] :
                \A a, b \in DOMAIN s : s[a] = s[b] => a = b}

MutantPromoteSweeps(S) ==        \* removes every id that is due by now
  /\ \E s \in Orders(S) : ready' = ready \o s
  /\ delayed' = [j \in Refs |-> IF j \in S \cup DueRefs THEN NotDelayed ELSE delayed[j]]
  /\ UNCHANGED dlq

PromoteRefs(S) ==
  /\ \E s \in Orders(S) : ready' = ready \o s
  /\ delayed' = [j \in Refs |-> IF j \in S THEN NotDelayed ELSE delayed[j]]
  /\ UNCHANGED dlq

(***************************************************************************)
(* The lpop that ends a dequeue.                                           *)
(***************************************************************************)
PopRef == /\ ready # <<>>
          /\ ready' = Tail(ready)
          /\ UNCHANGED <<delayed, dlq>>

QueueElapsed ==
  /\ delayed' = [j \in Refs |-> IF delayed[j] > 0 THEN delayed[j] - 1 ELSE delayed[j]]
  /\ UNCHANGED <<ready, dlq>>
=============================================================================
