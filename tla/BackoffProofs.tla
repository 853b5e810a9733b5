---------------------------- MODULE BackoffProofs ----------------------------
(***************************************************************************)
(* On Redis the claim of a popped id does not look at next_attempt_at: a   *)
(* retry waits because its id does, in the delayed set.  That is so while  *)
(* an id is in one place at a time: with one worker, and requests that     *)
(* push no job but their own.                                              *)
(***************************************************************************)
EXTENDS DeliveryProofs

(***************************************************************************)
(* The job waits no longer than w.                                         *)
(***************************************************************************)
Waits(j, w) == jobs[j].status = "queued" /\ jobs[j].wait <= w

Unlisted(j) == /\ \A n \in DOMAIN ready : ready[n] # j
               /\ delayed[j] = NotDelayed

Unpushed(j) == \A c \in Clients : client[c].pc = "push" => client[c].job # j

ReadyOnce ==
  \A m \in DOMAIN ready :
    /\ Waits(ready[m], 0)
    /\ \A n \in DOMAIN ready : ready[m] = ready[n] => m = n

DelayedOnce ==
  \A j \in JobId : delayed[j] # NotDelayed =>
    /\ Waits(j, delayed[j])
    /\ \A n \in DOMAIN ready : ready[n] # j

PushedOnce ==
  \A c \in Clients :
    /\ client[c].wait = 0
    /\ client[c].pc = "push" =>
         /\ Waits(client[c].job, 0) /\ Unlisted(client[c].job)
         /\ \A d \in Clients :
              client[d].pc = "push" /\ client[d].job = client[c].job => d = c

InHand(s) ==
  /\ s.pc # "claimNext"
  /\ s.pc = "promote" => s.due \subseteq DueRefs
  /\ s.pc = "claimById" => Waits(s.job, 0) /\ Unlisted(s.job) /\ Unpushed(s.job)
  /\ s.pc = "nack" /\ ~s.dead =>
       Waits(s.job, s.wait) /\ Unlisted(s.job) /\ Unpushed(s.job)

HeldOnce == \A w \in Workers : InHand(worker[w])

OnePlace == ReadyOnce /\ DelayedOnce /\ PushedOnce /\ HeldOnce

(***************************************************************************)
(* The case the theorem is about: one worker, on Redis, and requests that  *)
(* carry no idempotency key; clients may be on either backend.             *)
(***************************************************************************)
OneWorker == /\ \A v, w \in Workers : v = w
             /\ Workers \subseteq RedisProcs
             /\ Keys = {}

(***************************************************************************)
(* A step of the worker that leaves the table and Redis alone.             *)
(***************************************************************************)
LEMMA WorkerTurns ==
  ASSUME IInv, OneWorker, OnePlace, NEW w \in Workers, NEW s, Moves(w, s),
         UNCHANGED <<jobs, ready, delayed, client>>, InHand(s)
  PROVE  OnePlace'
  <1>1. \A v \in Workers : worker'[v] = s
    BY WorkerMoves DEF OneWorker
  <1>2. (ReadyOnce /\ DelayedOnce /\ PushedOnce)'
    BY DEF OnePlace, ReadyOnce, DelayedOnce, PushedOnce, Waits, Unlisted
  <1>3. HeldOnce'
    BY <1>1 DEF HeldOnce, InHand, Waits, Unlisted, Unpushed, DueRefs
  <1> QED
    BY <1>2, <1>3 DEF OnePlace

(***************************************************************************)
(* A worker that is elsewhere in its loop has no id in hand.               *)
(***************************************************************************)
LEMMA EmptyHands ==
  ASSUME NEW s, s.pc \notin {"claimNext", "promote", "claimById", "nack"}
  PROVE  InHand(s)
  BY DEF InHand

(***************************************************************************)
(* A step of a request that leaves the table and Redis alone.              *)
(***************************************************************************)
LEMMA ClientTurns ==
  ASSUME IInv, OnePlace, NEW c \in Clients, NEW s, s.pc # "push", s.wait = 0, Goes(c, s),
         UNCHANGED <<jobs, ready, delayed, worker>>
  PROVE  OnePlace'
  <1>1. /\ client'[c].pc # "push" /\ client'[c].wait = 0
        /\ \A d \in Clients \ {c} : client'[d] = client[d]
    BY DEF IInv, TypeOK, Goes
  <1>2. (ReadyOnce /\ DelayedOnce)'
    BY DEF OnePlace, ReadyOnce, DelayedOnce, Waits
  <1>3. PushedOnce'
    BY <1>1 DEF OnePlace, PushedOnce, Waits, Unlisted
  <1>4. HeldOnce'
    BY <1>1 DEF OnePlace, HeldOnce, InHand, Waits, Unlisted, Unpushed, DueRefs
  <1> QED
    BY <1>2, <1>3, <1>4 DEF OnePlace

(***************************************************************************)
(* Steps of a request; without keys it finds no job of another's.          *)
(***************************************************************************)
LEMMA ClientOnce ==
  ASSUME IInv, OneWorker, OnePlace, NEW c \in Clients,
         Request(c) \/ Lookup(c) \/ Prepare(c) \/ Abandon(c)
  PROVE  OnePlace'
  <1>1. UNCHANGED <<jobs, ready, delayed, worker>>
    BY DEF Request, Lookup, Prepare, Abandon, queueVars
  <1>2. client[c] \in ClientState /\ client[c].key = NoKey /\ client[c].wait = 0
    BY DEF IInv, TypeOK, ClientState, OneWorker, OnePlace, PushedOnce
  <1>3. \E s : s.pc # "push" /\ s.wait = 0 /\ Goes(c, s)
    <2>1. CASE Request(c)
      <3>1. PICK k, b, n : Goes(c, [IdleClient EXCEPT !.pc = IF k = NoKey THEN "prepare" ELSE "lookup",
                                       !.key = k, !.blank = b, !.limit = n])
        BY <2>1 DEF Request
      <3> QED
        BY <3>1 DEF IdleClient
    <2>2. CASE Lookup(c)
      BY <1>2, <2>2 DEF Lookup, IdleClient, ClientState
    <2>3. CASE Prepare(c)
      <3>1. WithKey(client[c].key) = {}
        BY <1>2 DEF WithKey
      <3>2. PICK j : Goes(c, [client[c] EXCEPT !.pc = "insert", !.job = j])
        BY <2>3, <3>1 DEF Prepare
      <3> QED
        BY <1>2, <3>2 DEF ClientState
    <2>4. CASE Abandon(c)
      BY <2>4 DEF Abandon, IdleClient
    <2> QED
      BY <2>1, <2>2, <2>3, <2>4
  <1> QED
    BY <1>1, <1>3, ClientTurns

(***************************************************************************)
(* A new row is due; its id was nowhere, and is in the hands of one.       *)
(***************************************************************************)
LEMMA InsertOnce ==
  ASSUME IInv, OnePlace, NEW c \in Clients, Insert(c)
  PROVE  OnePlace'
  <1> DEFINE j == client[c].job
  <1>1. /\ j \in JobId /\ jobs[j].status = "absent" /\ client[c] \in ClientState
        /\ UNCHANGED <<ready, delayed, worker>>
    BY DEF Insert, queueVars, IInv, TypeOK, ClientsHold
  <1>2. /\ \A i \in JobId \ {j} : jobs'[i] = jobs[i]
        /\ jobs'[j].status = "queued" /\ jobs'[j].wait = 0
    BY <1>1 DEF Insert, InsertJob, NewRow, IInv, TypeOK
  <1>3. /\ client'[c].pc = "push" /\ client'[c].job = j /\ client'[c].wait = 0
        /\ \A d \in Clients \ {c} : client'[d] = client[d]
    <2>1. /\ client'[c] = [client[c] EXCEPT !.pc = "push"]
          /\ \A d \in Clients \ {c} : client'[d] = client[d]
      BY DEF Insert, Goes, IInv, TypeOK
    <2> QED
      BY <1>1, <2>1 DEF ClientState, OnePlace, PushedOnce
  <1>4. Unlisted(j) /\ Unpushed(j) /\ \A i, n : Waits(i, n) => i # j
    BY <1>1 DEF OnePlace, ReadyOnce, DelayedOnce, PushedOnce, Waits, Unlisted, Unpushed
  <1>5. \A n : \A i \in JobId : Waits(i, n) => Waits(i, n)'
    BY <1>2, <1>4 DEF Waits
  <1>6. (ReadyOnce /\ DelayedOnce)'
    BY <1>1, <1>5, ServiceAssumption DEF OnePlace, ReadyOnce, DelayedOnce, IInv, TypeOK, QueueTypeOK
  <1>7. PushedOnce'
    BY <1>1, <1>2, <1>3, <1>4, <1>5
       DEF OnePlace, PushedOnce, Waits, Unlisted, Unpushed, IInv, ClientsHold
  <1>8. HeldOnce'
    <2> SUFFICES ASSUME NEW w \in Workers PROVE InHand(worker[w])'
      BY DEF HeldOnce
    <2>1. InHand(worker[w])
      BY DEF OnePlace, HeldOnce
    <2>2. \A n : \A i \in JobId : /\ Waits(i, n) => Waits(i, n)' /\ i # j
                                  /\ Unlisted(i) => Unlisted(i)'
                                  /\ Unpushed(i) /\ i # j => Unpushed(i)'
      BY <1>1, <1>3, <1>4, <1>5 DEF Unlisted, Unpushed
    <2>3. worker[w].pc \in {"claimById", "nack"} => worker[w].job \in JobId
      BY DEF IInv, WorkersHold
    <2> QED
      BY <1>1, <2>1, <2>2, <2>3 DEF InHand, DueRefs
  <1> QED
    BY <1>6, <1>7, <1>8 DEF OnePlace

(***************************************************************************)
(* An id that is nowhere goes to one place, and is in no hurry there.      *)
(***************************************************************************)
LEMMA EnqueueOnce ==
  ASSUME IInv, OnePlace, NEW j \in JobId, NEW t \in Nat, Enqueue(j, t), jobs' = jobs,
         Unlisted(j), Waits(j, t)
  PROVE  /\ ReadyOnce' /\ DelayedOnce'
         /\ \A i \in JobId \ {j} : Unlisted(i) => Unlisted(i)'
  <1>1. /\ ready \in Seq(JobId) /\ delayed \in [JobId -> Nat \cup {NotDelayed}]
        /\ ReadyOnce /\ DelayedOnce
    BY ServiceAssumption DEF IInv, TypeOK, QueueTypeOK, OnePlace
  <1>2. \A i, n : Waits(i, n)' <=> Waits(i, n)
    BY DEF Waits
  <1>3. CASE t = 0
    <2>1. ready' = Append(ready, j) /\ delayed' = delayed
      BY <1>3 DEF Enqueue
    <2>2. /\ Len(ready) \in Nat /\ DOMAIN ready = 1..Len(ready)
          /\ DOMAIN ready' = 1..(Len(ready) + 1)
          /\ ready'[Len(ready) + 1] = j
          /\ \A n \in DOMAIN ready : ready'[n] = ready[n]
      BY <1>1, <2>1
    <2>3. ASSUME NEW n \in DOMAIN ready'
          PROVE  n \in DOMAIN ready \/ n = Len(ready) + 1
      BY <2>2
    <2>4. ReadyOnce'
      BY <1>1, <1>2, <1>3, <2>2, <2>3 DEF ReadyOnce, Unlisted
    <2>5. \A i \in JobId \ {j} : Unlisted(i) => Unlisted(i)'
      BY <2>1, <2>2, <2>3 DEF Unlisted
    <2>6. DelayedOnce'
      BY <1>1, <1>2, <2>1, <2>2, <2>3 DEF DelayedOnce, Unlisted
    <2> QED
      BY <2>4, <2>5, <2>6
  <1>4. CASE t # 0
    <2>1. delayed' = [delayed EXCEPT ![j] = t] /\ ready' = ready
      BY <1>4 DEF Enqueue
    <2>2. delayed'[j] = t /\ \A i \in JobId \ {j} : delayed'[i] = delayed[i]
      BY <1>1, <2>1
    <2>3. ReadyOnce'
      BY <1>1, <1>2, <2>1 DEF ReadyOnce
    <2>4. DelayedOnce'
      BY <1>1, <1>2, <2>1, <2>2 DEF DelayedOnce, Unlisted
    <2> QED
      BY <2>1, <2>2, <2>3, <2>4 DEF Unlisted
  <1> QED
    BY <1>3, <1>4

(***************************************************************************)
(* A push takes an id out of a request's hands.                            *)
(***************************************************************************)
LEMMA PushOnce ==
  ASSUME IInv, OnePlace, NEW c \in Clients, Push(c)
  PROVE  OnePlace'
  <1> DEFINE j == client[c].job
  <1>1. /\ client[c].pc = "push" /\ client[c].wait = 0 /\ Goes(c, IdleClient)
        /\ UNCHANGED <<jobs, worker>> /\ j \in JobId
    BY DEF Push, OnePlace, PushedOnce, IInv, ClientsHold
  <1>2. CASE c \notin RedisProcs
    <2>1. UNCHANGED <<jobs, ready, delayed, worker>>
      BY <1>1, <1>2 DEF Push, queueVars
    <2> QED
      BY <1>1, <2>1, ClientTurns DEF IdleClient
  <1>3. CASE c \in RedisProcs
    <2>1. Enqueue(j, 0) /\ Unlisted(j) /\ Waits(j, 0) /\ delayed' = delayed
      BY <1>1, <1>3 DEF Push, Enqueue, OnePlace, PushedOnce
    <2>2. /\ ReadyOnce' /\ DelayedOnce'
          /\ \A i \in JobId \ {j} : Unlisted(i) => Unlisted(i)'
      BY <1>1, <2>1, EnqueueOnce
    <2>3. /\ client'[c].pc = "idle" /\ client'[c].wait = 0
          /\ \A d \in Clients \ {c} : client'[d] = client[d]
      BY <1>1 DEF Goes, IdleClient, IInv, TypeOK
    <2>4. PushedOnce'
      BY <1>1, <2>2, <2>3 DEF OnePlace, PushedOnce, Waits, IInv, ClientsHold
    <2>5. HeldOnce'
      <3> SUFFICES ASSUME NEW w \in Workers PROVE InHand(worker[w])'
        BY DEF HeldOnce
      <3>1. \A n : \A i \in JobId : /\ Waits(i, n) => Waits(i, n)'
                                    /\ Unlisted(i) /\ Unpushed(i) => Unlisted(i)' /\ Unpushed(i)'
        BY <1>1, <2>2, <2>3 DEF Waits, Unpushed
      <3>2. worker[w].pc \in {"claimById", "nack"} => worker[w].job \in JobId
        BY DEF IInv, WorkersHold
      <3> QED
        BY <1>1, <2>1, <3>1, <3>2 DEF OnePlace, HeldOnce, InHand, DueRefs
    <2> QED
      BY <2>2, <2>4, <2>5 DEF OnePlace
  <1> QED
    BY <1>2, <1>3

(***************************************************************************)
(* What was due when it was read still is when it is promoted.             *)
(***************************************************************************)
LEMMA PromoteOnce ==
  ASSUME IInv, OneWorker, OnePlace, NEW w \in Workers, Promote(w)
  PROVE  OnePlace'
  <1> DEFINE S == worker[w].due
  <1>1. /\ S \subseteq DueRefs /\ PromoteRefs(S) /\ UNCHANGED <<jobs, client>>
        /\ Moves(w, [IdleWorker EXCEPT !.pc = "pop"])
    BY DEF Promote, OnePlace, HeldOnce, InHand
  <1>2. S \in SUBSET JobId /\ \A j \in S : delayed[j] = 0
    BY <1>1, ServiceAssumption DEF DueRefs
  <1>3. PICK s \in Orders(S) : ready' = ready \o s
    BY <1>1 DEF PromoteRefs
  <1>4. /\ ready \in Seq(JobId) /\ delayed \in [JobId -> Nat \cup {NotDelayed}]
        /\ ReadyOnce /\ DelayedOnce /\ PushedOnce
    BY ServiceAssumption DEF IInv, TypeOK, QueueTypeOK, OnePlace
  <1>5. /\ Cardinality(S) \in Nat /\ DOMAIN s = 1..Cardinality(S) /\ s \in Seq(JobId)
        /\ \A n \in DOMAIN s : s[n] \in S
        /\ \A m, n \in DOMAIN s : s[m] = s[n] => m = n
    <2>1. IsFiniteSet(S)
      <3>1. IsFiniteSet(JobId)
        BY TableAssumption, FS_Interval DEF JobId
      <3> QED
        BY <1>2, <3>1, FS_Subset
    <2>2. Cardinality(S) \in Nat /\ s \in [1..Cardinality(S) -> JobId]
      BY <1>2, <2>1, FS_CardinalityType DEF Orders
    <2> QED
      BY <2>2, SeqDef DEF Orders
  <1>6. /\ Len(ready) \in Nat /\ DOMAIN ready = 1..Len(ready)
        /\ Len(s) = Cardinality(S)
        /\ DOMAIN ready' = 1..(Len(ready) + Len(s))
        /\ \A n \in 1..Len(ready) : ready'[n] = ready[n]
        /\ \A n \in 1..Len(s) : ready'[Len(ready) + n] = s[n]
    BY <1>3, <1>4, <1>5
  <1>7. \A n \in DOMAIN ready' : \/ n \in DOMAIN ready /\ ready'[n] = ready[n]
                                 \/ /\ n - Len(ready) \in DOMAIN s
                                    /\ ready'[n] = s[n - Len(ready)]
    BY <1>5, <1>6
  <1>8. \A j \in JobId : delayed'[j] = IF j \in S THEN NotDelayed ELSE delayed[j]
    BY <1>1, ServiceAssumption DEF PromoteRefs
  <1>9. \A j \in S : NotDelayed # 0 /\ Waits(j, 0) /\ \A n \in DOMAIN ready : ready[n] # j
    BY <1>2, <1>4 DEF DelayedOnce, NotDelayed
  <1>10. \A j \in JobId : Unlisted(j) => Unlisted(j)'
    BY <1>2, <1>5, <1>7, <1>8, <1>9 DEF Unlisted
  <1>11. ReadyOnce'
    <2> SUFFICES ASSUME NEW m \in DOMAIN ready'
                 PROVE  /\ Waits(ready'[m], 0)
                        /\ \A n \in DOMAIN ready' : ready'[m] = ready'[n] => m = n
      BY <1>1 DEF ReadyOnce, Waits
    <2>1. CASE m \in DOMAIN ready /\ ready'[m] = ready[m]
      <3>1. Waits(ready'[m], 0)
        BY <1>4, <2>1 DEF ReadyOnce
      <3>2. ASSUME NEW n \in DOMAIN ready', ready'[m] = ready'[n]
            PROVE  m = n
        <4>1. n \in DOMAIN ready /\ ready'[n] = ready[n]
          BY <1>5, <1>7, <1>9, <2>1, <3>2
        <4> QED
          BY <1>4, <2>1, <3>2, <4>1 DEF ReadyOnce
      <3> QED
        BY <3>1, <3>2
    <2>2. CASE m - Len(ready) \in DOMAIN s /\ ready'[m] = s[m - Len(ready)]
      <3>1. Waits(ready'[m], 0)
        BY <1>5, <1>9, <2>2
      <3>2. ASSUME NEW n \in DOMAIN ready', ready'[m] = ready'[n]
            PROVE  m = n
        <4>1. n - Len(ready) \in DOMAIN s /\ ready'[n] = s[n - Len(ready)]
          BY <1>5, <1>7, <1>9, <2>2, <3>2
        <4>2. m - Len(ready) = n - Len(ready)
          BY <1>5, <2>2, <3>2, <4>1
        <4> QED
          BY <1>6, <4>2
      <3> QED
        BY <3>1, <3>2
    <2> QED
      BY <1>7, <2>1, <2>2
  <1>12. DelayedOnce'
    BY <1>1, <1>4, <1>5, <1>7, <1>8 DEF DelayedOnce, Waits
  <1>13. PushedOnce'
    BY <1>1, <1>4, <1>10 DEF PushedOnce, Waits, IInv, ClientsHold
  <1>14. HeldOnce'
    <2>1. \A v \in Workers : worker'[v].pc = "pop"
      BY <1>1, WorkerMoves DEF OneWorker, IdleWorker
    <2> QED
      BY <2>1 DEF HeldOnce, InHand
  <1> QED
    BY <1>11, <1>12, <1>13, <1>14 DEF OnePlace

(***************************************************************************)
(* A popped id was once in the list, and is in the worker's hand alone.    *)
(***************************************************************************)
LEMMA PopOnce ==
  ASSUME IInv, OneWorker, OnePlace, NEW w \in Workers, PopRef,
         Moves(w, [IdleWorker EXCEPT !.pc = "claimById", !.job = Head(ready)]),
         UNCHANGED <<jobs, docs, client>>
  PROVE  OnePlace'
  <1>1. /\ ready \in Seq(JobId) /\ ready # <<>> /\ ready' = Tail(ready) /\ delayed' = delayed
        /\ ReadyOnce /\ DelayedOnce /\ PushedOnce
    BY ServiceAssumption DEF PopRef, IInv, TypeOK, QueueTypeOK, OnePlace
  <1> PICK j \in JobId : j = Head(ready)
    BY <1>1
  <1>2. /\ Len(ready) \in Nat \ {0} /\ DOMAIN ready = 1..Len(ready)
        /\ j = ready[1]
        /\ DOMAIN ready' = 1..(Len(ready) - 1)
        /\ \A n \in DOMAIN ready' : n + 1 \in DOMAIN ready /\ ready'[n] = ready[n + 1]
    BY <1>1
  <1>3. \A i \in JobId : Unlisted(i) => Unlisted(i)'
    BY <1>1, <1>2 DEF Unlisted
  <1>4. ReadyOnce'
    <2> SUFFICES ASSUME NEW m \in DOMAIN ready'
                 PROVE  /\ Waits(ready'[m], 0)
                        /\ \A n \in DOMAIN ready' : ready'[m] = ready'[n] => m = n
      BY DEF ReadyOnce, Waits
    <2>1. Waits(ready'[m], 0)
      BY <1>1, <1>2 DEF ReadyOnce
    <2>2. ASSUME NEW n \in DOMAIN ready', ready'[m] = ready'[n]
          PROVE  m = n
      <3>1. m + 1 = n + 1
        BY <1>1, <1>2, <2>2 DEF ReadyOnce
      <3> QED
        BY <1>2, <3>1
    <2> QED
      BY <2>1, <2>2
  <1>5. DelayedOnce'
    BY <1>1, <1>2 DEF DelayedOnce, Waits
  <1>6. PushedOnce'
    BY <1>1, <1>3 DEF PushedOnce, Waits, IInv, ClientsHold
  <1>7. HeldOnce'
    <2>1. \A v \in Workers : worker'[v].pc = "claimById" /\ worker'[v].job = j
      <3>1. worker'[w] = [IdleWorker EXCEPT !.pc = "claimById", !.job = Head(ready)]
        BY WorkerMoves
      <3> QED
        BY <3>1 DEF OneWorker, IdleWorker
    <2>2. Waits(j, 0)'
      BY <1>1, <1>2 DEF ReadyOnce, Waits
    <2>3. Unlisted(j)'
      <3>1. \A n \in DOMAIN ready' : ready'[n] # j
        BY <1>1, <1>2 DEF ReadyOnce
      <3>2. delayed[j] = NotDelayed
        BY <1>1, <1>2 DEF DelayedOnce
      <3> QED
        BY <1>1, <3>1, <3>2 DEF Unlisted
    <2>4. Unpushed(j)'
      BY <1>1, <1>2 DEF PushedOnce, Unlisted, Unpushed
    <2> QED
      BY <2>1, <2>2, <2>3, <2>4 DEF HeldOnce, InHand
  <1> QED
    BY <1>4, <1>5, <1>6, <1>7 DEF OnePlace

(***************************************************************************)
(* A step of the worker that writes a row whose id is nowhere else.        *)
(***************************************************************************)
LEMMA RowOnce ==
  ASSUME IInv, OneWorker, OnePlace, NEW w \in Workers, NEW s, Moves(w, s),
         UNCHANGED <<ready, delayed, client>>,
         NEW j \in JobId, \A i \in JobId \ {j} : jobs'[i] = jobs[i],
         Unlisted(j), Unpushed(j), InHand(s)'
  PROVE  OnePlace'
  <1>1. \A n : \A i \in JobId \ {j} : Waits(i, n) => Waits(i, n)'
    BY DEF Waits
  <1>2. ReadyOnce'
    BY <1>1, ServiceAssumption DEF OnePlace, ReadyOnce, Unlisted, IInv, TypeOK, QueueTypeOK
  <1>3. DelayedOnce'
    BY <1>1 DEF OnePlace, DelayedOnce, Unlisted
  <1>4. PushedOnce'
    BY <1>1 DEF OnePlace, PushedOnce, Unlisted, Unpushed, IInv, ClientsHold
  <1>5. HeldOnce'
    <2>1. \A v \in Workers : worker'[v] = s
      BY WorkerMoves DEF OneWorker
    <2> QED
      BY <2>1 DEF HeldOnce, InHand
  <1> QED
    BY <1>2, <1>3, <1>4, <1>5 DEF OnePlace

(***************************************************************************)
(* The id of a job under way, or in a worker's hand, is nowhere else.      *)
(***************************************************************************)
LEMMA OwnedNowhere ==
  ASSUME IInv, OnePlace, NEW w \in Workers, worker[w].pc \in Owning
  PROVE  Unlisted(worker[w].job) /\ Unpushed(worker[w].job)
  <1>1. /\ worker[w].job \in JobId
        /\ \A n : ~Waits(worker[w].job, n)
    BY DEF IInv, ClaimExclusive, Waits
  <1> QED
    BY <1>1 DEF OnePlace, ReadyOnce, DelayedOnce, PushedOnce, Unlisted, Unpushed

(***************************************************************************)
(* A claim, a success and a failure write the row of the job in hand.      *)
(***************************************************************************)
LEMMA ClaimOnce ==
  ASSUME IInv, OneWorker, OnePlace, NEW w \in Workers, ClaimById(w)
  PROVE  /\ OnePlace' /\ jobs[worker[w].job].wait = 0
         /\ \A i \in JobId \ {worker[w].job} : jobs'[i] = jobs[i]
  <1> PICK j : j = worker[w].job
    OBVIOUS
  <1>1. /\ j \in JobId /\ Waits(j, 0) /\ Unlisted(j) /\ Unpushed(j)
        /\ worker[w] \in WorkerState /\ jobs[j] \in Row
    BY DEF ClaimById, IInv, TypeOK, WorkersHold, OnePlace, HeldOnce, InHand
  <1>2. /\ ClaimSelectedRow(j) /\ Moves(w, [worker[w] EXCEPT !.pc = "ingest"])
        /\ UNCHANGED <<ready, delayed, client>>
    BY <1>1 DEF ClaimById, ClaimableById, Waits, queueVars
  <1>3. \A i \in JobId \ {j} : jobs'[i] = jobs[i]
    BY <1>1, <1>2, ClaimWrites DEF IInv, TypeOK
  <1>4. PICK s : s.pc = "ingest" /\ Moves(w, s)
    <2>1. [worker[w] EXCEPT !.pc = "ingest"].pc = "ingest"
      BY <1>1 DEF WorkerState
    <2> QED
      BY <1>2, <2>1
  <1>5. InHand(s)'
    BY <1>4 DEF InHand
  <1>6. OnePlace'
    BY <1>1, <1>2, <1>3, <1>4, <1>5, RowOnce
  <1>7. jobs[j].wait = 0
    BY <1>1, TableAssumption DEF Waits, Row
  <1> QED
    BY <1>3, <1>6, <1>7

LEMMA SuccessOnce ==
  ASSUME IInv, OneWorker, OnePlace, NEW w \in Workers, MarkSucceeded(w)
  PROVE  OnePlace'
  <1> PICK j : j = worker[w].job
    OBVIOUS
  <1>1. /\ j \in JobId /\ Unlisted(j) /\ Unpushed(j)
    BY OwnedNowhere DEF MarkSucceeded, Owning, IInv, ClaimExclusive
  <1>2. /\ MarkJobSucceeded(j, worker[w].doc) /\ Moves(w, IdleWorker)
        /\ UNCHANGED <<ready, delayed, client>>
    BY DEF MarkSucceeded, queueVars
  <1>3. \A i \in JobId \ {j} : jobs'[i] = jobs[i]
    BY <1>1, <1>2 DEF MarkJobSucceeded, IInv, TypeOK
  <1>4. PICK s : s.pc = "idle" /\ Moves(w, s)
    BY <1>2 DEF IdleWorker
  <1>5. InHand(s)'
    BY <1>4 DEF InHand
  <1> QED
    BY <1>1, <1>2, <1>3, <1>4, <1>5, RowOnce

LEMMA FailureOnce ==
  ASSUME IInv, OneWorker, OnePlace, NEW w \in Workers, FailWrite(w)
  PROVE  OnePlace'
  <1> PICK j, n, t : j = worker[w].job /\ n = worker[w].retry /\ t = worker[w].wait
    OBVIOUS
  <1>1. /\ j \in JobId /\ Unlisted(j) /\ Unpushed(j)
        /\ worker[w] \in WorkerState /\ t \in Nat /\ jobs \in [JobId -> Row]
    BY OwnedNowhere DEF FailWrite, Owning, IInv, ClaimExclusive, TypeOK, WorkerState
  <1>2. /\ MarkJobFailed(j, n, t)
        /\ Moves(w, [worker[w] EXCEPT !.pc = "nack", !.dead = ~Retryable(j, n)])
        /\ UNCHANGED <<ready, delayed, client>>
    BY DEF FailWrite, queueVars
  <1>3. \A i \in JobId \ {j} : jobs'[i] = jobs[i]
    BY <1>1, <1>2 DEF MarkJobFailed
  <1>4. Retryable(j, n) => Waits(j, t)'
    <2>1. ASSUME Retryable(j, n)
          PROVE  jobs'[j] = [jobs[j] EXCEPT !.status = "queued", !.retry_count = n, !.wait = t,
                                            !.dead_lettered = FALSE]
      BY <1>1, <1>2, <2>1 DEF MarkJobFailed
    <2>2. ASSUME Retryable(j, n)
          PROVE  jobs'[j].status = "queued" /\ jobs'[j].wait = t
      <3>1. jobs[j] \in Row
        BY <1>1
      <3> QED
        BY <2>1, <2>2, <3>1 DEF Row
    <2> QED
      BY <1>1, <2>2 DEF Waits
  <1>5. PICK s : /\ s.pc = "nack" /\ s.job = j /\ s.wait = t /\ s.dead = ~Retryable(j, n)
                 /\ Moves(w, s)
    <2> DEFINE s == [worker[w] EXCEPT !.pc = "nack", !.dead = ~Retryable(j, n)]
    <2>1. s.pc = "nack" /\ s.job = j /\ s.wait = t /\ s.dead = ~Retryable(j, n)
      BY <1>1 DEF WorkerState
    <2> QED
      BY <1>2, <2>1
  <1>6. InHand(s)'
    <2>1. Unlisted(j)' /\ Unpushed(j)'
      BY <1>1, <1>2 DEF Unlisted, Unpushed
    <2> QED
      BY <1>4, <1>5, <2>1 DEF InHand
  <1> QED
    BY <1>1, <1>2, <1>3, <1>5, <1>6, RowOnce

(***************************************************************************)
(* A nack takes the id out of the worker's hand.                           *)
(***************************************************************************)
LEMMA NackOnce ==
  ASSUME IInv, OneWorker, OnePlace, NEW w \in Workers, NackJob(w)
  PROVE  OnePlace'
  <1> PICK j, t : j = worker[w].job /\ t = worker[w].wait
    OBVIOUS
  <1>1. /\ j \in JobId /\ t \in Nat /\ w \in RedisProcs
        /\ Nack(j, t, worker[w].dead) /\ Moves(w, IdleWorker)
        /\ UNCHANGED <<jobs, client>>
    BY DEF NackJob, OneWorker, IInv, TypeOK, WorkersHold, WorkerState
  <1>2. CASE worker[w].dead
    <2>1. UNCHANGED <<jobs, ready, delayed, client>>
      BY <1>1, <1>2 DEF Nack
    <2> QED
      BY <1>1, <2>1, WorkerTurns, EmptyHands DEF IdleWorker
  <1>3. CASE ~worker[w].dead
    <2>1. Enqueue(j, t) /\ Waits(j, t) /\ Unlisted(j) /\ Unpushed(j)
      BY <1>1, <1>3 DEF Nack, NackJob, OnePlace, HeldOnce, InHand
    <2>2. /\ ReadyOnce' /\ DelayedOnce'
          /\ \A i \in JobId \ {j} : Unlisted(i) => Unlisted(i)'
      BY <1>1, <2>1, EnqueueOnce
    <2>3. PushedOnce'
      BY <1>1, <2>1, <2>2 DEF OnePlace, PushedOnce, Unpushed, Waits, IInv, ClientsHold
    <2>4. HeldOnce'
      <3>1. \A v \in Workers : worker'[v].pc = "idle"
        BY <1>1, WorkerMoves DEF OneWorker, IdleWorker
      <3> QED
        BY <3>1 DEF HeldOnce, InHand
    <2> QED
      BY <2>2, <2>3, <2>4 DEF OnePlace
  <1> QED
    BY <1>2, <1>3

(***************************************************************************)
(* The other steps of the worker: with its ids in one place only, it comes *)
(* to no claim of the next job.                                            *)
(***************************************************************************)
LEMMA WorkerOnce ==
  ASSUME IInv, OneWorker, OnePlace, NEW w \in Workers,
         \/ ReadDue(w) \/ Pop(w) \/ ClaimNext(w) \/ Ingest(w) \/ FailRead(w)
         \/ AttemptRaises(w) \/ Die(w) \/ Restart(w)
  PROVE  OnePlace'
  <1>1. worker[w] \in WorkerState /\ worker[w].pc # "claimNext" /\ w \in RedisProcs
    BY DEF IInv, TypeOK, OneWorker, OnePlace, HeldOnce, InHand
  <1>2. CASE ReadDue(w)
    <2> DEFINE s == [IdleWorker EXCEPT !.pc = IF DueRefs = {} THEN "pop" ELSE "promote",
                                       !.due = DueRefs]
    <2>1. Moves(w, s) /\ UNCHANGED <<jobs, ready, delayed, client>>
      BY <1>2 DEF ReadDue, queueVars
    <2>2. s.pc \in {"pop", "promote"} /\ s.due = DueRefs
      BY DEF IdleWorker
    <2>3. InHand(s)
      BY <2>2 DEF InHand
    <2> QED
      BY <2>1, <2>3, WorkerTurns
  <1>3. CASE PopRef /\ Pop(w)
    BY <1>3, PopOnce DEF PopRef, Pop
  <1>4. ASSUME ~(PopRef /\ Pop(w)), ~ReadDue(w)
        PROVE  /\ UNCHANGED <<jobs, ready, delayed, client>>
               /\ \E s : s.pc \in {"idle", "dead"} \cup Owning /\ Moves(w, s)
    <2>1. ~ClaimNext(w)
      BY <1>1 DEF ClaimNext, AtClaimNext
    <2>2. CASE Pop(w)
      BY <1>4, <2>2 DEF Pop, queueVars, IdleWorker
    <2>3. CASE Ingest(w)
      BY <1>1, <2>3 DEF Ingest, queueVars, WorkerState, Owning
    <2>4. CASE FailRead(w)
      BY <1>1, <2>4 DEF FailRead, queueVars, WorkerState, Owning
    <2>5. CASE AttemptRaises(w) \/ Die(w) \/ Restart(w)
      BY <1>1, <2>5 DEF AttemptRaises, Die, Restart, queueVars, WorkerState, Owning, IdleWorker
    <2> QED
      BY <1>4, <2>1, <2>2, <2>3, <2>4, <2>5
  <1> QED
    BY <1>2, <1>3, <1>4, WorkerTurns, EmptyHands DEF Owning

(***************************************************************************)
(* Time passes for a row and for its id alike.                             *)
(***************************************************************************)
LEMMA TickWaits ==
  ASSUME IInv, Tick
  PROVE  /\ \A j \in JobId, n \in Nat : Waits(j, n) => Waits(j, Sooner(n))'
         /\ \A w \in Workers : /\ worker'[w].wait = Sooner(worker[w].wait)
                               /\ worker'[w].due = worker[w].due
         /\ \A c \in Clients : client'[c].wait = Sooner(client[c].wait)
         /\ \A j \in JobId : delayed'[j] = IF delayed[j] > 0 THEN delayed[j] - 1 ELSE delayed[j]
         /\ ready' = ready
  <1>1. ASSUME NEW j \in JobId, NEW n \in Nat, Waits(j, n)
        PROVE  Waits(j, Sooner(n))'
    <2>1. jobs[j] \in Row /\ jobs'[j] = [jobs[j] EXCEPT !.wait = Sooner(jobs[j].wait)]
      BY DEF IInv, TypeOK, Tick, TableElapsed
    <2>2. jobs'[j].status = jobs[j].status /\ jobs'[j].wait = Sooner(jobs[j].wait)
      BY <2>1 DEF Row
    <2>3. jobs[j].wait \in Nat
      BY <2>1, TableAssumption DEF Row
    <2> QED
      BY <1>1, <2>2, <2>3 DEF Waits, Sooner
  <1>2. ASSUME NEW w \in Workers
        PROVE  worker'[w].wait = Sooner(worker[w].wait) /\ worker'[w].due = worker[w].due
    <2>1. /\ worker[w] \in WorkerState
          /\ worker'[w] = [worker[w] EXCEPT !.wait = Sooner(worker[w].wait)]
      BY DEF IInv, TypeOK, Tick
    <2> QED
      BY <2>1 DEF WorkerState
  <1>3. ASSUME NEW c \in Clients
        PROVE  client'[c].wait = Sooner(client[c].wait)
    <2>1. /\ client[c] \in ClientState
          /\ client'[c] = [client[c] EXCEPT !.wait = Sooner(client[c].wait)]
      BY DEF IInv, TypeOK, Tick
    <2> QED
      BY <2>1 DEF ClientState
  <1> QED
    BY <1>1, <1>2, <1>3, ServiceAssumption DEF Tick, QueueElapsed

LEMMA TickOnce ==
  ASSUME IInv, OnePlace, Tick
  PROVE  OnePlace'
  <1>1. /\ ready \in Seq(JobId) /\ delayed \in [JobId -> Nat \cup {NotDelayed}]
        /\ ready' = ready /\ Sooner(0) = 0
    BY TickWaits, ServiceAssumption DEF IInv, TypeOK, QueueTypeOK, Sooner
  <1>2. \A j \in JobId : Waits(j, 0) => Waits(j, 0)'
    BY <1>1, TickWaits
  <1>3. \A j \in JobId : /\ delayed[j] = NotDelayed <=> delayed'[j] = NotDelayed
                         /\ delayed[j] = 0 => delayed'[j] = 0
                         /\ delayed[j] # NotDelayed =>
                              delayed[j] \in Nat /\ delayed'[j] = Sooner(delayed[j])
    BY <1>1, TickWaits DEF NotDelayed, Sooner
  <1>4. \A j \in JobId : Unlisted(j) => Unlisted(j)'
    BY <1>1, <1>3 DEF Unlisted
  <1>5. \A j \in JobId : Unpushed(j) => Unpushed(j)'
    BY TickMoves DEF Unpushed
  <1>6. ReadyOnce'
    BY <1>1, <1>2 DEF OnePlace, ReadyOnce
  <1>7. DelayedOnce'
    <2> SUFFICES ASSUME NEW j \in JobId, delayed'[j] # NotDelayed
                 PROVE  Waits(j, delayed[j])' /\ \A n \in DOMAIN ready' : ready'[n] # j
      BY DEF DelayedOnce
    <2>1. /\ delayed[j] # NotDelayed /\ delayed[j] \in Nat
          /\ delayed'[j] = Sooner(delayed[j]) /\ Waits(j, delayed[j])
      BY <1>3 DEF OnePlace, DelayedOnce
    <2> QED
      BY <1>1, <2>1, TickWaits DEF OnePlace, DelayedOnce, Waits
  <1>8. PushedOnce'
    BY <1>1, <1>2, <1>4, TickMoves, TickWaits DEF OnePlace, PushedOnce, IInv, ClientsHold
  <1>9. HeldOnce'
    <2> SUFFICES ASSUME NEW w \in Workers PROVE InHand(worker[w])'
      BY DEF HeldOnce
    <2> PICK t \in Nat : t = worker[w].wait
      BY TableAssumption DEF IInv, TypeOK, WorkerState
    <2>1. /\ InHand(worker[w]) /\ worker[w].due \subseteq JobId
          /\ worker[w].pc \in {"claimById", "nack"} => worker[w].job \in JobId
      BY DEF OnePlace, HeldOnce, IInv, WorkersHold, TypeOK, WorkerState
    <2>2. /\ worker'[w].pc = worker[w].pc /\ worker'[w].job = worker[w].job
          /\ worker'[w].dead = worker[w].dead /\ worker'[w].due = worker[w].due
          /\ worker'[w].wait = Sooner(t)
      BY TickMoves, TickWaits
    <2>3. \A j \in JobId : Waits(j, t) => Waits(j, Sooner(t))'
      BY TickWaits
    <2>4. DueRefs \subseteq DueRefs'
      BY <1>3, ServiceAssumption DEF DueRefs
    <2> QED
      BY <1>2, <1>4, <1>5, <2>1, <2>2, <2>3, <2>4 DEF InHand, Waits
  <1> QED
    BY <1>6, <1>7, <1>8, <1>9 DEF OnePlace

(***************************************************************************)
(* Every id stays in one place.                                            *)
(***************************************************************************)
LEMMA NextOnce ==
  ASSUME IInv, OneWorker, OnePlace, [Next]_vars
  PROVE  OnePlace'
  <1>1. ASSUME NEW c \in Clients, Request(c) \/ ClientStep(c) \/ Abandon(c)
        PROVE  OnePlace'
    BY <1>1, ClientOnce, InsertOnce, PushOnce DEF ClientStep
  <1>2. ASSUME NEW w \in Workers, WorkerStep(w) \/ AttemptRaises(w) \/ Die(w) \/ Restart(w)
        PROVE  OnePlace'
    BY <1>2, PromoteOnce, ClaimOnce, SuccessOnce, FailureOnce, NackOnce, WorkerOnce DEF WorkerStep
  <1>3. CASE Tick
    BY <1>3, TickOnce
  <1>4. CASE UNCHANGED vars
    BY <1>4
       DEF vars, queueVars, OnePlace, ReadyOnce, DelayedOnce, PushedOnce, HeldOnce, InHand,
           Waits, Unlisted, Unpushed, DueRefs
  <1> QED
    BY <1>1, <1>2, <1>3, <1>4 DEF Next

(***************************************************************************)
(* With one worker on Redis, and requests without keys from any number of  *)
(* clients, no attempt starts before the backoff of the one before is over,*)
(* whatever fails (ingestion_job_repository.py 240-257 and 333, redis_     *)
(* queue.py 35-43 and 65-75): the claim of a popped id may rely on the     *)
(* delayed set.                                                            *)
(***************************************************************************)
THEOREM BackoffKept ==
  ASSUME OneWorker
  PROVE  Spec => BackoffRespected
  <1>1. Init => OnePlace
    <2> SUFFICES ASSUME Init PROVE OnePlace
      OBVIOUS
    <2>1. /\ ready = <<>> /\ \A j \in JobId : delayed[j] = NotDelayed
          /\ \A c \in Clients : client[c].pc = "idle" /\ client[c].wait = 0
          /\ \A w \in Workers : worker[w].pc = "idle"
      BY ServiceAssumption DEF Init, QueueInit, IdleClient, IdleWorker
    <2> QED
      BY <2>1 DEF OnePlace, ReadyOnce, DelayedOnce, PushedOnce, HeldOnce, InHand
  <1>2. IInv /\ OnePlace /\ [Next]_vars => OnePlace'
    BY NextOnce
  <1>3. ASSUME IInv, OnePlace, [Next]_vars, NEW j \in JobId,
               jobs[j].status = "queued", jobs'[j].status = "processing"
        PROVE  jobs[j].wait = 0
    <2>1. PICK w \in Workers : ClaimById(w) \/ ClaimNext(w)
      <3>1. RowMove(j)
        BY <1>3, TableStep DEF Unchanging, OneMove
      <3> QED
        BY <1>3, <3>1 DEF RowMove
    <2>2. ClaimById(w)
      BY <1>3, <2>1 DEF ClaimNext, AtClaimNext, OneWorker, OnePlace, HeldOnce, InHand
    <2> QED
      BY <1>3, <2>2, ClaimOnce
  <1>4. IInv /\ OnePlace /\ [Next]_vars =>
          [\A j \in JobId : (jobs[j].status = "queued" /\ jobs'[j].status = "processing")
                              => jobs[j].wait = 0]_vars
    BY <1>3
  <1> QED
    BY <1>1, <1>2, <1>4, Safety, PTL DEF Spec, BackoffRespected
=============================================================================
