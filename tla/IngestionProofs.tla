--------------------------- MODULE IngestionProofs ---------------------------
(***************************************************************************)
(* Theorems about the ingestion pipeline, for every number of jobs,        *)
(* clients and workers, every choice of backends and every fault.          *)
(***************************************************************************)
EXTENDS IngestionProperties, SequenceTheorems, FiniteSetTheorems, TLAPS

-----------------------------------------------------------------------------
(* The transactions on the table: what each writes, and that it leaves     *)
(* every other row alone.                                                  *)

(***************************************************************************)
(* The status column holds one of its five values.                         *)
(***************************************************************************)
LEMMA StatusValues ==
  /\ "absent" \in Status /\ "queued" \in Status /\ "processing" \in Status
  /\ "succeeded" \in Status /\ "failed" \in Status
  BY DEF Status, Open, Terminal

(***************************************************************************)
(* The backoff is within the bound of the settings.                        *)
(***************************************************************************)
LEMMA BackoffBound == \A n : Backoff(n) \in 0..MaxBackoff
  BY TableAssumption DEF Backoff

(***************************************************************************)
(* A claim by either route starts an attempt on one row.                   *)
(***************************************************************************)
LEMMA ClaimWrites ==
  ASSUME jobs \in [JobId -> Row], NEW j \in JobId, ClaimSelectedRow(j)
  PROVE  /\ jobs' \in [JobId -> Row]
         /\ \A i \in JobId \ {j} : jobs'[i] = jobs[i]
         /\ jobs'[j] = [jobs[j] EXCEPT !.status = "processing",
                         !.attempt_count = jobs[j].attempt_count + 1]
  <1> DEFINE r == [jobs[j] EXCEPT !.status = "processing",
                           !.attempt_count = jobs[j].attempt_count + 1]
  <1>0. jobs[j].attempt_count + 1 \in Nat
    BY DEF Row
  <1>1. r \in Row
    BY <1>0, StatusValues DEF Row
  <1>2. jobs' = [jobs EXCEPT ![j] = r]
    BY DEF ClaimSelectedRow
  <1> HIDE DEF r
  <1>3. /\ jobs' \in [JobId -> Row]
        /\ \A i \in JobId \ {j} : jobs'[i] = jobs[i]
        /\ jobs'[j] = r
    BY <1>1, <1>2
  <1> QED
    BY <1>3 DEF r

(***************************************************************************)
(* enqueue_text_job fills one row.                                         *)
(***************************************************************************)
LEMMA InsertWrites ==
  ASSUME jobs \in [JobId -> Row], NEW j \in JobId, NEW k \in Keys \cup {NoKey},
         NEW b \in BOOLEAN, NEW n \in Nat, InsertJob(j, k, b, n)
  PROVE  /\ jobs' \in [JobId -> Row]
         /\ \A i \in JobId \ {j} : jobs'[i] = jobs[i]
         /\ jobs'[j] = NewRow(k, b, n)
  BY TableAssumption, StatusValues DEF InsertJob, NewRow, Row, NoJob

(***************************************************************************)
(* mark_job_succeeded closes one row.                                      *)
(***************************************************************************)
LEMMA SuccessWrites ==
  ASSUME jobs \in [JobId -> Row], NEW j \in JobId, NEW d \in Nat,
         MarkJobSucceeded(j, d)
  PROVE  /\ jobs' \in [JobId -> Row]
         /\ \A i \in JobId \ {j} : jobs'[i] = jobs[i]
         /\ jobs'[j] = [jobs[j] EXCEPT !.status = "succeeded", !.document = d,
                                       !.dead_lettered = FALSE]
  <1> DEFINE r == [jobs[j] EXCEPT !.status = "succeeded", !.document = d,
                                  !.dead_lettered = FALSE]
  <1>1. r \in Row
    BY StatusValues DEF Row
  <1>2. jobs' = [jobs EXCEPT ![j] = r]
    BY DEF MarkJobSucceeded
  <1> HIDE DEF r
  <1>3. /\ jobs' \in [JobId -> Row]
        /\ \A i \in JobId \ {j} : jobs'[i] = jobs[i]
        /\ jobs'[j] = r
    BY <1>1, <1>2
  <1> QED
    BY <1>3 DEF r

(***************************************************************************)
(* mark_job_failed queues one row again or closes it.                      *)
(***************************************************************************)
LEMMA FailureWrites ==
  ASSUME jobs \in [JobId -> Row], NEW j \in JobId, NEW n \in Nat,
         NEW d \in 0..MaxBackoff, MarkJobFailed(j, n, d)
  PROVE  /\ jobs' \in [JobId -> Row]
         /\ \A i \in JobId \ {j} : jobs'[i] = jobs[i]
         /\ Retryable(j, n) =>
              jobs'[j] = [jobs[j] EXCEPT !.status = "queued", !.retry_count = n,
                                         !.wait = d, !.dead_lettered = FALSE]
         /\ ~Retryable(j, n) =>
              jobs'[j] = [jobs[j] EXCEPT !.status = "failed", !.retry_count = n,
                                         !.wait = 0, !.dead_lettered = TRUE]
  <1> DEFINE q == [jobs[j] EXCEPT !.status = "queued", !.retry_count = n,
                                  !.wait = d, !.dead_lettered = FALSE]
             f == [jobs[j] EXCEPT !.status = "failed", !.retry_count = n,
                                  !.wait = 0, !.dead_lettered = TRUE]
  <1>0. 0 \in 0..MaxBackoff
    BY TableAssumption
  <1>1. q \in Row
    BY StatusValues DEF Row
  <1>2. f \in Row
    BY <1>0, StatusValues DEF Row
  <1>3. CASE Retryable(j, n)
    <2>1. jobs' = [jobs EXCEPT ![j] = q]
      BY <1>3 DEF MarkJobFailed
    <2> HIDE DEF q
    <2>2. /\ jobs' \in [JobId -> Row]
          /\ \A i \in JobId \ {j} : jobs'[i] = jobs[i]
          /\ jobs'[j] = q
      BY <1>1, <2>1
    <2> QED
      BY <1>3, <2>2 DEF q
  <1>4. CASE ~Retryable(j, n)
    <2>1. jobs' = [jobs EXCEPT ![j] = f]
      BY <1>4 DEF MarkJobFailed
    <2> HIDE DEF f
    <2>2. /\ jobs' \in [JobId -> Row]
          /\ \A i \in JobId \ {j} : jobs'[i] = jobs[i]
          /\ jobs'[j] = f
      BY <1>2, <2>1
    <2> QED
      BY <1>4, <2>2 DEF f
  <1> QED
    BY <1>3, <1>4

(***************************************************************************)
(* A tick moves only the moments of the rows.                              *)
(***************************************************************************)
LEMMA ElapsedWrites ==
  ASSUME jobs \in [JobId -> Row], TableElapsed
  PROVE  /\ jobs' \in [JobId -> Row]
         /\ \A i \in JobId : jobs'[i] = [jobs[i] EXCEPT !.wait = Sooner(@)]
  <1>1. \A w \in 0..MaxBackoff : Sooner(w) \in 0..MaxBackoff
    BY TableAssumption DEF Sooner
  <1>2. \A r \in Row : [r EXCEPT !.wait = Sooner(@)] \in Row
    BY <1>1 DEF Row
  <1> QED
    BY <1>2 DEF TableElapsed

-----------------------------------------------------------------------------
(* The local states of workers and clients.                                *)

(***************************************************************************)
(* A worker at rest, and one that has died, are legal states.              *)
(***************************************************************************)
LEMMA IdleWorkerType == IdleWorker \in WorkerState
  BY TableAssumption DEF IdleWorker, WorkerState, WorkerPC, NoJob

(***************************************************************************)
(* The same of a request that is not under way.                            *)
(***************************************************************************)
LEMMA IdleClientType == IdleClient \in ClientState
  BY TableAssumption DEF IdleClient, ClientState, ClientPC, NoJob

(***************************************************************************)
(* A step of one worker, or client, leaves the others where they are.      *)
(***************************************************************************)
LEMMA MovesOne ==
  ASSUME worker \in [Workers -> WorkerState], NEW w \in Workers,
         NEW s \in WorkerState, Moves(w, s)
  PROVE  /\ worker' \in [Workers -> WorkerState]
         /\ worker'[w] = s
         /\ \A v \in Workers \ {w} : worker'[v] = worker[v]
  BY DEF Moves

(***************************************************************************)
(* The same of a client.                                                   *)
(***************************************************************************)
LEMMA GoesOne ==
  ASSUME client \in [Clients -> ClientState], NEW c \in Clients,
         NEW s \in ClientState, Goes(c, s)
  PROVE  /\ client' \in [Clients -> ClientState]
         /\ client'[c] = s
         /\ \A d \in Clients \ {c} : client'[d] = client[d]
  BY DEF Goes

(***************************************************************************)
(* The commands keep the Redis keys well formed.                           *)
(***************************************************************************)
LEMMA EnqueueType ==
  ASSUME QueueTypeOK, NEW j \in Refs, NEW t \in Nat, Enqueue(j, t)
  PROVE  QueueTypeOK'
  <1>1. CASE t = 0
    <2>1. ready' = Append(ready, j) /\ delayed' = delayed /\ dlq' = dlq
      BY <1>1, ZenonT(60) DEF Enqueue
    <2>2. Append(ready, j) \in Seq(Refs)
      BY SMTT(60) DEF QueueTypeOK
    <2> QED
      BY <2>1, <2>2 DEF QueueTypeOK
  <1>2. CASE t # 0
    <2>1. /\ delayed' = [delayed EXCEPT ![j] = t]
          /\ ready' = ready /\ dlq' = dlq
      BY <1>2 DEF Enqueue
    <2> QED
      BY <2>1 DEF QueueTypeOK
  <1> QED
    BY <1>1, <1>2

(***************************************************************************)
(* nack keeps them too.                                                    *)
(***************************************************************************)
LEMMA NackType ==
  ASSUME QueueTypeOK, NEW j \in Refs, NEW t \in Nat, NEW b, Nack(j, t, b)
  PROVE  QueueTypeOK'
  <1>1. CASE b
    <2>1. dlq' = Append(dlq, j) /\ ready' = ready /\ delayed' = delayed
      BY <1>1, ZenonT(60) DEF Nack
    <2>2. Append(dlq, j) \in Seq(Refs)
      BY SMTT(60) DEF QueueTypeOK
    <2> QED
      BY <2>1, <2>2 DEF QueueTypeOK
  <1>2. CASE ~b
    BY <1>2, EnqueueType DEF Nack
  <1> QED
    BY <1>1, <1>2

(***************************************************************************)
(* So does a promotion, in whatever order it pushes.                       *)
(***************************************************************************)
LEMMA PromoteType ==
  ASSUME QueueTypeOK, NEW S \in SUBSET Refs, PromoteRefs(S)
  PROVE  QueueTypeOK'
  <1>1. PICK s \in Orders(S) : ready' = ready \o s
    BY DEF PromoteRefs
  <1>2. s \in Seq(Refs)
    <2>1. s \in [1..Cardinality(S) -> S]
      BY DEF Orders
    <2>2. IsFiniteSet(S)
      <3>1. IsFiniteSet(1..MaxJobs)
        BY TableAssumption, FS_Interval
      <3>2. Refs = 1..MaxJobs
        BY ServiceAssumption DEF JobId
      <3> QED
        BY <3>1, <3>2, FS_Subset
    <2>3. Cardinality(S) \in Nat
      BY <2>2, FS_CardinalityType
    <2>4. s \in [1..Cardinality(S) -> Refs]
      BY <2>1
    <2>5. s \in UNION {[1..n -> Refs] : n \in Nat}
      BY <2>3, <2>4
    <2>6. Seq(Refs) = UNION {[1..n -> Refs] : n \in Nat}
      BY SeqDef
    <2> QED
      BY <2>5, <2>6, Zenon
  <1>3. ready' \in Seq(Refs)
    BY <1>1, <1>2, ConcatProperties DEF QueueTypeOK
  <1> QED
    BY <1>3 DEF QueueTypeOK, PromoteRefs, NotDelayed

(***************************************************************************)
(* So does a pop, which returns an id.                                     *)
(***************************************************************************)
LEMMA PopType ==
  ASSUME QueueTypeOK, PopRef
  PROVE  QueueTypeOK' /\ Head(ready) \in Refs
  BY DEF QueueTypeOK, PopRef

(***************************************************************************)
(* So does time.                                                           *)
(***************************************************************************)
LEMMA QueueElapsedType ==
  ASSUME QueueTypeOK, QueueElapsed
  PROVE  QueueTypeOK'
  BY DEF QueueTypeOK, QueueElapsed, NotDelayed

-----------------------------------------------------------------------------
(* The inductive invariant: one lemma per way in which a step touches the  *)
(* table and the worker that makes it.                                     *)

(***************************************************************************)
(* What the invariant says of one row, for which n documents are stored.   *)
(***************************************************************************)
RowOK(r, n) ==
  /\ r.attempt_count =
       r.retry_count + (IF r.status \in {"processing", "succeeded"} THEN 1 ELSE 0)
  /\ r.dead_lettered <=> r.status = "failed"
  /\ r.retry_count <= r.max_retries + (IF r.status = "failed" THEN 1 ELSE 0)
  /\ r.status = "failed" => r.retry_count = r.max_retries + 1
  /\ r.status = "succeeded" => r.document \in 1..n /\ ~r.blank

(***************************************************************************)
(* The three invariants on rows are this one, row by row.                  *)
(***************************************************************************)
LEMMA RowByRow ==
  AttemptAccounting /\ DeadLetterIffExhausted /\ SucceededHasDocument
    <=> \A j \in JobId : RowOK(jobs[j], docs[j])
  BY DEF AttemptAccounting, DeadLetterIffExhausted, SucceededHasDocument, RowOK

(***************************************************************************)
(* The same in the next state.                                            *)
(***************************************************************************)
LEMMA RowByRowNext ==
  (\A j \in JobId : RowOK(jobs'[j], docs'[j])) =>
    (AttemptAccounting /\ DeadLetterIffExhausted /\ SucceededHasDocument)'
  BY DEF AttemptAccounting, DeadLetterIffExhausted, SucceededHasDocument, RowOK

(***************************************************************************)
(* A worker that holds no job afterwards, and wrote nothing: a poll, a     *)
(* dequeue, a nack, its death or its restart.                              *)
(***************************************************************************)
LEMMA WorkerLeaves ==
  ASSUME IInv, NEW w \in Workers, NEW s \in WorkerState,
         s.pc \notin Owning,
         s.pc \in {"claimById", "nack"} => s.job \in JobId,
         Moves(w, s), UNCHANGED <<jobs, docs, client>>, QueueTypeOK'
  PROVE  IInv'
  <1>1. /\ worker' \in [Workers -> WorkerState]
        /\ worker'[w] = s
        /\ \A v \in Workers \ {w} : worker'[v] = worker[v]
    BY MovesOne DEF IInv, TypeOK
  <1>2. TypeOK'
    BY <1>1 DEF IInv, TypeOK
  <1>3. WorkersHold'
    BY <1>1 DEF IInv, WorkersHold, Owning
  <1>4. ClientsHold'
    BY DEF IInv, ClientsHold
  <1>5. ClaimExclusive'
    BY <1>1 DEF IInv, ClaimExclusive, Owns
  <1>6. (AttemptAccounting /\ DeadLetterIffExhausted /\ SucceededHasDocument)'
    BY RowByRow, RowByRowNext DEF IInv
  <1> QED
    BY <1>2, <1>3, <1>4, <1>5, <1>6 DEF IInv

(***************************************************************************)
(* A worker goes on with the job it holds, and may have stored a document. *)
(***************************************************************************)
LEMMA WorkerKeeps ==
  ASSUME IInv, NEW w \in Workers, NEW s \in WorkerState,
         worker[w].pc \in Owning, s.pc \in Owning, s.job = worker[w].job,
         s.pc = "failWrite" => s.retry = jobs[s.job].retry_count + 1,
         s.pc = "markSucceeded" => s.doc \in 1..docs'[s.job] /\ ~jobs[s.job].blank,
         docs' \in [JobId -> Nat],
         \A j \in JobId : docs[j] <= docs'[j],
         Moves(w, s), UNCHANGED <<jobs, queueVars, client>>
  PROVE  IInv'
  <1>1. /\ worker' \in [Workers -> WorkerState]
        /\ worker'[w] = s
        /\ \A v \in Workers \ {w} : worker'[v] = worker[v]
    BY MovesOne DEF IInv, TypeOK
  <1>2. TypeOK'
    BY <1>1 DEF IInv, TypeOK, QueueTypeOK, queueVars
  <1>3. \A j \in JobId, d \in Nat : d \in 1..docs[j] => d \in 1..docs'[j]
    BY DEF IInv, TypeOK
  <1>4. WorkersHold'
    <2> SUFFICES ASSUME NEW v \in Workers
                 PROVE  /\ worker'[v].pc \in Owning \cup {"claimById", "nack"}
                             => worker'[v].job \in JobId
                        /\ worker'[v].pc = "failWrite" =>
                             worker'[v].retry = jobs[worker'[v].job].retry_count + 1
                        /\ worker'[v].pc = "markSucceeded" =>
                             /\ worker'[v].doc \in 1..docs'[worker'[v].job]
                             /\ ~jobs[worker'[v].job].blank
      BY DEF WorkersHold
    <2>1. CASE v = w
      BY <1>1, <2>1 DEF IInv, WorkersHold
    <2>2. CASE v # w
      <3>1. worker'[v] = worker[v] /\ worker[v].doc \in Nat
        BY <1>1, <2>2 DEF IInv, TypeOK, WorkerState
      <3> QED
        BY <1>3, <3>1 DEF IInv, WorkersHold, Owning
    <2> QED
      BY <2>1, <2>2
  <1>5. ClientsHold'
    BY DEF IInv, ClientsHold
  <1>6. ClaimExclusive'
    BY <1>1 DEF IInv, ClaimExclusive, Owns
  <1>7. (AttemptAccounting /\ DeadLetterIffExhausted /\ SucceededHasDocument)'
    <2>1. \A j \in JobId : jobs[j].document \in Nat
      BY DEF IInv, TypeOK, Row
    <2>2. \A j \in JobId : RowOK(jobs[j], docs[j])
      BY RowByRow DEF IInv
    <2>3. \A j \in JobId : RowOK(jobs'[j], docs'[j])
      BY <1>3, <2>1, <2>2 DEF RowOK
    <2> QED
      BY <2>3, RowByRowNext
  <1> QED
    BY <1>2, <1>4, <1>5, <1>6, <1>7 DEF IInv

(***************************************************************************)
(* A worker takes a queued job, whether by id or as the oldest due one.    *)
(***************************************************************************)
LEMMA WorkerClaims ==
  ASSUME IInv, NEW w \in Workers, NEW s \in WorkerState,
         s.pc = "ingest", s.job \in JobId,
         jobs[s.job].status = "queued", ClaimSelectedRow(s.job),
         Moves(w, s), UNCHANGED <<queueVars, docs, client>>
  PROVE  IInv'
  <1> DEFINE j == s.job
  <1>1. /\ worker' \in [Workers -> WorkerState]
        /\ worker'[w] = s
        /\ \A v \in Workers \ {w} : worker'[v] = worker[v]
    BY MovesOne DEF IInv, TypeOK
  <1>2. /\ jobs' \in [JobId -> Row]
        /\ \A i \in JobId \ {j} : jobs'[i] = jobs[i]
        /\ jobs'[j] = [jobs[j] EXCEPT !.status = "processing",
                          !.attempt_count = jobs[j].attempt_count + 1]
    BY ClaimWrites DEF IInv, TypeOK
  <1>3. TypeOK'
    BY <1>1, <1>2 DEF IInv, TypeOK, QueueTypeOK, queueVars
  <1>4. \A v \in Workers : worker[v].pc \in Owning => worker[v].job # j
    BY DEF IInv, ClaimExclusive
  <1>5. WorkersHold'
    BY <1>1, <1>2, <1>4 DEF IInv, WorkersHold, Owning
  <1>6. ClientsHold'
    BY <1>2 DEF IInv, ClientsHold
  <1>7. ClaimExclusive'
    <2>1. jobs'[j].status = "processing"
      BY <1>2 DEF IInv, TypeOK, Row
    <2> SUFFICES ASSUME NEW u \in Workers, worker'[u].pc \in Owning
                 PROVE  /\ worker'[u].job \in JobId
                        /\ jobs'[worker'[u].job].status = "processing"
                        /\ \A v \in Workers : (/\ worker'[v].pc \in Owning
                                                /\ worker'[v].job = worker'[u].job)
                                                  => v = u
      BY DEF ClaimExclusive, Owns
    <2>2. CASE u = w
      BY <1>1, <1>4, <2>1, <2>2 DEF Owns
    <2>3. CASE u # w
      BY <1>1, <1>2, <1>4, <2>3 DEF IInv, ClaimExclusive, Owns
    <2> QED
      BY <2>2, <2>3
  <1>8. (AttemptAccounting /\ DeadLetterIffExhausted /\ SucceededHasDocument)'
    <2>1. \A i \in JobId : RowOK(jobs[i], docs[i])
      BY RowByRow DEF IInv
    <2>2. RowOK(jobs'[j], docs[j])
      <3>1. /\ jobs'[j].status = "processing"
            /\ jobs'[j].attempt_count = jobs[j].attempt_count + 1
            /\ jobs'[j].retry_count = jobs[j].retry_count
            /\ jobs'[j].max_retries = jobs[j].max_retries
            /\ jobs'[j].dead_lettered = jobs[j].dead_lettered
        BY <1>2 DEF IInv, TypeOK, Row
      <3>2. /\ jobs[j].attempt_count = jobs[j].retry_count
            /\ jobs[j].retry_count <= jobs[j].max_retries
            /\ ~jobs[j].dead_lettered
            /\ jobs[j].retry_count \in Nat /\ jobs[j].max_retries \in Nat
        BY <2>1 DEF RowOK, IInv, TypeOK, Row
      <3> QED
        BY <3>1, <3>2 DEF RowOK
    <2>3. \A i \in JobId : RowOK(jobs'[i], docs'[i])
      BY <1>2, <2>1, <2>2
    <2> QED
      BY <2>3, RowByRowNext
  <1> QED
    BY <1>3, <1>5, <1>6, <1>7, <1>8 DEF IInv

(***************************************************************************)
(* A worker writes the outcome of its attempt in the row it owns, and no   *)
(* longer owns it.                                                         *)
(***************************************************************************)
LEMMA WorkerReleases ==
  ASSUME IInv, NEW w \in Workers, NEW s \in WorkerState,
         NEW j \in JobId, worker[w].pc \in Owning, worker[w].job = j,
         s.pc \in {"idle", "nack"}, s.pc = "nack" => s.job \in JobId,
         jobs' \in [JobId -> Row],
         \A i \in JobId \ {j} : jobs'[i] = jobs[i],
         jobs'[j].status # "absent",
         RowOK(jobs'[j], docs[j]),
         Moves(w, s), UNCHANGED <<queueVars, docs, client>>
  PROVE  IInv'
  <1>1. /\ worker' \in [Workers -> WorkerState]
        /\ worker'[w] = s
        /\ \A v \in Workers \ {w} : worker'[v] = worker[v]
    BY MovesOne DEF IInv, TypeOK
  <1>2. TypeOK'
    BY <1>1 DEF IInv, TypeOK, QueueTypeOK, queueVars
  <1>3. \A v \in Workers \ {w} : worker[v].pc \in Owning => worker[v].job # j
    BY DEF IInv, ClaimExclusive, Owns
  <1>4. WorkersHold'
    BY <1>1, <1>3 DEF IInv, WorkersHold, Owning
  <1>5. ClientsHold'
    <2>1. jobs[j].status = "processing"
      BY DEF IInv, ClaimExclusive
    <2> QED
      BY <2>1 DEF IInv, ClientsHold
  <1>6. ClaimExclusive'
    <2> SUFFICES ASSUME NEW u \in Workers, worker'[u].pc \in Owning
                 PROVE  /\ worker'[u].job \in JobId
                        /\ jobs'[worker'[u].job].status = "processing"
                        /\ \A v \in Workers : (/\ worker'[v].pc \in Owning
                                                /\ worker'[v].job = worker'[u].job)
                                                  => v = u
      BY DEF ClaimExclusive, Owns
    <2>1. u # w
      BY <1>1 DEF Owning
    <2>2. \A v \in Workers : worker'[v].pc \in Owning => v # w
      BY <1>1 DEF Owning
    <2> QED
      BY <1>1, <1>3, <2>1, <2>2 DEF IInv, ClaimExclusive, Owns
  <1>7. (AttemptAccounting /\ DeadLetterIffExhausted /\ SucceededHasDocument)'
    <2>1. \A i \in JobId : RowOK(jobs[i], docs[i])
      BY RowByRow DEF IInv
    <2>2. \A i \in JobId : RowOK(jobs'[i], docs'[i])
      BY <2>1
    <2> QED
      BY <2>2, RowByRowNext
  <1> QED
    BY <1>2, <1>4, <1>5, <1>6, <1>7 DEF IInv

(***************************************************************************)
(* A step of a client that writes no row.                                  *)
(***************************************************************************)
LEMMA ClientGoes ==
  ASSUME IInv, NEW c \in Clients, NEW s \in ClientState,
         s.pc \in {"lookup", "prepare", "insert"} => s.limit \in RetryLimits,
         s.pc \in {"insert", "push"} => s.job \in JobId,
         s.pc = "insert" => s.job \in FreshIds,
         Goes(c, s), UNCHANGED <<jobs, docs, worker>>, QueueTypeOK'
  PROVE  IInv'
  <1>1. /\ client' \in [Clients -> ClientState]
        /\ client'[c] = s
        /\ \A d \in Clients \ {c} : client'[d] = client[d]
    BY GoesOne DEF IInv, TypeOK
  <1>2. TypeOK'
    BY <1>1 DEF IInv, TypeOK
  <1>3. ClientsHold'
    BY <1>1 DEF IInv, ClientsHold, FreshIds
  <1>4. WorkersHold' /\ ClaimExclusive'
    BY DEF IInv, WorkersHold, ClaimExclusive, Owns
  <1>5. (AttemptAccounting /\ DeadLetterIffExhausted /\ SucceededHasDocument)'
    BY RowByRow, RowByRowNext DEF IInv
  <1> QED
    BY <1>2, <1>3, <1>4, <1>5 DEF IInv

(***************************************************************************)
(* The INSERT of a client fills a row nobody works on.                     *)
(***************************************************************************)
LEMMA ClientInserts ==
  ASSUME IInv, NEW c \in Clients, Insert(c)
  PROVE  IInv'
  <1> DEFINE j == client[c].job
             s == [client[c] EXCEPT !.pc = "push"]
  <1>1. /\ client[c] \in ClientState
        /\ client[c].pc = "insert"
        /\ UNCHANGED <<queueVars, docs, worker>>
    BY DEF IInv, TypeOK, Insert
  <1>2. j \in JobId /\ jobs[j].status = "absent"
    BY <1>1 DEF IInv, ClientsHold
  <1>3. s \in ClientState /\ s.pc = "push" /\ s.job = j
    BY <1>1 DEF ClientState, ClientPC
  <1>4. /\ client' \in [Clients -> ClientState]
        /\ client'[c] = s
        /\ \A d \in Clients \ {c} : client'[d] = client[d]
    BY <1>3, GoesOne DEF IInv, TypeOK, Insert
  <1> DEFINE r == NewRow(client[c].key, client[c].blank, client[c].limit)
  <1>5. /\ jobs' \in [JobId -> Row]
        /\ \A i \in JobId \ {j} : jobs'[i] = jobs[i]
        /\ jobs'[j] = r
    <2>1. /\ jobs \in [JobId -> Row]
          /\ InsertJob(j, client[c].key, client[c].blank, client[c].limit)
      BY DEF IInv, TypeOK, Insert
    <2>2. /\ client[c].key \in Keys \cup {NoKey}
          /\ client[c].blank \in BOOLEAN
          /\ client[c].limit \in Nat
      BY <1>1 DEF ClientState
    <2> HIDE DEF j
    <2> QED
      BY <1>2, <2>1, <2>2, InsertWrites
  <1> HIDE DEF j, s
  <1>6. TypeOK'
    BY <1>1, <1>4, <1>5 DEF IInv, TypeOK, QueueTypeOK, queueVars
  <1>7. \A w \in Workers : worker[w].pc \in Owning => worker[w].job # j
    BY <1>2 DEF IInv, ClaimExclusive
  <1>8. WorkersHold'
    BY <1>1, <1>5, <1>7 DEF IInv, WorkersHold, Owning
  <1>9. ClientsHold'
    <2>1. /\ client'[c].pc = "push"
          /\ client'[c].job \in JobId
      BY <1>2, <1>3, <1>4
    <2>2. \A d \in Clients \ {c} : client[d].pc = "insert" => client[d].job # j
      BY <1>1 DEF IInv, ClientsHold, j
    <2> QED
      BY <1>4, <1>5, <2>1, <2>2 DEF IInv, ClientsHold
  <1>10. ClaimExclusive'
    BY <1>1, <1>5, <1>7 DEF IInv, ClaimExclusive, Owns
  <1>11. (AttemptAccounting /\ DeadLetterIffExhausted /\ SucceededHasDocument)'
    <2>1. \A i \in JobId : RowOK(jobs[i], docs[i])
      BY RowByRow DEF IInv
    <2>2. client[c].limit \in Nat
      BY <1>1 DEF ClientState
    <2>3. RowOK(jobs'[j], docs[j])
      BY <1>5, <2>2 DEF RowOK, NewRow
    <2>4. \A i \in JobId : RowOK(jobs'[i], docs'[i])
      BY <1>1, <1>5, <2>1, <2>3
    <2> QED
      BY <2>4, RowByRowNext
  <1> QED
    BY <1>6, <1>8, <1>9, <1>10, <1>11 DEF IInv

(***************************************************************************)
(* Time passing changes nothing the invariant speaks of.                   *)
(***************************************************************************)
LEMMA TickKeeps ==
  ASSUME IInv, Tick
  PROVE  IInv'
  <1>1. /\ jobs' \in [JobId -> Row]
        /\ \A j \in JobId : jobs'[j] = [jobs[j] EXCEPT !.wait = Sooner(@)]
    BY ElapsedWrites DEF IInv, TypeOK, Tick
  <1>2. \A t \in 0..MaxBackoff : Sooner(t) \in 0..MaxBackoff
    BY TableAssumption DEF Sooner
  <1>3. /\ client' \in [Clients -> ClientState]
        /\ \A c \in Clients : client'[c] = [client[c] EXCEPT !.wait = Sooner(@)]
    <2>1. \A r \in ClientState : [r EXCEPT !.wait = Sooner(@)] \in ClientState
      BY <1>2 DEF ClientState
    <2> QED
      BY <2>1 DEF IInv, TypeOK, Tick
  <1>4. /\ worker' \in [Workers -> WorkerState]
        /\ \A w \in Workers : worker'[w] = [worker[w] EXCEPT !.wait = Sooner(@)]
    <2>1. \A r \in WorkerState : [r EXCEPT !.wait = Sooner(@)] \in WorkerState
      BY <1>2 DEF WorkerState
    <2> QED
      BY <2>1 DEF IInv, TypeOK, Tick
  <1>5. docs' = docs /\ QueueTypeOK'
    BY QueueElapsedType DEF IInv, TypeOK, Tick
  <1>6. TypeOK'
    BY <1>1, <1>3, <1>4, <1>5 DEF IInv, TypeOK
  <1>7. \A j \in JobId :
          /\ jobs'[j].status = jobs[j].status
          /\ jobs'[j].retry_count = jobs[j].retry_count
          /\ jobs'[j].attempt_count = jobs[j].attempt_count
          /\ jobs'[j].max_retries = jobs[j].max_retries
          /\ jobs'[j].dead_lettered = jobs[j].dead_lettered
          /\ jobs'[j].blank = jobs[j].blank
          /\ jobs'[j].document = jobs[j].document
    BY <1>1 DEF IInv, TypeOK, Row
  <1>8. \A w \in Workers :
          /\ worker'[w].pc = worker[w].pc
          /\ worker'[w].job = worker[w].job
          /\ worker'[w].retry = worker[w].retry
          /\ worker'[w].doc = worker[w].doc
    BY <1>4 DEF IInv, TypeOK, WorkerState
  <1>9. \A c \in Clients :
          /\ client'[c].pc = client[c].pc
          /\ client'[c].job = client[c].job
          /\ client'[c].limit = client[c].limit
    BY <1>3 DEF IInv, TypeOK, ClientState
  <1>10. WorkersHold'
    BY <1>5, <1>7, <1>8 DEF IInv, WorkersHold, Owning
  <1>11. ClientsHold'
    BY <1>7, <1>9 DEF IInv, ClientsHold
  <1>12. ClaimExclusive'
    BY <1>7, <1>8 DEF IInv, ClaimExclusive, Owns
  <1>13. (AttemptAccounting /\ DeadLetterIffExhausted /\ SucceededHasDocument)'
    <2>1. \A i \in JobId : RowOK(jobs[i], docs[i])
      BY RowByRow DEF IInv
    <2>2. \A i \in JobId : RowOK(jobs'[i], docs'[i])
      BY <1>5, <1>7, <2>1 DEF RowOK
    <2> QED
      BY <2>2, RowByRowNext
  <1> QED
    BY <1>6, <1>10, <1>11, <1>12, <1>13 DEF IInv

-----------------------------------------------------------------------------
(***************************************************************************)
(* The initial state satisfies the invariant.                              *)
(***************************************************************************)
LEMMA InitIInv == Init => IInv
  <1> SUFFICES ASSUME Init PROVE IInv
    OBVIOUS
  <1>1. NoRow \in Row
    <2>1. NewRow(NoKey, FALSE, 0) \in Row
      BY TableAssumption, StatusValues DEF NewRow, Row, NoJob
    <2> QED
      BY <2>1, StatusValues DEF NoRow, Row
  <1>2. jobs = [j \in JobId |-> NoRow] /\ docs = [j \in JobId |-> 0]
    BY DEF Init, TableInit
  <1>3. worker = [w \in Workers |-> IdleWorker] /\ client = [c \in Clients |-> IdleClient]
    BY DEF Init
  <1>4. QueueTypeOK
    BY DEF Init, QueueInit, QueueTypeOK
  <1>5. TypeOK
    BY <1>1, <1>2, <1>3, <1>4, IdleWorkerType, IdleClientType DEF TypeOK
  <1>6. WorkersHold /\ ClaimExclusive
    BY <1>3 DEF WorkersHold, ClaimExclusive, IdleWorker, Owning
  <1>7. ClientsHold
    BY <1>3 DEF ClientsHold, IdleClient
  <1>8. \A j \in JobId : RowOK(jobs[j], docs[j])
    BY <1>2 DEF RowOK, NoRow, NewRow
  <1> QED
    BY <1>5, <1>6, <1>7, <1>8, RowByRow DEF IInv

(***************************************************************************)
(* Every step of a client keeps it.                                        *)
(***************************************************************************)
LEMMA ClientIInv ==
  ASSUME IInv, NEW c \in Clients, Request(c) \/ ClientStep(c) \/ Abandon(c)
  PROVE  IInv'
  <1>0. /\ client[c] \in ClientState /\ QueueTypeOK
        /\ \A j \in JobId : jobs[j].wait \in 0..MaxBackoff
    BY DEF IInv, TypeOK, Row
  <1>1. CASE Request(c)
    <2>1. PICK k \in Keys \cup {NoKey}, b \in BOOLEAN, n \in RetryLimits :
            Goes(c, [IdleClient EXCEPT !.pc = IF k = NoKey THEN "prepare" ELSE "lookup",
                                       !.key = k, !.blank = b, !.limit = n])
      BY <1>1 DEF Request
    <2> DEFINE s == [IdleClient EXCEPT !.pc = IF k = NoKey THEN "prepare" ELSE "lookup",
                                       !.key = k, !.blank = b, !.limit = n]
    <2>2. n \in Nat
      BY TableAssumption
    <2>3. s \in ClientState /\ s.pc \in {"prepare", "lookup"} /\ s.limit \in RetryLimits
      BY <2>2, IdleClientType DEF ClientState, ClientPC, IdleClient
    <2>4. UNCHANGED <<jobs, docs, worker>> /\ QueueTypeOK'
      BY <1>0, <1>1 DEF Request, QueueTypeOK, queueVars
    <2> HIDE DEF s
    <2> QED
      BY <2>1, <2>3, <2>4, ClientGoes DEF s
  <1>2. CASE Lookup(c)
    <2> DEFINE s == IF WithKey(client[c].key) # {} THEN IdleClient
                    ELSE [client[c] EXCEPT !.pc = "prepare"]
    <2>1. Goes(c, s)
      BY <1>2 DEF Lookup
    <2>2. /\ s \in ClientState /\ s.pc \in {"idle", "prepare"}
          /\ s.pc = "prepare" => s.limit \in RetryLimits
      <3>1. client[c].limit \in RetryLimits
        BY <1>2 DEF IInv, ClientsHold, Lookup
      <3> QED
        BY <1>0, <3>1, IdleClientType DEF ClientState, ClientPC, IdleClient
    <2>3. UNCHANGED <<jobs, docs, worker>> /\ QueueTypeOK'
      BY <1>0, <1>2 DEF Lookup, QueueTypeOK, queueVars
    <2> HIDE DEF s
    <2> QED
      BY <2>1, <2>2, <2>3, ClientGoes
  <1>3. CASE Prepare(c)
    <2>1. UNCHANGED <<jobs, docs, worker>> /\ QueueTypeOK'
      BY <1>0, <1>3 DEF Prepare, QueueTypeOK, queueVars
    <2>2. ASSUME NEW j \in WithKey(client[c].key),
                 Goes(c, [client[c] EXCEPT !.pc = "push", !.job = j, !.wait = jobs[j].wait])
          PROVE  IInv'
      <3> DEFINE s == [client[c] EXCEPT !.pc = "push", !.job = j, !.wait = jobs[j].wait]
      <3>1. j \in JobId
        BY DEF WithKey, Present
      <3>2. s \in ClientState /\ s.pc = "push" /\ s.job = j
        BY <1>0, <3>1 DEF ClientState, ClientPC
      <3> HIDE DEF s
      <3> QED
        BY <2>1, <2>2, <3>1, <3>2, ClientGoes DEF s
    <2>3. ASSUME NEW j \in FreshIds,
                 Goes(c, [client[c] EXCEPT !.pc = "insert", !.job = j])
          PROVE  IInv'
      <3> DEFINE s == [client[c] EXCEPT !.pc = "insert", !.job = j]
      <3>1. j \in JobId
        BY DEF FreshIds
      <3>2. /\ s \in ClientState /\ s.pc = "insert" /\ s.job = j
            /\ s.limit \in RetryLimits
        BY <1>0, <1>3, <3>1 DEF IInv, ClientsHold, Prepare, ClientState, ClientPC
      <3> HIDE DEF s
      <3> QED
        BY <2>1, <2>3, <3>1, <3>2, ClientGoes DEF s
    <2> QED
      BY <1>3, <2>2, <2>3 DEF Prepare
  <1>4. CASE Insert(c)
    BY <1>4, ClientInserts
  <1>5. CASE Push(c) \/ Abandon(c)
    <2>1. Goes(c, IdleClient) /\ UNCHANGED <<jobs, docs, worker>>
      BY <1>5 DEF Push, Abandon
    <2>2. QueueTypeOK'
      <3>1. CASE UNCHANGED queueVars
        BY <1>0, <3>1 DEF QueueTypeOK, queueVars
      <3>2. CASE Push(c) /\ Enqueue(client[c].job, client[c].wait)
        <4>1. client[c].job \in Refs
          BY <3>2, ServiceAssumption DEF IInv, ClientsHold, Push
        <4>2. client[c].wait \in Nat
          BY <1>0, TableAssumption DEF ClientState
        <4> QED
          BY <1>0, <3>2, <4>1, <4>2, EnqueueType
      <3> QED
        BY <1>5, <3>1, <3>2 DEF Push, Abandon
    <2> QED
      BY <2>1, <2>2, IdleClientType, ClientGoes DEF IdleClient
  <1> QED
    BY <1>1, <1>2, <1>3, <1>4, <1>5 DEF ClientStep

(***************************************************************************)
(* Every step of a worker keeps it: first those that write no row and hold *)
(* no job afterwards.                                                      *)
(***************************************************************************)
LEMMA WorkerPolls ==
  ASSUME IInv, NEW w \in Workers,
         ReadDue(w) \/ Promote(w) \/ Pop(w) \/ NackJob(w) \/ Die(w) \/ Restart(w)
  PROVE  IInv'
  <1>0. /\ worker[w] \in WorkerState /\ QueueTypeOK
        /\ Refs = JobId
    BY ServiceAssumption DEF IInv, TypeOK
  <1>1. CASE ReadDue(w)
    <2> DEFINE s == [IdleWorker EXCEPT !.pc = IF DueRefs = {} THEN "pop" ELSE "promote",
                                       !.due = DueRefs]
    <2>1. Moves(w, s) /\ UNCHANGED <<jobs, docs, client>> /\ QueueTypeOK'
      BY <1>0, <1>1 DEF ReadDue, QueueTypeOK, queueVars
    <2>2. DueRefs \in SUBSET JobId
      BY <1>0 DEF DueRefs
    <2>3. s \in WorkerState /\ s.pc \in {"pop", "promote"}
      BY <2>2, IdleWorkerType DEF WorkerState, WorkerPC, IdleWorker
    <2> HIDE DEF s
    <2> QED
      BY <2>1, <2>3, WorkerLeaves DEF Owning
  <1>2. CASE Promote(w)
    <2> DEFINE s == [IdleWorker EXCEPT !.pc = "pop"]
    <2>1. Moves(w, s) /\ UNCHANGED <<jobs, docs, client>>
      BY <1>2 DEF Promote
    <2>2. QueueTypeOK'
      BY <1>0, <1>2, PromoteType DEF Promote, WorkerState
    <2>3. s \in WorkerState /\ s.pc = "pop"
      BY IdleWorkerType DEF WorkerState, WorkerPC, IdleWorker
    <2> HIDE DEF s
    <2> QED
      BY <2>1, <2>2, <2>3, WorkerLeaves DEF Owning
  <1>3. CASE Pop(w)
    <2>1. UNCHANGED <<jobs, docs, client>>
      BY <1>3 DEF Pop
    <2>2. CASE PopRef /\ Moves(w, [IdleWorker EXCEPT !.pc = "claimById", !.job = Head(ready)])
      <3> DEFINE s == [IdleWorker EXCEPT !.pc = "claimById", !.job = Head(ready)]
      <3>1. QueueTypeOK' /\ Head(ready) \in JobId
        BY <1>0, <2>2, PopType
      <3>2. s \in WorkerState /\ s.pc = "claimById" /\ s.job \in JobId
        BY <3>1, IdleWorkerType DEF WorkerState, WorkerPC, IdleWorker
      <3> HIDE DEF s
      <3> QED
        BY <2>1, <2>2, <3>1, <3>2, WorkerLeaves DEF s, Owning
    <2>3. CASE Moves(w, IdleWorker) /\ UNCHANGED queueVars
      <3>1. QueueTypeOK'
        BY <1>0, <2>3 DEF QueueTypeOK, queueVars
      <3>2. IdleWorker.pc = "idle"
        BY DEF IdleWorker
      <3> QED
        BY <2>1, <2>3, <3>1, <3>2, IdleWorkerType, WorkerLeaves DEF Owning
    <2> QED
      BY <1>3, <2>2, <2>3 DEF Pop
  <1>4. CASE NackJob(w)
    <2>1. Moves(w, IdleWorker) /\ UNCHANGED <<jobs, docs, client>>
      BY <1>4 DEF NackJob
    <2>2. QueueTypeOK'
      <3>1. CASE UNCHANGED queueVars
        BY <1>0, <3>1 DEF QueueTypeOK, queueVars
      <3>2. CASE Nack(worker[w].job, worker[w].wait, worker[w].dead)
        <4>1. worker[w].job \in Refs
          BY <1>0, <1>4 DEF IInv, WorkersHold, NackJob
        <4>2. worker[w].wait \in Nat
          BY <1>0, TableAssumption DEF WorkerState
        <4> QED
          BY <1>0, <3>2, <4>1, <4>2, NackType
      <3> QED
        BY <1>4, <3>1, <3>2 DEF NackJob
    <2>3. IdleWorker.pc = "idle"
      BY DEF IdleWorker
    <2> QED
      BY <2>1, <2>2, <2>3, IdleWorkerType, WorkerLeaves DEF Owning
  <1>5. CASE Die(w) \/ Restart(w)
    <2> DEFINE d == [IdleWorker EXCEPT !.pc = "dead"]
    <2>1. /\ Moves(w, d) \/ Moves(w, IdleWorker)
          /\ UNCHANGED <<jobs, docs, client>> /\ QueueTypeOK'
      BY <1>0, <1>5 DEF Die, Restart, QueueTypeOK, queueVars
    <2>2. d \in WorkerState /\ d.pc = "dead" /\ IdleWorker.pc = "idle"
      BY IdleWorkerType DEF WorkerState, WorkerPC, IdleWorker
    <2> HIDE DEF d
    <2> QED
      BY <2>1, <2>2, IdleWorkerType, WorkerLeaves DEF Owning
  <1> QED
    BY <1>1, <1>2, <1>3, <1>4, <1>5

(***************************************************************************)
(* A claim by either route keeps the invariant.                            *)
(***************************************************************************)
LEMMA WorkerClaiming ==
  ASSUME IInv, NEW w \in Workers, ClaimById(w) \/ ClaimNext(w)
  PROVE  IInv'
  <1>0. /\ worker[w] \in WorkerState /\ QueueTypeOK'
        /\ UNCHANGED <<queueVars, docs, client>>
    BY DEF IInv, TypeOK, ClaimById, ClaimNext, QueueTypeOK, queueVars
  <1>1. CASE ClaimById(w)
    <2>1. worker[w].job \in JobId
      BY <1>1 DEF IInv, WorkersHold, ClaimById
    <2>2. CASE ClaimableById(worker[w].job)
      <3> DEFINE s == [worker[w] EXCEPT !.pc = "ingest"]
      <3>1. s \in WorkerState /\ s.pc = "ingest" /\ s.job = worker[w].job
        BY <1>0 DEF WorkerState, WorkerPC, Owning
      <3>2. ClaimSelectedRow(worker[w].job) /\ Moves(w, s)
        BY <1>1, <2>2 DEF ClaimById
      <3>3. jobs[worker[w].job].status = "queued"
        BY <2>2 DEF ClaimableById
      <3> HIDE DEF s
      <3> QED
        BY <1>0, <2>1, <3>1, <3>2, <3>3, WorkerClaims
    <2>3. CASE ~ClaimableById(worker[w].job)
      <3> DEFINE s == [IdleWorker EXCEPT !.pc = "claimNext"]
      <3>1. s \in WorkerState /\ s.pc = "claimNext"
        BY IdleWorkerType DEF WorkerState, WorkerPC, IdleWorker
      <3>2. Moves(w, s) /\ UNCHANGED jobs
        BY <1>1, <2>3 DEF ClaimById
      <3> HIDE DEF s
      <3> QED
        BY <1>0, <3>1, <3>2, WorkerLeaves DEF Owning
    <2> QED
      BY <2>2, <2>3
  <1>2. CASE ClaimNext(w)
    <2>1. ASSUME NEW j \in DueJobs, ClaimSelectedRow(j),
                 Moves(w, [IdleWorker EXCEPT !.pc = "ingest", !.job = j])
          PROVE  IInv'
      <3> DEFINE s == [IdleWorker EXCEPT !.pc = "ingest", !.job = j]
      <3>1. j \in JobId /\ jobs[j].status = "queued"
        BY DEF DueJobs
      <3>2. s \in WorkerState /\ s.pc = "ingest" /\ s.job = j
        BY <3>1, IdleWorkerType DEF WorkerState, WorkerPC, Owning, IdleWorker
      <3> HIDE DEF s
      <3> QED
        BY <1>0, <2>1, <3>1, <3>2, WorkerClaims DEF s
    <2>2. CASE Moves(w, IdleWorker) /\ UNCHANGED jobs
      <3>1. IdleWorker.pc = "idle"
        BY DEF IdleWorker
      <3> QED
        BY <1>0, <2>2, <3>1, IdleWorkerType, WorkerLeaves DEF Owning
    <2> QED
      BY <1>2, <2>1, <2>2 DEF ClaimNext
  <1> QED
    BY <1>1, <1>2

(***************************************************************************)
(* So do the ingestion, an exception in it and the first half of           *)
(* mark_job_failed.                                                        *)
(***************************************************************************)
LEMMA WorkerWorks ==
  ASSUME IInv, NEW w \in Workers, Ingest(w) \/ AttemptRaises(w) \/ FailRead(w)
  PROVE  IInv'
  <1> DEFINE j == worker[w].job
  <1>0. /\ worker[w] \in WorkerState /\ docs \in [JobId -> Nat]
        /\ worker[w].pc \in Owning
    BY DEF IInv, TypeOK, Ingest, AttemptRaises, FailRead, Owning
  <1>1. j \in JobId
    BY <1>0 DEF IInv, WorkersHold
  <1>2. UNCHANGED <<jobs, queueVars, client>>
    BY DEF Ingest, AttemptRaises, FailRead
  <1>3. \A i \in JobId : docs[i] <= docs[i]
    BY <1>0
  <1>4. CASE Ingest(w) /\ jobs[j].blank
    <2> DEFINE s == [worker[w] EXCEPT !.pc = "failRead"]
    <2>1. s \in WorkerState /\ s.pc = "failRead" /\ s.job = j
      BY <1>0 DEF WorkerState, WorkerPC, Owning
    <2>2. Moves(w, s) /\ docs' = docs
      BY <1>4 DEF Ingest
    <2> HIDE DEF s
    <2> QED
      BY <1>0, <1>2, <1>3, <2>1, <2>2, WorkerKeeps DEF Owning
  <1>5. CASE Ingest(w) /\ ~jobs[j].blank
    <2> DEFINE s == [worker[w] EXCEPT !.pc = "markSucceeded", !.doc = docs[j] + 1]
    <2>1. docs[j] + 1 \in Nat
      BY <1>0, <1>1
    <2>2. /\ s \in WorkerState /\ s.pc = "markSucceeded" /\ s.job = j
          /\ s.doc = docs[j] + 1
      BY <1>0, <2>1 DEF WorkerState, WorkerPC, Owning
    <2>3. Moves(w, s) /\ docs' = [docs EXCEPT ![j] = docs[j] + 1]
      BY <1>5 DEF Ingest
    <2>4. /\ docs' \in [JobId -> Nat]
          /\ \A i \in JobId : docs[i] <= docs'[i]
          /\ s.doc \in 1..docs'[j]
      BY <1>0, <1>1, <2>1, <2>2, <2>3
    <2> HIDE DEF s
    <2> QED
      BY <1>0, <1>2, <1>5, <2>2, <2>3, <2>4, WorkerKeeps DEF Owning
  <1>6. CASE AttemptRaises(w)
    <2> DEFINE s == [worker[w] EXCEPT !.pc = "failRead", !.doc = NoJob]
    <2>1. s \in WorkerState /\ s.pc = "failRead" /\ s.job = j
      BY <1>0 DEF WorkerState, WorkerPC, Owning, NoJob
    <2>2. Moves(w, s) /\ docs' = docs
      BY <1>6 DEF AttemptRaises
    <2> HIDE DEF s
    <2> QED
      BY <1>0, <1>2, <1>3, <2>1, <2>2, WorkerKeeps DEF Owning
  <1>7. CASE FailRead(w)
    <2> DEFINE n == jobs[j].retry_count + 1
               s == [worker[w] EXCEPT !.pc = "failWrite", !.retry = n, !.wait = Backoff(n)]
    <2>1. n \in Nat /\ Backoff(n) \in 0..MaxBackoff
      BY <1>1, BackoffBound DEF IInv, TypeOK, Row
    <2>2. s \in WorkerState /\ s.pc = "failWrite" /\ s.job = j /\ s.retry = n
      BY <1>0, <2>1 DEF WorkerState, WorkerPC, Owning
    <2>3. Moves(w, s) /\ docs' = docs
      BY <1>7 DEF FailRead
    <2> HIDE DEF s
    <2> QED
      BY <1>0, <1>2, <1>3, <2>2, <2>3, WorkerKeeps DEF Owning
  <1> QED
    BY <1>4, <1>5, <1>6, <1>7

(***************************************************************************)
(* So does writing the outcome.                                            *)
(***************************************************************************)
LEMMA WorkerReports ==
  ASSUME IInv, NEW w \in Workers, MarkSucceeded(w) \/ FailWrite(w)
  PROVE  IInv'
  <1> DEFINE j == worker[w].job
  <1>0. /\ worker[w] \in WorkerState /\ jobs \in [JobId -> Row]
        /\ worker[w].pc \in Owning
        /\ UNCHANGED <<queueVars, docs, client>>
    BY DEF IInv, TypeOK, MarkSucceeded, FailWrite, Owning
  <1>1. j \in JobId /\ jobs[j].status = "processing" /\ jobs[j] \in Row
    BY <1>0 DEF IInv, ClaimExclusive
  <1>2. /\ jobs[j].attempt_count = jobs[j].retry_count + 1
        /\ jobs[j].retry_count <= jobs[j].max_retries
        /\ jobs[j].retry_count \in Nat /\ jobs[j].max_retries \in Nat
    BY <1>1 DEF IInv, AttemptAccounting, DeadLetterIffExhausted, Row
  <1>3. CASE MarkSucceeded(w)
    <2> DEFINE d == worker[w].doc
    <2>1. d \in Nat /\ d \in 1..docs[j] /\ ~jobs[j].blank
      BY <1>0, <1>3 DEF IInv, WorkersHold, MarkSucceeded, WorkerState
    <2>2. MarkJobSucceeded(j, d) /\ Moves(w, IdleWorker)
      BY <1>3 DEF MarkSucceeded
    <2>3. /\ jobs' \in [JobId -> Row]
          /\ \A i \in JobId \ {j} : jobs'[i] = jobs[i]
          /\ jobs'[j] = [jobs[j] EXCEPT !.status = "succeeded", !.document = d,
                                        !.dead_lettered = FALSE]
      <3> HIDE DEF j, d
      <3> QED
        BY <1>0, <1>1, <2>1, <2>2, SuccessWrites
    <2>4. /\ jobs'[j].status = "succeeded" /\ jobs'[j].document = d
          /\ jobs'[j].dead_lettered = FALSE /\ jobs'[j].blank = jobs[j].blank
          /\ jobs'[j].attempt_count = jobs[j].attempt_count
          /\ jobs'[j].retry_count = jobs[j].retry_count
          /\ jobs'[j].max_retries = jobs[j].max_retries
      BY <1>1, <2>3 DEF Row
    <2>5. RowOK(jobs'[j], docs[j])
      BY <1>2, <2>1, <2>4 DEF RowOK
    <2>6. IdleWorker.pc = "idle"
      BY DEF IdleWorker
    <2> QED
      BY <1>0, <1>1, <2>2, <2>3, <2>4, <2>5, <2>6, IdleWorkerType, WorkerReleases
  <1>4. CASE FailWrite(w)
    <2> DEFINE n == worker[w].retry
               s == [worker[w] EXCEPT !.pc = "nack", !.dead = ~Retryable(j, n)]
    <2>1. /\ n = jobs[j].retry_count + 1 /\ n \in Nat
          /\ worker[w].wait \in 0..MaxBackoff
      BY <1>0, <1>4 DEF IInv, WorkersHold, FailWrite, WorkerState
    <2>2. MarkJobFailed(j, n, worker[w].wait) /\ Moves(w, s)
      BY <1>4 DEF FailWrite
    <2>3. s \in WorkerState /\ s.pc = "nack" /\ s.job = j
      <3>1. (~Retryable(j, n)) \in BOOLEAN
        OBVIOUS
      <3> QED
        BY <1>0, <3>1 DEF WorkerState, WorkerPC
    <2>4. /\ jobs' \in [JobId -> Row]
          /\ \A i \in JobId \ {j} : jobs'[i] = jobs[i]
          /\ Retryable(j, n) =>
               jobs'[j] = [jobs[j] EXCEPT !.status = "queued", !.retry_count = n,
                                          !.wait = worker[w].wait, !.dead_lettered = FALSE]
          /\ ~Retryable(j, n) =>
               jobs'[j] = [jobs[j] EXCEPT !.status = "failed", !.retry_count = n,
                                          !.wait = 0, !.dead_lettered = TRUE]
      <3> DEFINE d == worker[w].wait
      <3>1. MarkJobFailed(j, n, d) /\ n \in Nat /\ d \in 0..MaxBackoff
        BY <2>1, <2>2
      <3> HIDE DEF j, n, d
      <3>2. /\ jobs' \in [JobId -> Row]
            /\ \A i \in JobId \ {j} : jobs'[i] = jobs[i]
            /\ Retryable(j, n) =>
                 jobs'[j] = [jobs[j] EXCEPT !.status = "queued", !.retry_count = n,
                                            !.wait = d, !.dead_lettered = FALSE]
            /\ ~Retryable(j, n) =>
                 jobs'[j] = [jobs[j] EXCEPT !.status = "failed", !.retry_count = n,
                                            !.wait = 0, !.dead_lettered = TRUE]
        BY <1>0, <1>1, <3>1, FailureWrites
      <3> QED
        BY <3>2 DEF d
    <2>5. /\ jobs'[j].retry_count = n
          /\ jobs'[j].attempt_count = jobs[j].attempt_count
          /\ jobs'[j].max_retries = jobs[j].max_retries
          /\ Retryable(j, n) => jobs'[j].status = "queued" /\ ~jobs'[j].dead_lettered
          /\ ~Retryable(j, n) => jobs'[j].status = "failed" /\ jobs'[j].dead_lettered
      BY <1>1, <2>4 DEF Row
    <2>6. RowOK(jobs'[j], docs[j]) /\ jobs'[j].status # "absent"
      BY <1>2, <2>1, <2>5 DEF RowOK, Retryable
    <2> HIDE DEF s
    <2> QED
      BY <1>0, <1>1, <2>2, <2>3, <2>4, <2>6, WorkerReleases
  <1> QED
    BY <1>3, <1>4

(***************************************************************************)
(* The invariant is inductive.                                             *)
(***************************************************************************)
LEMMA NextIInv == IInv /\ [Next]_vars => IInv'
  <1> SUFFICES ASSUME IInv, [Next]_vars PROVE IInv'
    OBVIOUS
  <1>1. ASSUME NEW c \in Clients, Request(c) \/ ClientStep(c) \/ Abandon(c)
        PROVE  IInv'
    BY <1>1, ClientIInv
  <1>2. ASSUME NEW w \in Workers,
               WorkerStep(w) \/ AttemptRaises(w) \/ Die(w) \/ Restart(w)
        PROVE  IInv'
    BY <1>2, WorkerPolls, WorkerClaiming, WorkerWorks, WorkerReports DEF WorkerStep
  <1>3. CASE Tick
    BY <1>3, TickKeeps
  <1>4. CASE UNCHANGED vars
    BY <1>4 DEF vars, IInv, TypeOK, QueueTypeOK, WorkersHold, ClientsHold, ClaimExclusive,
                Owns, AttemptAccounting, DeadLetterIffExhausted, SucceededHasDocument
  <1> QED
    BY <1>1, <1>2, <1>3, <1>4 DEF Next

(***************************************************************************)
(* In every reachable state of every instance, whatever fails: types, one  *)
(* owner per job, exact attempt counts, a dead letter exactly when the     *)
(* budget is spent, and a stored document behind every success.            *)
(***************************************************************************)
THEOREM Safety == Spec => []IInv
  BY InitIInv, NextIInv, PTL DEF Spec

(***************************************************************************)
(* Every variable of the pipeline keeps its type.                          *)
(***************************************************************************)
THEOREM TypeCorrect == Spec => []TypeOK
  <1>1. IInv => TypeOK
    BY DEF IInv
  <1> QED
    BY <1>1, Safety, PTL

(***************************************************************************)
(* No two workers ever attempt the same job at the same time.              *)
(***************************************************************************)
THEOREM Exclusive == Spec => []ClaimExclusive
  <1>1. IInv => ClaimExclusive
    BY DEF IInv
  <1> QED
    BY <1>1, Safety, PTL

(***************************************************************************)
(* attempt_count and retry_count agree with the history of the job.        *)
(***************************************************************************)
THEOREM Accounted == Spec => []AttemptAccounting
  <1>1. IInv => AttemptAccounting
    BY DEF IInv
  <1> QED
    BY <1>1, Safety, PTL

(***************************************************************************)
(* A job is dead-lettered exactly when its retries are spent, by           *)
(* mark_job_failed and nobody else.                                        *)
(***************************************************************************)
THEOREM DeadLettered == Spec => []DeadLetterIffExhausted
  <1>1. IInv => DeadLetterIffExhausted
    BY DEF IInv
  <1> QED
    BY <1>1, Safety, PTL

(***************************************************************************)
(* A job that is reported as succeeded has a committed document.           *)
(***************************************************************************)
THEOREM Documented == Spec => []SucceededHasDocument
  <1>1. IInv => SucceededHasDocument
    BY DEF IInv
  <1> QED
    BY <1>1, Safety, PTL

-----------------------------------------------------------------------------
(***************************************************************************)
(* What a step does to the table: nothing but let time pass, or one of the *)
(* four moves of a job's life, on one row.                                 *)
(***************************************************************************)
Unchanging(i) ==
  /\ jobs'[i].status = jobs[i].status
  /\ jobs'[i].retry_count = jobs[i].retry_count
  /\ jobs'[i].attempt_count = jobs[i].attempt_count
  /\ jobs'[i].max_retries = jobs[i].max_retries
  /\ jobs'[i].dead_lettered = jobs[i].dead_lettered
  /\ jobs'[i].key = jobs[i].key
  /\ jobs'[i].blank = jobs[i].blank
  /\ jobs'[i].document = jobs[i].document

RowMove(j) ==
  \/ /\ jobs[j].status = "absent"
     /\ jobs'[j].status = "queued"
     /\ jobs'[j].max_retries \in RetryLimits
     /\ jobs'[j].attempt_count = 0 /\ jobs'[j].retry_count = 0
     /\ \E c \in Clients : Insert(c) /\ client[c].job = j
  \/ /\ jobs[j].status = "queued"
     /\ jobs'[j].status = "processing"
     /\ jobs'[j].key = jobs[j].key
     /\ \E w \in Workers : ClaimById(w) \/ ClaimNext(w)
     /\ jobs'[j].max_retries = jobs[j].max_retries
     /\ jobs'[j].attempt_count = jobs[j].attempt_count + 1
     /\ jobs'[j].retry_count = jobs[j].retry_count
  \/ /\ jobs[j].status = "processing"
     /\ jobs'[j].status = "succeeded"
     /\ jobs'[j].key = jobs[j].key
     /\ \E w \in Workers : MarkSucceeded(w) /\ worker[w].job = j
     /\ jobs'[j].max_retries = jobs[j].max_retries
     /\ jobs'[j].attempt_count = jobs[j].attempt_count
     /\ jobs'[j].retry_count = jobs[j].retry_count
  \/ /\ jobs[j].status = "processing"
     /\ jobs'[j].status = IF jobs[j].retry_count < jobs[j].max_retries
                          THEN "queued" ELSE "failed"
     /\ jobs'[j].key = jobs[j].key
     /\ \E w \in Workers : FailWrite(w) /\ worker[w].job = j
     /\ jobs'[j].max_retries = jobs[j].max_retries
     /\ jobs'[j].attempt_count = jobs[j].attempt_count
     /\ jobs'[j].retry_count = jobs[j].retry_count + 1

OneMove == \E j \in JobId : RowMove(j) /\ \A i \in JobId \ {j} : jobs'[i] = jobs[i]

(***************************************************************************)
(* A claim is the move of a job from queued to processing.                 *)
(***************************************************************************)
LEMMA ClaimMove ==
  ASSUME IInv, NEW j \in JobId, jobs[j].status = "queued", ClaimSelectedRow(j),
         NEW w \in Workers, ClaimById(w) \/ ClaimNext(w)
  PROVE  OneMove
  <1>1. /\ \A i \in JobId \ {j} : jobs'[i] = jobs[i]
        /\ jobs'[j] = [jobs[j] EXCEPT !.status = "processing",
                         !.attempt_count = jobs[j].attempt_count + 1]
    BY ClaimWrites DEF IInv, TypeOK
  <1>2. jobs[j] \in Row
    BY DEF IInv, TypeOK
  <1>3. RowMove(j)
    BY <1>1, <1>2 DEF RowMove, Row
  <1> QED
    BY <1>1, <1>3 DEF OneMove

(***************************************************************************)
(* Every step of the pipeline leaves the rows alone or moves one.          *)
(***************************************************************************)
LEMMA TableStep ==
  ASSUME IInv, [Next]_vars
  PROVE  (\A i \in JobId : Unchanging(i)) \/ OneMove
  <1>0. jobs \in [JobId -> Row]
    BY DEF IInv, TypeOK
  <1>1. CASE UNCHANGED jobs
    BY <1>1 DEF Unchanging
  <1>2. ASSUME NEW c \in Clients, Insert(c)
        PROVE  OneMove
    <2> DEFINE j == client[c].job
    <2>1. /\ j \in JobId /\ jobs[j].status = "absent"
          /\ client[c] \in ClientState
          /\ client[c].limit \in RetryLimits
      BY <1>2 DEF IInv, TypeOK, ClientsHold, Insert
    <2>2. /\ client[c].key \in Keys \cup {NoKey}
          /\ client[c].blank \in BOOLEAN
          /\ client[c].limit \in Nat
      BY <2>1 DEF ClientState
    <2>3. InsertJob(j, client[c].key, client[c].blank, client[c].limit)
      BY <1>2 DEF Insert
    <2>4. /\ \A i \in JobId \ {j} : jobs'[i] = jobs[i]
          /\ jobs'[j] = NewRow(client[c].key, client[c].blank, client[c].limit)
      <3> HIDE DEF j
      <3> QED
        BY <1>0, <2>1, <2>2, <2>3, InsertWrites
    <2>5. RowMove(j)
      BY <1>2, <2>1, <2>4 DEF RowMove, NewRow
    <2> QED
      BY <2>1, <2>4, <2>5 DEF OneMove
  <1>3. ASSUME NEW w \in Workers, ClaimById(w) \/ ClaimNext(w)
        PROVE  OneMove \/ UNCHANGED jobs
    <2>1. CASE ClaimById(w)
      <3>1. worker[w].job \in JobId
        BY <2>1 DEF IInv, WorkersHold, ClaimById
      <3> QED
        BY <2>1, <3>1, ClaimMove DEF ClaimById, ClaimableById
    <2>2. CASE ClaimNext(w)
      <3>1. ASSUME NEW j \in DueJobs, ClaimSelectedRow(j) PROVE OneMove
        BY <2>2, <3>1, ClaimMove DEF DueJobs
      <3> QED
        BY <2>2, <3>1 DEF ClaimNext
    <2> QED
      BY <1>3, <2>1, <2>2
  <1>4. ASSUME NEW w \in Workers, MarkSucceeded(w) \/ FailWrite(w)
        PROVE  OneMove
    <2> DEFINE j == worker[w].job
    <2>1. /\ worker[w] \in WorkerState /\ worker[w].pc \in Owning
      BY <1>4 DEF IInv, TypeOK, MarkSucceeded, FailWrite, Owning
    <2>2. j \in JobId /\ jobs[j].status = "processing" /\ jobs[j] \in Row
      BY <1>0, <2>1 DEF IInv, ClaimExclusive
    <2>3. CASE MarkSucceeded(w)
      <3> DEFINE d == worker[w].doc
      <3>1. MarkJobSucceeded(j, d) /\ d \in Nat
        BY <2>1, <2>3 DEF MarkSucceeded, WorkerState
      <3>2. /\ \A i \in JobId \ {j} : jobs'[i] = jobs[i]
            /\ jobs'[j] = [jobs[j] EXCEPT !.status = "succeeded", !.document = d,
                                          !.dead_lettered = FALSE]
        <4> HIDE DEF j, d
        <4> QED
          BY <1>0, <2>2, <3>1, SuccessWrites
      <3>3. RowMove(j)
        BY <2>2, <2>3, <3>2 DEF RowMove, Row
      <3> QED
        BY <2>2, <3>2, <3>3 DEF OneMove
    <2>4. CASE FailWrite(w)
      <3> DEFINE n == worker[w].retry
                 d == worker[w].wait
      <3>0. n = jobs[j].retry_count + 1
        BY <2>4 DEF IInv, WorkersHold, FailWrite
      <3>1. MarkJobFailed(j, n, d) /\ n \in Nat /\ d \in 0..MaxBackoff
        BY <2>1, <2>4 DEF FailWrite, WorkerState
      <3>2. /\ jobs' \in [JobId -> Row]
            /\ \A i \in JobId \ {j} : jobs'[i] = jobs[i]
            /\ Retryable(j, n) =>
                 jobs'[j] = [jobs[j] EXCEPT !.status = "queued", !.retry_count = n,
                                            !.wait = d, !.dead_lettered = FALSE]
            /\ ~Retryable(j, n) =>
                 jobs'[j] = [jobs[j] EXCEPT !.status = "failed", !.retry_count = n,
                                            !.wait = 0, !.dead_lettered = TRUE]
        <4> HIDE DEF j, n, d
        <4> QED
          BY <1>0, <2>2, <3>1, FailureWrites
      <3>3. /\ jobs'[j].retry_count = n
            /\ jobs'[j].attempt_count = jobs[j].attempt_count
            /\ jobs'[j].max_retries = jobs[j].max_retries
            /\ jobs'[j].key = jobs[j].key
            /\ jobs'[j].status = IF Retryable(j, n) THEN "queued" ELSE "failed"
        <4> HIDE DEF j, n, d
        <4>1. CASE Retryable(j, n)
          <5>1. jobs'[j] = [jobs[j] EXCEPT !.status = "queued", !.retry_count = n,
                                           !.wait = d, !.dead_lettered = FALSE]
            BY <3>2, <4>1
          <5> QED
            BY <2>2, <4>1, <5>1 DEF Row
        <4>2. CASE ~Retryable(j, n)
          <5>1. jobs'[j] = [jobs[j] EXCEPT !.status = "failed", !.retry_count = n,
                                           !.wait = 0, !.dead_lettered = TRUE]
            BY <3>2, <4>2
          <5> QED
            BY <2>2, <4>2, <5>1 DEF Row
        <4> QED
          BY <4>1, <4>2
      <3>4. Retryable(j, n) <=> jobs[j].retry_count < jobs[j].max_retries
        BY <2>2, <3>0 DEF Retryable, Row
      <3>5. RowMove(j)
        BY <2>2, <2>4, <3>0, <3>3, <3>4 DEF RowMove
      <3> QED
        BY <2>2, <3>2, <3>5 DEF OneMove
    <2> QED
      BY <1>4, <2>3, <2>4
  <1>5. CASE Tick
    <2>1. \A j \in JobId : jobs'[j] = [jobs[j] EXCEPT !.wait = Sooner(@)]
      BY <1>0, <1>5, ElapsedWrites DEF Tick
    <2>2. ASSUME NEW j \in JobId PROVE Unchanging(j)
      <3>1. jobs[j] \in Row /\ jobs'[j] = [jobs[j] EXCEPT !.wait = Sooner(jobs[j].wait)]
        BY <1>0, <2>1
      <3> QED
        BY <3>1 DEF Unchanging, Row
    <2> QED
      BY <2>2
  <1>6. ASSUME NEW c \in Clients,
               Request(c) \/ Lookup(c) \/ Prepare(c) \/ Push(c) \/ Abandon(c)
        PROVE  UNCHANGED jobs
    BY <1>6 DEF Request, Lookup, Prepare, Push, Abandon
  <1>7. ASSUME NEW w \in Workers,
               \/ ReadDue(w) \/ Promote(w) \/ Pop(w) \/ Ingest(w) \/ FailRead(w)
               \/ NackJob(w) \/ AttemptRaises(w) \/ Die(w) \/ Restart(w)
        PROVE  UNCHANGED jobs
    BY <1>7 DEF ReadDue, Promote, Pop, Ingest, FailRead, NackJob, AttemptRaises, Die, Restart
  <1>8. CASE UNCHANGED vars
    BY <1>1, <1>8 DEF vars
  <1> QED
    BY <1>1, <1>2, <1>3, <1>4, <1>5, <1>6, <1>7, <1>8 DEF Next, ClientStep, WorkerStep

(***************************************************************************)
(* The outcome of a job never changes once it is known.                    *)
(***************************************************************************)
THEOREM Final == Spec => TerminalFinal
  <1>1. ASSUME IInv, IInv', [Next]_vars, NEW j \in JobId, jobs[j].status \in Terminal
        PROVE  [jobs'[j] EXCEPT !.wait = 0] = [jobs[j] EXCEPT !.wait = 0]
    <2>1. jobs[j] \in Row /\ jobs'[j] \in Row
      BY <1>1 DEF IInv, TypeOK
    <2>2. CASE Unchanging(j)
      BY <2>1, <2>2 DEF Unchanging, Row
    <2>3. CASE OneMove
      <3>1. ~RowMove(j)
        BY <1>1 DEF RowMove, Terminal
      <3>2. jobs'[j] = jobs[j]
        BY <2>3, <3>1 DEF OneMove
      <3> QED
        BY <3>2
    <2> QED
      BY <1>1, <2>2, <2>3, TableStep
  <1>2. IInv /\ IInv' /\ [Next]_vars =>
          [\A j \in JobId : jobs[j].status \in Terminal =>
             [jobs'[j] EXCEPT !.wait = 0] = [jobs[j] EXCEPT !.wait = 0]]_vars
    BY <1>1
  <1> QED
    BY <1>2, Safety, PTL DEF Spec, TerminalFinal

(***************************************************************************)
(* The move of one row is a step of the life cycle of that job.            *)
(***************************************************************************)
LEMMA LifeCycleMove ==
  ASSUME IInv, OneMove
  PROVE  LifeCycle!LifeNext
  <1>1. PICK j \in JobId : RowMove(j) /\ \A i \in JobId \ {j} : jobs'[i] = jobs[i]
    BY DEF OneMove
  <1> DEFINE old == Lives[j]
             new == LifeOf(j)'
  <1>2. LifeCycle!Become(j, new)
    BY <1>1 DEF Lives, LifeOf, LifeCycle!Become
  <1>3. /\ old.status = jobs[j].status
        /\ old.limit = jobs[j].max_retries
        /\ old.attempts = jobs[j].attempt_count
        /\ old.failures = jobs[j].retry_count
    BY DEF Lives, LifeOf
  <1>4. new = LifeCycle!Stage(jobs'[j].status, jobs'[j].max_retries,
                              jobs'[j].attempt_count, jobs'[j].retry_count)
    BY DEF LifeOf, LifeCycle!Stage
  <1> HIDE DEF new
  <1>5. CASE jobs[j].status = "absent"
    <2>1. PICK n \in RetryLimits : new = LifeCycle!Stage("queued", n, 0, 0)
      BY <1>1, <1>4, <1>5 DEF RowMove
    <2>2. LifeCycle!Submit(j)
      BY <1>2, <1>3, <1>5, <2>1 DEF LifeCycle!Submit
    <2> QED
      BY <2>2 DEF LifeCycle!LifeNext
  <1>6. CASE jobs[j].status = "queued"
    <2>1. new = LifeCycle!Stage("processing", old.limit, old.attempts + 1, old.failures)
      BY <1>1, <1>3, <1>4, <1>6 DEF RowMove
    <2>2. LifeCycle!Begin(j)
      BY <1>2, <1>3, <1>6, <2>1 DEF LifeCycle!Begin
    <2> QED
      BY <2>2 DEF LifeCycle!LifeNext
  <1>7. CASE jobs[j].status = "processing" /\ jobs'[j].status = "succeeded"
    <2>1. new = LifeCycle!Stage("succeeded", old.limit, old.attempts, old.failures)
      BY <1>1, <1>3, <1>4, <1>7 DEF RowMove
    <2>2. LifeCycle!Succeed(j)
      BY <1>2, <1>3, <1>7, <2>1 DEF LifeCycle!Succeed
    <2> QED
      BY <2>2 DEF LifeCycle!LifeNext
  <1>8. CASE jobs[j].status = "processing" /\ jobs'[j].status # "succeeded"
    <2>1. new = LifeCycle!Stage(IF old.failures < old.limit THEN "queued" ELSE "failed",
                                old.limit, old.attempts, old.failures + 1)
      BY <1>1, <1>3, <1>4, <1>8 DEF RowMove
    <2>2. LifeCycle!Fail(j)
      BY <1>2, <1>3, <1>8, <2>1 DEF LifeCycle!Fail
    <2> QED
      BY <2>2 DEF LifeCycle!LifeNext
  <1> QED
    BY <1>1, <1>5, <1>6, <1>7, <1>8 DEF RowMove

(***************************************************************************)
(* The pipeline implements the life cycle of JobLifecycle: with any number *)
(* of clients and workers, any backends and any fault, each step is one    *)
(* move of one job or changes no job.                                      *)
(***************************************************************************)
THEOREM Refinement == Spec => ImplementsLifecycle
  <1>1. Init => LifeCycle!LifeInit
    BY DEF Init, TableInit, NoRow, NewRow, Lives, LifeOf, LifeCycle!LifeInit, LifeCycle!Stage
  <1>2. ASSUME IInv, [Next]_vars
        PROVE  [LifeCycle!LifeNext]_Lives
    <2>1. CASE \A i \in JobId : Unchanging(i)
      <3>1. Lives' = Lives
        BY <2>1 DEF Lives, LifeOf, Unchanging
      <3> QED
        BY <3>1
    <2>2. CASE OneMove
      BY <1>2, <2>2, LifeCycleMove
    <2> QED
      BY <1>2, <2>1, <2>2, TableStep
  <1>3. IInv /\ [Next]_vars => [LifeCycle!LifeNext]_Lives
    BY <1>2
  <1> QED
    BY <1>1, <1>3, Safety, PTL DEF Spec, ImplementsLifecycle, LifeCycle!LifeSpec
=============================================================================
