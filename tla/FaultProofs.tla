---------------------------- MODULE FaultProofs ----------------------------
(***************************************************************************)
(* What the pipeline still guarantees when things fail: how often a        *)
(* payload can be stored, how many jobs a key can have, and which faults   *)
(* it takes for a job or a dead letter to be left behind.                  *)
(***************************************************************************)
EXTENDS DeliveryProofs

-----------------------------------------------------------------------------
(* Stored at most once per attempt.                                        *)

(***************************************************************************)
(* The attempt that is about to store a document has been counted, and has *)
(* not stored one; a row that is not there yet has no documents.           *)
(***************************************************************************)
AttemptOpen ==
  /\ \A w \in Workers : worker[w].pc = "ingest" =>
       docs[worker[w].job] < jobs[worker[w].job].attempt_count
  /\ \A j \in JobId : docs[j] <= jobs[j].attempt_count
  /\ \A j \in JobId : jobs[j].status = "absent" => docs[j] = 0

(***************************************************************************)
(* A row that is there stays, and its count of attempts never goes down.    *)
(***************************************************************************)
LEMMA AttemptsGrow ==
  ASSUME IInv, [Next]_vars, NEW j \in JobId
  PROVE  jobs[j].status # "absent" =>
           /\ jobs'[j].status # "absent"
           /\ jobs'[j].attempt_count >= jobs[j].attempt_count
  <1>1. jobs[j] \in Row
    BY DEF IInv, TypeOK
  <1>2. jobs[j].attempt_count \in Nat
    BY <1>1 DEF Row
  <1>3. CASE Unchanging(j)
    BY <1>2, <1>3 DEF Unchanging
  <1>4. CASE RowMove(j)
    BY <1>2, <1>4 DEF RowMove
  <1>5. CASE jobs'[j] = jobs[j]
    BY <1>2, <1>5 DEF Unchanging
  <1> QED
    BY <1>3, <1>4, <1>5, TableStep DEF OneMove

(***************************************************************************)
(* A step that commits nothing and starts no attempt.                      *)
(***************************************************************************)
LEMMA QuietAttempts ==
  ASSUME IInv, [Next]_vars, AttemptOpen, docs' = docs,
         \A w \in Workers : worker'[w].pc = "ingest" =>
           worker[w].pc = "ingest" /\ worker'[w].job = worker[w].job
  PROVE  AttemptOpen'
  <1>1. /\ docs \in [JobId -> Nat] /\ jobs \in [JobId -> Row]
        /\ \A j \in JobId : jobs[j].attempt_count \in Nat
    BY DEF IInv, TypeOK, Row
  <1>2. IInv'
    BY NextIInv
  <1>3. \A j \in JobId : jobs'[j].attempt_count \in Nat
    BY <1>2 DEF IInv, TypeOK, Row
  <1>4. \A w \in Workers : worker[w].pc = "ingest" =>
          worker[w].job \in JobId /\ jobs[worker[w].job].status = "processing"
    BY DEF IInv, ClaimExclusive, Owning
  <1>5. ASSUME NEW j \in JobId
        PROVE  docs'[j] <= jobs'[j].attempt_count
    BY <1>1, <1>3, <1>5, AttemptsGrow DEF AttemptOpen
  <1>6. ASSUME NEW j \in JobId, jobs'[j].status = "absent"
        PROVE  docs'[j] = 0
    BY <1>6, AttemptsGrow DEF AttemptOpen
  <1>7. ASSUME NEW w \in Workers, worker'[w].pc = "ingest"
        PROVE  docs'[worker'[w].job] < jobs'[worker'[w].job].attempt_count
    <2>1. PICK j \in JobId : /\ j = worker[w].job /\ j = worker'[w].job
                             /\ jobs[j].status = "processing"
                             /\ worker[w].pc = "ingest"
      BY <1>4, <1>7
    <2>2. docs[j] < jobs[j].attempt_count
      BY <2>1 DEF AttemptOpen
    <2>3. jobs'[j].attempt_count >= jobs[j].attempt_count
      BY <2>1, AttemptsGrow
    <2> QED
      BY <1>1, <1>3, <2>1, <2>2, <2>3
  <1> QED
    BY <1>5, <1>6, <1>7 DEF AttemptOpen

(***************************************************************************)
(* A claim counts its attempt before anything is stored for it.            *)
(***************************************************************************)
LEMMA ClaimAttempts ==
  ASSUME IInv, [Next]_vars, AttemptOpen,
         NEW w \in Workers, NEW j \in JobId, jobs[j].status = "queued",
         ClaimSelectedRow(j), docs' = docs,
         NEW s, s.pc = "ingest", s.job = j, Moves(w, s)
  PROVE  AttemptOpen'
  <1>1. /\ docs \in [JobId -> Nat] /\ jobs \in [JobId -> Row]
        /\ \A i \in JobId : jobs[i].attempt_count \in Nat
    BY DEF IInv, TypeOK, Row
  <1>2. /\ \A i \in JobId \ {j} : jobs'[i] = jobs[i]
        /\ jobs'[j] = [jobs[j] EXCEPT !.status = "processing",
                         !.attempt_count = jobs[j].attempt_count + 1]
    BY <1>1, ClaimWrites
  <1>3. jobs'[j].status = "processing" /\ jobs'[j].attempt_count = jobs[j].attempt_count + 1
    BY <1>1, <1>2 DEF Row
  <1>4. /\ worker'[w] = s
        /\ \A v \in Workers \ {w} : worker'[v] = worker[v]
    BY WorkerMoves
  <1>5. \A v \in Workers : worker[v].pc = "ingest" =>
          worker[v].job \in JobId /\ worker[v].job # j
    BY DEF IInv, ClaimExclusive, Owning
  <1>6. ASSUME NEW i \in JobId
        PROVE  /\ docs'[i] <= jobs'[i].attempt_count
               /\ jobs'[i].status = "absent" => docs'[i] = 0
    <2>1. CASE i = j
      <3>1. docs[i] <= jobs[i].attempt_count
        BY DEF AttemptOpen
      <3> QED
        BY <1>1, <1>3, <2>1, <3>1
    <2>2. CASE i # j
      BY <1>2, <2>2 DEF AttemptOpen
    <2> QED
      BY <2>1, <2>2
  <1>7. ASSUME NEW v \in Workers, worker'[v].pc = "ingest"
        PROVE  docs'[worker'[v].job] < jobs'[worker'[v].job].attempt_count
    <2>1. CASE v = w
      BY <1>1, <1>3, <1>4, <2>1 DEF AttemptOpen
    <2>2. CASE v # w
      BY <1>2, <1>4, <1>5, <1>7, <2>2 DEF AttemptOpen
    <2> QED
      BY <2>1, <2>2
  <1> QED
    BY <1>6, <1>7 DEF AttemptOpen

(***************************************************************************)
(* The commit of a document uses the attempt up.                           *)
(***************************************************************************)
LEMMA IngestAttempts ==
  ASSUME IInv, AttemptOpen, NEW w \in Workers, Ingest(w)
  PROVE  AttemptOpen'
  <1> DEFINE i == worker[w].job
  <1>1. /\ i \in JobId /\ jobs[i].status = "processing" /\ jobs' = jobs
        /\ docs \in [JobId -> Nat] /\ worker[w] \in WorkerState
        /\ \A j \in JobId : jobs[j].attempt_count \in Nat
        /\ docs[i] < jobs[i].attempt_count
    BY DEF IInv, TypeOK, Row, ClaimExclusive, Ingest, Owning, AttemptOpen
  <1>2. /\ worker'[w].pc # "ingest"
        /\ \A v \in Workers \ {w} : worker'[v] = worker[v]
    <2>1. \E s : s.pc # "ingest" /\ Moves(w, s)
      BY <1>1 DEF Ingest, WorkerState
    <2> QED
      BY <2>1, WorkerMoves
  <1>3. \A v \in Workers \ {w} : worker[v].pc = "ingest" => worker[v].job # i
    <2>1. worker[w].pc = "ingest"
      BY DEF Ingest
    <2> QED
      BY <2>1 DEF IInv, ClaimExclusive, Owns, Owning
  <1>4. \A v \in Workers : worker[v].pc = "ingest" => worker[v].job \in JobId
    BY DEF IInv, ClaimExclusive, Owning
  <1>5. /\ docs'[i] <= docs[i] + 1
        /\ \A j \in JobId \ {i} : docs'[j] = docs[j]
        /\ docs' \in [JobId -> Nat]
    BY <1>1 DEF Ingest
  <1> HIDE DEF i
  <1>6. \A j \in JobId : docs'[j] <= jobs[j].attempt_count
    <2> SUFFICES ASSUME NEW j \in JobId PROVE docs'[j] <= jobs[j].attempt_count
      OBVIOUS
    <2>1. CASE j = i
      BY <1>1, <1>5, <2>1
    <2>2. CASE j # i
      BY <1>5, <2>2 DEF AttemptOpen
    <2> QED
      BY <2>1, <2>2
  <1>7. \A j \in JobId : jobs[j].status = "absent" => docs'[j] = 0
    BY <1>1, <1>5 DEF AttemptOpen
  <1>8. \A v \in Workers : worker'[v].pc = "ingest" =>
          docs'[worker'[v].job] < jobs[worker'[v].job].attempt_count
    BY <1>2, <1>3, <1>4, <1>5 DEF AttemptOpen
  <1> QED
    BY <1>1, <1>6, <1>7, <1>8 DEF AttemptOpen

(***************************************************************************)
(* Every step keeps the books.                                             *)
(***************************************************************************)
LEMMA NextAttempts ==
  ASSUME IInv, [Next]_vars, AttemptOpen
  PROVE  AttemptOpen'
  <1>1. ASSUME docs' = docs, worker' = worker PROVE AttemptOpen'
    BY <1>1, QuietAttempts
  <1>2. ASSUME NEW c \in Clients, Request(c) \/ ClientStep(c) \/ Abandon(c)
        PROVE  docs' = docs /\ worker' = worker
    BY <1>2 DEF Request, ClientStep, Lookup, Prepare, Insert, Push, Abandon
  <1>3. ASSUME NEW w \in Workers,
               \/ ReadDue(w) \/ Promote(w) \/ Pop(w) \/ MarkSucceeded(w) \/ FailRead(w)
               \/ FailWrite(w) \/ NackJob(w) \/ AttemptRaises(w) \/ Die(w) \/ Restart(w)
        PROVE  AttemptOpen'
    <2>1. worker[w] \in WorkerState
      BY DEF IInv, TypeOK
    <2>2. docs' = docs
      BY <1>3 DEF ReadDue, Promote, Pop, MarkSucceeded, FailRead, FailWrite, NackJob,
                  AttemptRaises, Die, Restart
    <2>3. \E s : s.pc # "ingest" /\ Moves(w, s)
      <3>1. CASE ReadDue(w) \/ Promote(w) \/ Pop(w)
        BY <3>1 DEF ReadDue, Promote, Pop, IdleWorker
      <3>2. CASE MarkSucceeded(w) \/ FailRead(w) \/ FailWrite(w) \/ NackJob(w)
        BY <2>1, <3>2 DEF MarkSucceeded, FailRead, FailWrite, NackJob, IdleWorker, WorkerState
      <3>3. CASE AttemptRaises(w) \/ Die(w) \/ Restart(w)
        BY <2>1, <3>3 DEF AttemptRaises, Die, Restart, IdleWorker, WorkerState
      <3> QED
        BY <1>3, <3>1, <3>2, <3>3
    <2>4. worker'[w].pc # "ingest" /\ \A v \in Workers \ {w} : worker'[v] = worker[v]
      BY <2>3, WorkerMoves
    <2> QED
      BY <2>2, <2>4, QuietAttempts
  <1>4. ASSUME NEW w \in Workers, ClaimById(w)
        PROVE  AttemptOpen'
    <2>1. /\ worker[w] \in WorkerState /\ worker[w].job \in JobId /\ docs' = docs
      BY <1>4 DEF IInv, TypeOK, WorkersHold, ClaimById
    <2>2. CASE ClaimableById(worker[w].job)
      <3> DEFINE s == [worker[w] EXCEPT !.pc = "ingest"]
      <3>1. s.pc = "ingest" /\ s.job = worker[w].job /\ Moves(w, s)
        BY <1>4, <2>1, <2>2 DEF ClaimById, WorkerState
      <3>2. PICK t : t = s
        OBVIOUS
      <3> QED
        BY <1>4, <2>1, <2>2, <3>1, <3>2, ClaimAttempts DEF ClaimById, ClaimableById
    <2>3. CASE ~ClaimableById(worker[w].job)
      <3>1. \E s : s.pc # "ingest" /\ Moves(w, s)
        BY <1>4, <2>3 DEF ClaimById, IdleWorker
      <3> QED
        BY <2>1, <3>1, WorkerMoves, QuietAttempts
    <2> QED
      BY <2>2, <2>3
  <1>5. ASSUME NEW w \in Workers, ClaimNext(w)
        PROVE  AttemptOpen'
    <2>1. docs' = docs
      BY <1>5 DEF ClaimNext
    <2>2. ASSUME NEW j \in DueJobs, ClaimSelectedRow(j),
                 Moves(w, [IdleWorker EXCEPT !.pc = "ingest", !.job = j])
          PROVE  AttemptOpen'
      <3>1. PICK s : s = [IdleWorker EXCEPT !.pc = "ingest", !.job = j]
        OBVIOUS
      <3>2. s.pc = "ingest" /\ s.job = j
        BY <3>1 DEF IdleWorker
      <3> QED
        BY <2>1, <2>2, <3>1, <3>2, ClaimAttempts DEF DueJobs
    <2>3. CASE Moves(w, IdleWorker)
      <3>1. IdleWorker.pc # "ingest"
        BY DEF IdleWorker
      <3> QED
        BY <2>1, <2>3, <3>1, WorkerMoves, QuietAttempts
    <2> QED
      BY <1>5, <2>2, <2>3 DEF ClaimNext
  <1>6. ASSUME NEW w \in Workers, Ingest(w)
        PROVE  AttemptOpen'
    BY <1>6, IngestAttempts
  <1>7. CASE Tick
    <2>1. docs' = docs
      BY <1>7 DEF Tick
    <2> QED
      BY <1>7, <2>1, TickMoves, QuietAttempts
  <1>8. CASE UNCHANGED vars
    BY <1>1, <1>8 DEF vars
  <1> QED
    BY <1>1, <1>2, <1>3, <1>4, <1>5, <1>6, <1>7, <1>8 DEF Next, WorkerStep

(***************************************************************************)
(* Whatever fails, a payload is stored at most once per attempt, and a job *)
(* has at most one attempt more than its retries.                          *)
(***************************************************************************)
THEOREM StoredBounded == Spec => []StoredWithinBudget
  <1>1. Init => AttemptOpen
    BY DEF Init, TableInit, NoRow, NewRow, IdleWorker, AttemptOpen
  <1>2. IInv /\ AttemptOpen /\ [Next]_vars => AttemptOpen'
    BY NextAttempts
  <1>3. IInv /\ AttemptOpen => StoredWithinBudget
    <2> SUFFICES ASSUME IInv, AttemptOpen, NEW j \in JobId
                 PROVE  jobs[j].attempt_count <= jobs[j].max_retries + 1
      BY DEF AttemptOpen, StoredWithinBudget
    <2>1. jobs[j] \in Row
      BY DEF IInv, TypeOK
    <2> QED
      BY <2>1 DEF IInv, AttemptAccounting, DeadLetterIffExhausted, Row
  <1> QED
    BY <1>1, <1>2, <1>3, Safety, PTL DEF Spec

-----------------------------------------------------------------------------
(* Who is left alone.                                                      *)

(***************************************************************************)
(* Every attempt that the table shows is somebody's.                       *)
(***************************************************************************)
AttemptsOwned ==
  \A j \in JobId : jobs[j].status = "processing" => \E w \in Workers : Owns(w, j)

(***************************************************************************)
(* mark_job_succeeded and mark_job_failed end the attempt they report.     *)
(***************************************************************************)
LEMMA ReportsEnd ==
  ASSUME IInv, NEW w \in Workers, MarkSucceeded(w) \/ FailWrite(w)
  PROVE  jobs'[worker[w].job].status # "processing"
  <1>1. /\ worker[w] \in WorkerState /\ worker[w].pc \in Owning
        /\ jobs \in [JobId -> Row]
    BY DEF IInv, TypeOK, MarkSucceeded, FailWrite, Owning
  <1>2. PICK j : j = worker[w].job
    OBVIOUS
  <1>3. j \in JobId /\ jobs[j] \in Row
    BY <1>1, <1>2 DEF IInv, ClaimExclusive
  <1>4. CASE MarkSucceeded(w)
    <2>1. PICK d \in Nat : MarkJobSucceeded(j, d)
      BY <1>1, <1>2, <1>4 DEF MarkSucceeded, WorkerState
    <2>2. jobs'[j] = [jobs[j] EXCEPT !.status = "succeeded", !.document = d,
                                     !.dead_lettered = FALSE]
      BY <1>1, <1>3, <2>1, SuccessWrites
    <2> QED
      BY <1>2, <1>3, <2>2 DEF Row
  <1>5. CASE FailWrite(w)
    <2>1. PICK n \in Nat, d \in 0..MaxBackoff : MarkJobFailed(j, n, d)
      BY <1>1, <1>2, <1>5 DEF FailWrite, WorkerState
    <2>2. /\ jobs' \in [JobId -> Row]
          /\ \A i \in JobId \ {j} : jobs'[i] = jobs[i]
          /\ Retryable(j, n) =>
               jobs'[j] = [jobs[j] EXCEPT !.status = "queued", !.retry_count = n,
                                          !.wait = d, !.dead_lettered = FALSE]
          /\ ~Retryable(j, n) =>
               jobs'[j] = [jobs[j] EXCEPT !.status = "failed", !.retry_count = n,
                                          !.wait = 0, !.dead_lettered = TRUE]
      BY <1>1, <1>3, <2>1, FailureWrites
    <2> QED
      BY <1>2, <1>3, <2>2 DEF Row
  <1> QED
    BY <1>4, <1>5

(***************************************************************************)
(* A step of one worker leaves the others where they are.                  *)
(***************************************************************************)
LEMMA OthersStay ==
  ASSUME IInv, NEW w \in Workers, NEW v \in Workers, v # w,
         WorkerStep(v) \/ AttemptRaises(v) \/ Die(v) \/ Restart(v)
  PROVE  worker'[w] = worker[w]
  <1>1. \E s : Moves(v, s)
    <2>0. CASE ClaimById(v) \/ ClaimNext(v)
      BY <2>0 DEF ClaimById, ClaimNext
    <2>1. CASE ReadDue(v) \/ Promote(v) \/ Pop(v)
      BY <2>1 DEF ReadDue, Promote, Pop
    <2>2. CASE Ingest(v) \/ MarkSucceeded(v) \/ FailRead(v) \/ FailWrite(v) \/ NackJob(v)
      BY <2>2 DEF Ingest, MarkSucceeded, FailRead, FailWrite, NackJob
    <2>3. CASE AttemptRaises(v) \/ Die(v) \/ Restart(v)
      BY <2>3 DEF AttemptRaises, Die, Restart
    <2> QED
      BY <2>0, <2>1, <2>2, <2>3 DEF WorkerStep
  <1> QED
    BY <1>1, WorkerMoves

(***************************************************************************)
(* Where no process crashes and no transaction fails, a worker keeps its   *)
(* job until it has reported it.                                           *)
(***************************************************************************)
LEMMA OwnersStay ==
  ASSUME IInv, [Next]_vars, Faults \cap {"crash", "db"} = {},
         NEW j \in JobId, NEW w \in Workers, Owns(w, j), jobs'[j].status = "processing"
  PROVE  Owns(w, j)'
  <1>1. /\ worker[w] \in WorkerState /\ worker[w].pc \in Owning /\ worker[w].job = j
    BY DEF IInv, TypeOK, Owns
  <1>2. ASSUME worker'[w].pc = worker[w].pc, worker'[w].job = worker[w].job
        PROVE  Owns(w, j)'
    BY <1>1, <1>2 DEF Owns
  <1>3. ASSUME NEW c \in Clients, Request(c) \/ ClientStep(c) \/ Abandon(c)
        PROVE  worker' = worker
    BY <1>3 DEF Request, ClientStep, Lookup, Prepare, Insert, Push, Abandon
  <1>4. ASSUME NEW v \in Workers, v # w,
               WorkerStep(v) \/ AttemptRaises(v) \/ Die(v) \/ Restart(v)
        PROVE  worker'[w] = worker[w]
    BY <1>4, OthersStay
  <1>5. ASSUME Ingest(w) \/ FailRead(w) \/ AttemptRaises(w)
        PROVE  Owns(w, j)'
    <2>1. \E s : s.pc \in Owning /\ s.job = j /\ Moves(w, s)
      BY <1>1, <1>5 DEF Ingest, FailRead, AttemptRaises, WorkerState, Owning
    <2> QED
      BY <2>1, WorkerMoves DEF Owns
  <1>6. ~(MarkSucceeded(w) \/ FailWrite(w))
    BY <1>1, ReportsEnd
  <1>7. ~(\/ ReadDue(w) \/ Promote(w) \/ Pop(w) \/ ClaimById(w) \/ ClaimNext(w)
          \/ NackJob(w) \/ Restart(w))
    BY <1>1 DEF ReadDue, Promote, Pop, ClaimById, ClaimNext, AtClaimNext, NackJob, Restart, Owning
  <1>8. ~Die(w)
    BY <1>1 DEF Die, AtClaimNext, Owning
  <1>9. CASE Tick
    BY <1>2, <1>9, TickMoves
  <1>10. CASE UNCHANGED vars
    BY <1>2, <1>10 DEF vars
  <1>11. ASSUME NEW c \in Clients, Request(c) \/ ClientStep(c) \/ Abandon(c)
         PROVE  Owns(w, j)'
    BY <1>2, <1>3, <1>11
  <1>12. ASSUME NEW v \in Workers, WorkerStep(v) \/ AttemptRaises(v) \/ Die(v) \/ Restart(v)
         PROVE  Owns(w, j)'
    <2>1. CASE v = w
      BY <1>5, <1>6, <1>7, <1>8, <1>12, <2>1 DEF WorkerStep
    <2>2. CASE v # w
      BY <1>2, <1>4, <1>12, <2>2
    <2> QED
      BY <2>1, <2>2
  <1> QED
    BY <1>9, <1>10, <1>11, <1>12 DEF Next

(***************************************************************************)
(* A new attempt is that of the worker that claimed the job.               *)
(***************************************************************************)
LEMMA ClaimersOwn ==
  ASSUME IInv, [Next]_vars, NEW j \in JobId,
         jobs[j].status # "processing", jobs'[j].status = "processing"
  PROVE  \E w \in Workers : Owns(w, j)'
  <1>1. OneMove
    BY TableStep DEF Unchanging
  <1>2. RowMove(j)
    BY <1>1 DEF OneMove
  <1>3. PICK w \in Workers : ClaimById(w) \/ ClaimNext(w)
    BY <1>2 DEF RowMove
  <1>4. jobs \in [JobId -> Row] /\ worker[w] \in WorkerState
    BY DEF IInv, TypeOK
  <1>5. ASSUME NEW i \in JobId, ClaimSelectedRow(i),
               NEW s, s.pc = "ingest", s.job = i, Moves(w, s)
        PROVE  Owns(w, j)'
    <2>1. i = j
      <3>1. \A k \in JobId \ {i} : jobs'[k] = jobs[k]
        BY <1>4, <1>5, ClaimWrites
      <3> QED
        BY <3>1
    <2> QED
      BY <1>5, <2>1, WorkerMoves DEF Owns, Owning
  <1>6. CASE ClaimById(w)
    <2>1. worker[w].job \in JobId
      BY <1>6 DEF IInv, WorkersHold, ClaimById
    <2>2. ClaimSelectedRow(worker[w].job) /\ Moves(w, [worker[w] EXCEPT !.pc = "ingest"])
      BY <1>6 DEF ClaimById
    <2>3. PICK s : s = [worker[w] EXCEPT !.pc = "ingest"]
      OBVIOUS
    <2>4. s.pc = "ingest" /\ s.job = worker[w].job
      BY <1>4, <2>3 DEF WorkerState
    <2> QED
      BY <1>5, <2>1, <2>2, <2>3, <2>4
  <1>7. CASE ClaimNext(w)
    <2>1. PICK i \in DueJobs : /\ ClaimSelectedRow(i)
                               /\ Moves(w, [IdleWorker EXCEPT !.pc = "ingest", !.job = i])
      BY <1>7 DEF ClaimNext
    <2>2. PICK s : s = [IdleWorker EXCEPT !.pc = "ingest", !.job = i]
      OBVIOUS
    <2>3. s.pc = "ingest" /\ s.job = i
      BY <2>2 DEF IdleWorker
    <2> QED
      BY <1>5, <2>1, <2>2, <2>3 DEF DueJobs
  <1> QED
    BY <1>3, <1>6, <1>7

(***************************************************************************)
(* A row is left at "processing" by a crash or a failing transaction, and  *)
(* by nothing else: not by a document that cannot be ingested, nor by a    *)
(* Redis that does not answer.                                             *)
(***************************************************************************)
THEOREM NoneAbandoned ==
  ASSUME Faults \cap {"crash", "db"} = {}
  PROVE  Spec => []AttemptsOwned
  <1>1. Init => AttemptsOwned
    BY DEF Init, TableInit, NoRow, NewRow, AttemptsOwned
  <1>2. ASSUME IInv, AttemptsOwned, [Next]_vars, NEW j \in JobId,
               jobs'[j].status = "processing"
        PROVE  \E w \in Workers : Owns(w, j)'
    BY <1>2, OwnersStay, ClaimersOwn DEF AttemptsOwned
  <1>3. IInv /\ AttemptsOwned /\ [Next]_vars => AttemptsOwned'
    BY <1>2 DEF AttemptsOwned
  <1> QED
    BY <1>1, <1>3, Safety, PTL DEF Spec

-----------------------------------------------------------------------------
(* How many jobs a key can have.                                           *)

(***************************************************************************)
(* A key has no more jobs than requests that can be under way at a time.   *)
(***************************************************************************)
JobsPerKey == \A k \in Keys : Cardinality(WithKey(k)) <= Cardinality(Clients)

(***************************************************************************)
(* The requests that have found the key k missing and will insert it: each *)
(* may become one more row, and none joins them once there is a row.       *)
(***************************************************************************)
Inserters(k) == {c \in Clients : client[c].pc = "insert" /\ client[c].key = k}

KeyRoom == \A k \in Keys :
  /\ IsFiniteSet(WithKey(k))
  /\ Cardinality(WithKey(k)) + Cardinality(Inserters(k)) <= Cardinality(Clients)

(***************************************************************************)
(* A set of requests is finite, and no larger than all of them.            *)
(***************************************************************************)
LEMMA FewRequests ==
  ASSUME IsFiniteSet(Clients)
  PROVE  \A S \in SUBSET Clients :
           /\ IsFiniteSet(S) /\ Cardinality(S) \in Nat
           /\ Cardinality(S) <= Cardinality(Clients)
  BY FS_Subset, FS_CardinalityType

(***************************************************************************)
(* No row joins a key, and no request its inserters unless there is room.  *)
(***************************************************************************)
LEMMA QuietRoom ==
  ASSUME IInv, KeyRoom, IsFiniteSet(Clients), NEW k \in Keys,
         WithKey(k)' = WithKey(k),
         WithKey(k) # {} => Inserters(k)' \subseteq Inserters(k)
  PROVE  /\ IsFiniteSet(WithKey(k)')
         /\ Cardinality(WithKey(k)') + Cardinality(Inserters(k)') <= Cardinality(Clients)
  <1>1. /\ Inserters(k) \in SUBSET Clients /\ Inserters(k)' \in SUBSET Clients
        /\ Cardinality(Inserters(k)) \in Nat /\ Cardinality(Inserters(k)') \in Nat
        /\ Cardinality(Inserters(k)') <= Cardinality(Clients)
        /\ IsFiniteSet(Inserters(k))
        /\ Cardinality(Clients) \in Nat
    BY FewRequests DEF Inserters
  <1>2. IsFiniteSet(WithKey(k)) /\ Cardinality(WithKey(k)) \in Nat
    BY FS_CardinalityType DEF KeyRoom
  <1>3. CASE WithKey(k) = {}
    BY <1>1, <1>2, <1>3, FS_EmptySet
  <1>4. CASE WithKey(k) # {}
    <2>1. Cardinality(Inserters(k)') <= Cardinality(Inserters(k))
      BY <1>1, <1>4, FS_Subset
    <2> QED
      BY <1>1, <1>2, <2>1 DEF KeyRoom
  <1> QED
    BY <1>3, <1>4

(***************************************************************************)
(* An insert turns an inserter into a row.                                 *)
(***************************************************************************)
LEMMA InsertRoom ==
  ASSUME IInv, [Next]_vars, KeyRoom, IsFiniteSet(Clients), NEW c \in Clients, Insert(c)
  PROVE  KeyRoom'
  <1>1. PICK i : i = client[c].job
    OBVIOUS
  <1>2. /\ i \in JobId /\ client[c] \in ClientState /\ jobs \in [JobId -> Row]
        /\ client[c].pc = "insert" /\ jobs[i].status = "absent"
    BY <1>1 DEF IInv, TypeOK, ClientsHold, Insert
  <1>3. /\ jobs'[i].key = client[c].key /\ jobs'[i].status = "queued"
        /\ \A j \in JobId \ {i} : jobs'[j] = jobs[j]
    <2>1. jobs' = [jobs EXCEPT ![i] = NewRow(client[c].key, client[c].blank, client[c].limit)]
      BY <1>1 DEF Insert, InsertJob
    <2> QED
      BY <1>2, <2>1 DEF NewRow
  <1>4. client'[c].pc = "push" /\ \A d \in Clients \ {c} : client'[d] = client[d]
    <2>1. /\ client'[c] = [client[c] EXCEPT !.pc = "push"]
          /\ \A d \in Clients \ {c} : client'[d] = client[d]
      BY GoesOne DEF Insert, Goes, IInv, TypeOK
    <2> QED
      BY <1>2, <2>1 DEF ClientState
  <1> SUFFICES ASSUME NEW k \in Keys
               PROVE  /\ IsFiniteSet(WithKey(k)')
                      /\ Cardinality(WithKey(k)') + Cardinality(Inserters(k)')
                           <= Cardinality(Clients)
    BY DEF KeyRoom
  <1>5. Inserters(k)' = Inserters(k) \ {c}
    BY <1>4 DEF Inserters
  <1>6. CASE k = client[c].key
    <2>1. WithKey(k)' = WithKey(k) \cup {i} /\ i \notin WithKey(k)
      BY <1>2, <1>3, <1>6, TableAssumption DEF WithKey, Present
    <2>2. c \in Inserters(k)
      BY <1>2, <1>6 DEF Inserters
    <2>3. /\ IsFiniteSet(Inserters(k)) /\ Cardinality(Inserters(k)) \in Nat
          /\ IsFiniteSet(WithKey(k)) /\ Cardinality(WithKey(k)) \in Nat
          /\ Cardinality(Clients) \in Nat
      BY FewRequests, FS_CardinalityType DEF KeyRoom, Inserters
    <2>4. Cardinality(Inserters(k)') = Cardinality(Inserters(k)) - 1
      BY <1>5, <2>2, <2>3, FS_RemoveElement
    <2>5. /\ IsFiniteSet(WithKey(k)')
          /\ Cardinality(WithKey(k)') = Cardinality(WithKey(k)) + 1
      BY <2>1, <2>3, FS_AddElement
    <2> QED
      BY <2>3, <2>4, <2>5 DEF KeyRoom
  <1>7. CASE k # client[c].key
    <2>1. WithKey(k)' = WithKey(k)
      BY <1>2, <1>3, <1>7 DEF WithKey, Present
    <2> QED
      BY <1>5, <2>1, QuietRoom
  <1> QED
    BY <1>6, <1>7

(***************************************************************************)
(* Without an insert the rows of a key stay what they are, and the only    *)
(* requests that come to an insert have found none.                        *)
(***************************************************************************)
LEMMA RestRoom ==
  ASSUME IInv, [Next]_vars, KeyRoom, IsFiniteSet(Clients), ~\E c \in Clients : Insert(c)
  PROVE  KeyRoom'
  <1> SUFFICES ASSUME NEW k \in Keys
               PROVE  /\ IsFiniteSet(WithKey(k)')
                      /\ Cardinality(WithKey(k)') + Cardinality(Inserters(k)')
                           <= Cardinality(Clients)
    BY DEF KeyRoom
  <1>1. WithKey(k)' = WithKey(k)
    <2>1. Present' = Present /\ \A j \in Present : jobs'[j].key = jobs[j].key
      BY KeysStay DEF Present
    <2> QED
      BY <2>1 DEF WithKey
  <1>2. ASSUME \A c \in Clients : client'[c].pc = client[c].pc /\ client'[c].key = client[c].key
        PROVE  Inserters(k)' = Inserters(k)
    BY <1>2 DEF Inserters
  <1>3. ASSUME NEW c \in Clients, Request(c) \/ Lookup(c) \/ Prepare(c) \/ Push(c) \/ Abandon(c)
        PROVE  WithKey(k) # {} => Inserters(k)' \subseteq Inserters(k)
    <2>1. PICK s : Goes(c, s) /\ (s.pc = "insert" => WithKey(s.key) = {})
      BY <1>3, RequestMoves
    <2>2. client'[c] = s /\ \A d \in Clients \ {c} : client'[d] = client[d]
      BY <2>1 DEF Goes, IInv, TypeOK
    <2> QED
      BY <2>1, <2>2 DEF Inserters
  <1>4. ASSUME NEW w \in Workers, WorkerStep(w) \/ AttemptRaises(w) \/ Die(w) \/ Restart(w)
        PROVE  client' = client
    BY <1>4 DEF WorkerStep, ReadDue, Promote, Pop, ClaimById, ClaimNext, Ingest, MarkSucceeded,
                FailRead, FailWrite, NackJob, AttemptRaises, Die, Restart
  <1>5. CASE Tick
    BY <1>1, <1>2, <1>5, TickMoves, QuietRoom
  <1>6. CASE client' = client
    BY <1>1, <1>2, <1>6, QuietRoom
  <1>7. CASE UNCHANGED vars
    BY <1>6, <1>7 DEF vars
  <1> QED
    BY <1>1, <1>3, <1>4, <1>5, <1>6, <1>7, QuietRoom DEF Next, ClientStep

(***************************************************************************)
(* Whatever fails, and however the requests cross, a key never has more    *)
(* jobs than requests that can be under way at a time: what a look-up that *)
(* is not in the insert's transaction costs.  Retries of the client one    *)
(* after the other add none.                                               *)
(***************************************************************************)
THEOREM KeysBounded ==
  ASSUME IsFiniteSet(Clients)
  PROVE  Spec => []JobsPerKey
  <1>1. Init => KeyRoom
    <2> SUFFICES ASSUME Init, NEW k \in Keys
                 PROVE  /\ IsFiniteSet(WithKey(k))
                        /\ Cardinality(WithKey(k)) + Cardinality(Inserters(k))
                             <= Cardinality(Clients)
      BY DEF KeyRoom
    <2>1. WithKey(k) = {}
      BY DEF Init, TableInit, NoRow, NewRow, WithKey, Present
    <2>2. Inserters(k) = {}
      BY DEF Init, IdleClient, Inserters
    <2> QED
      BY <2>1, <2>2, FewRequests, FS_EmptySet
  <1>2. IInv /\ KeyRoom /\ [Next]_vars => KeyRoom'
    BY InsertRoom, RestRoom
  <1>3. KeyRoom => JobsPerKey
    <2> SUFFICES ASSUME KeyRoom, NEW k \in Keys
                 PROVE  Cardinality(WithKey(k)) <= Cardinality(Clients)
      BY DEF JobsPerKey
    <2>1. /\ Cardinality(WithKey(k)) \in Nat /\ Cardinality(Clients) \in Nat
          /\ Cardinality(Inserters(k)) \in Nat
      BY FewRequests, FS_CardinalityType DEF KeyRoom, Inserters
    <2> QED
      BY <2>1 DEF KeyRoom
  <1> QED
    BY <1>1, <1>2, <1>3, Safety, PTL DEF Spec

-----------------------------------------------------------------------------
(* No letter is missing.                                                   *)

Lettered(j) == \E n \in DOMAIN dlq : dlq[n] = j

(***************************************************************************)
(* A letter that is written stays written.                                 *)
(***************************************************************************)
LEMMA LettersStay ==
  ASSUME IInv, [Next]_vars, NEW j \in JobId, Lettered(j)
  PROVE  Lettered(j)'
  <1>1. dlq \in Seq(JobId)
    BY ServiceAssumption DEF IInv, TypeOK, QueueTypeOK
  <1>2. CASE dlq' = dlq
    BY <1>2 DEF Lettered
  <1>3. ASSUME NEW i \in JobId, dlq' = Append(dlq, i)
        PROVE  Lettered(j)'
    <2>1. /\ DOMAIN dlq = 1..Len(dlq) /\ DOMAIN dlq' = 1..(Len(dlq) + 1) /\ Len(dlq) \in Nat
          /\ \A n \in 1..Len(dlq) : dlq'[n] = dlq[n]
      BY <1>1, <1>3
    <2>2. PICK n \in 1..Len(dlq) : dlq[n] = j
      BY <2>1 DEF Lettered
    <2>3. n \in DOMAIN dlq' /\ dlq'[n] = j
      BY <2>1, <2>2
    <2> QED
      BY <2>3 DEF Lettered
  <1>4. ASSUME NEW c \in Clients, Request(c) \/ ClientStep(c) \/ Abandon(c)
        PROVE  dlq' = dlq
    BY <1>4 DEF Request, ClientStep, Lookup, Prepare, Insert, Push, Abandon, Enqueue, queueVars
  <1>5. ASSUME NEW w \in Workers,
               \/ ReadDue(w) \/ Promote(w) \/ Pop(w) \/ ClaimById(w) \/ ClaimNext(w)
               \/ Ingest(w) \/ MarkSucceeded(w) \/ FailRead(w) \/ FailWrite(w)
               \/ AttemptRaises(w) \/ Die(w) \/ Restart(w)
        PROVE  dlq' = dlq
    BY <1>5 DEF ReadDue, Promote, Pop, ClaimById, ClaimNext, Ingest, MarkSucceeded, FailRead,
                FailWrite, AttemptRaises, Die, Restart, PromoteRefs, PopRef, queueVars
  <1>6. ASSUME NEW w \in Workers, NackJob(w)
        PROVE  Lettered(j)'
    <2>1. worker[w].job \in JobId
      BY <1>6 DEF IInv, WorkersHold, NackJob
    <2>2. dlq' = dlq \/ dlq' = Append(dlq, worker[w].job)
      BY <1>6 DEF NackJob, Nack, Enqueue, queueVars
    <2> QED
      BY <1>2, <1>3, <2>1, <2>2
  <1>7. Tick \/ UNCHANGED vars => dlq' = dlq
    BY DEF Tick, QueueElapsed, vars
  <1> QED
    BY <1>2, <1>4, <1>5, <1>6, <1>7 DEF Next, WorkerStep

(***************************************************************************)
(* A job fails for good in the hands of a worker that goes on to write its *)
(* letter.                                                                 *)
(***************************************************************************)
LEMMA NewlyFailed ==
  ASSUME IInv, [Next]_vars, NEW j \in JobId,
         jobs[j].status # "failed", jobs'[j].status = "failed"
  PROVE  \E w \in Workers : Letters(w, j)'
  <1>1. OneMove
    BY TableStep DEF Unchanging
  <1>2. RowMove(j)
    BY <1>1 DEF OneMove
  <1>3. PICK w \in Workers : FailWrite(w) /\ worker[w].job = j
    BY <1>2 DEF RowMove
  <1>4. worker[w] \in WorkerState /\ jobs \in [JobId -> Row]
    BY DEF IInv, TypeOK
  <1>5. PICK n \in Nat, d \in 0..MaxBackoff :
          /\ n = worker[w].retry /\ d = worker[w].wait /\ MarkJobFailed(j, n, d)
    BY <1>3, <1>4 DEF FailWrite, WorkerState
  <1>6. ~Retryable(j, n)
    <2>0. jobs \in [JobId -> Row] /\ MarkJobFailed(j, n, d)
      BY <1>4, <1>5
    <2>1. /\ jobs' \in [JobId -> Row]
          /\ \A i \in JobId \ {j} : jobs'[i] = jobs[i]
          /\ Retryable(j, n) =>
               jobs'[j] = [jobs[j] EXCEPT !.status = "queued", !.retry_count = n,
                                          !.wait = d, !.dead_lettered = FALSE]
          /\ ~Retryable(j, n) =>
               jobs'[j] = [jobs[j] EXCEPT !.status = "failed", !.retry_count = n,
                                          !.wait = 0, !.dead_lettered = TRUE]
      BY <2>0, FailureWrites
    <2> QED
      BY <1>4, <2>1 DEF Row
  <1>7. worker'[w] = [worker[w] EXCEPT !.pc = "nack", !.dead = ~Retryable(j, n)]
    BY <1>3, <1>5, WorkerMoves DEF FailWrite
  <1> QED
    BY <1>4, <1>3, <1>6, <1>7 DEF Letters, WorkerState

(***************************************************************************)
(* Where every worker is on Redis, and no process crashes and no call to   *)
(* Redis fails, the letter in hand is written, or stays in hand.           *)
(***************************************************************************)
LEMMA LettersInHandStay ==
  ASSUME IInv, [Next]_vars, Faults \cap {"crash", "redis"} = {}, Workers \subseteq RedisProcs,
         NEW j \in JobId, NEW w \in Workers, Letters(w, j)
  PROVE  Lettered(j)' \/ Letters(w, j)'
  <1>1. worker[w] \in WorkerState /\ worker[w].pc = "nack" /\ worker[w].dead /\ worker[w].job = j
    BY DEF IInv, TypeOK, Letters
  <1>2. CASE NackJob(w)
    <2>1. dlq \in Seq(JobId) /\ dlq' = Append(dlq, j)
      BY <1>1, <1>2, ServiceAssumption DEF NackJob, Nack, IInv, TypeOK, QueueTypeOK
    <2>2. Len(dlq) + 1 \in DOMAIN dlq' /\ dlq'[Len(dlq) + 1] = j
      BY <2>1
    <2> QED
      BY <2>2 DEF Lettered
  <1>3. ~(\/ ReadDue(w) \/ Promote(w) \/ Pop(w) \/ ClaimById(w) \/ ClaimNext(w) \/ Ingest(w)
          \/ MarkSucceeded(w) \/ FailRead(w) \/ FailWrite(w) \/ AttemptRaises(w) \/ Restart(w))
    BY <1>1 DEF ReadDue, Promote, Pop, ClaimById, ClaimNext, AtClaimNext, Ingest, MarkSucceeded,
                FailRead, FailWrite, AttemptRaises, Restart
  <1>4. ~Die(w)
    BY <1>1 DEF Die, AtClaimNext
  <1>5. CASE worker'[w] = worker[w]
    BY <1>5 DEF Letters
  <1>6. ASSUME NEW c \in Clients, Request(c) \/ ClientStep(c) \/ Abandon(c)
        PROVE  worker' = worker
    BY <1>6 DEF Request, ClientStep, Lookup, Prepare, Insert, Push, Abandon
  <1>7. ASSUME NEW v \in Workers, v # w,
               WorkerStep(v) \/ AttemptRaises(v) \/ Die(v) \/ Restart(v)
        PROVE  worker'[w] = worker[w]
    BY <1>7, OthersStay
  <1>8. CASE Tick
    <2>1. /\ worker'[w].pc = worker[w].pc /\ worker'[w].job = worker[w].job
          /\ worker'[w].dead = worker[w].dead
      BY <1>8, TickMoves
    <2> QED
      BY <1>1, <2>1, Zenon DEF Letters
  <1>9. CASE UNCHANGED vars
    BY <1>5, <1>9 DEF vars
  <1>10. ASSUME NEW v \in Workers, WorkerStep(v) \/ AttemptRaises(v) \/ Die(v) \/ Restart(v)
         PROVE  Lettered(j)' \/ Letters(w, j)'
    <2>1. CASE v = w
      BY <1>2, <1>3, <1>4, <1>10, <2>1 DEF WorkerStep
    <2>2. CASE v # w
      BY <1>5, <1>7, <1>10, <2>2
    <2> QED
      BY <2>1, <2>2
  <1> QED
    BY <1>5, <1>6, <1>8, <1>9, <1>10 DEF Next

(***************************************************************************)
(* With every worker on Redis, a dead letter is missing only after a crash *)
(* or a failed call to Redis: attempts and transactions may fail.  With    *)
(* LettersOnce, the list and the letters in hand are the failed jobs.      *)
(***************************************************************************)
THEOREM LettersWritten ==
  ASSUME Faults \cap {"crash", "redis"} = {}, Workers \subseteq RedisProcs
  PROVE  Spec => []FailuresLettered
  <1>1. Init => FailuresLettered
    BY DEF Init, TableInit, NoRow, NewRow, FailuresLettered
  <1>2. FailuresLettered <=>
          \A j \in JobId : jobs[j].status = "failed" =>
            Lettered(j) \/ \E w \in Workers : Letters(w, j)
    BY DEF FailuresLettered, Lettered, Letters
  <1>3. ASSUME IInv, FailuresLettered, [Next]_vars, NEW j \in JobId, jobs'[j].status = "failed"
        PROVE  Lettered(j)' \/ \E w \in Workers : Letters(w, j)'
    <2>1. CASE jobs[j].status = "failed"
      BY <1>2, <1>3, <2>1, LettersStay, LettersInHandStay
    <2>2. CASE jobs[j].status # "failed"
      BY <1>3, <2>2, NewlyFailed
    <2> QED
      BY <2>1, <2>2
  <1>4. IInv /\ FailuresLettered /\ [Next]_vars => FailuresLettered'
    BY <1>3 DEF FailuresLettered, Lettered, Letters
  <1> QED
    BY <1>1, <1>4, Safety, PTL DEF Spec

-----------------------------------------------------------------------------
(* No livelock.                                                            *)

(***************************************************************************)
(* The changes a job can still see: two per attempt that it has left, one  *)
(* less while an attempt is under way.                                     *)
(***************************************************************************)
ChangesLeft(j) ==
  LET attempts == jobs[j].max_retries - jobs[j].retry_count + 1
  IN  CASE jobs[j].status = "queued"     -> 2 * attempts
        [] jobs[j].status = "processing" -> 2 * attempts - 1
        [] OTHER                         -> 0

(***************************************************************************)
(* A job changes at most 2 * (max_retries + 1) times after it was          *)
(* inserted, whatever fails and however ids are duplicated: every change   *)
(* of its row brings it nearer to its end, and only an end leaves no       *)
(* change to come.  A job that does not end is therefore one that nobody   *)
(* touches any more, never one that goes round (service.py 153-252,        *)
(* ingestion_job_repository.py 180-365).                                   *)
(***************************************************************************)
ChangesBounded ==
  \A j \in Present :
    /\ ChangesLeft(j) \in 0..2 * (jobs[j].max_retries + 1)
    /\ ChangesLeft(j) = 0 <=> jobs[j].status \in Terminal

EachChangeCounts ==
  [][\A j \in Present : \/ LifeOf(j)' = LifeOf(j)
                        \/ ChangesLeft(j)' < ChangesLeft(j)]_vars

LEMMA LeftBounded ==
  ASSUME IInv, NEW j \in Present
  PROVE  /\ ChangesLeft(j) \in 0..2 * (jobs[j].max_retries + 1)
         /\ ChangesLeft(j) = 0 <=> jobs[j].status \in Terminal
  <1>1. /\ jobs[j] \in Row /\ j \in JobId /\ jobs[j].status # "absent"
        /\ jobs[j].retry_count <= jobs[j].max_retries +
                                    (IF jobs[j].status = "failed" THEN 1 ELSE 0)
    BY DEF IInv, TypeOK, DeadLetterIffExhausted, Present
  <1>2. /\ jobs[j].max_retries \in Nat /\ jobs[j].retry_count \in Nat
        /\ jobs[j].status \in {"queued", "processing", "succeeded", "failed"}
    BY <1>1 DEF Row, Status, Open, Terminal
  <1>3. CASE jobs[j].status = "queued"
    BY <1>1, <1>2, <1>3 DEF ChangesLeft, Terminal
  <1>4. CASE jobs[j].status = "processing"
    BY <1>1, <1>2, <1>4 DEF ChangesLeft, Terminal
  <1>5. CASE jobs[j].status \in Terminal
    BY <1>2, <1>5 DEF ChangesLeft, Terminal
  <1> QED
    BY <1>2, <1>3, <1>4, <1>5 DEF Terminal

THEOREM NoLivelock == Spec => []ChangesBounded /\ EachChangeCounts
  <1>1. IInv => ChangesBounded
    BY LeftBounded DEF ChangesBounded
  <1>2. ASSUME IInv, [Next]_vars, NEW j \in Present
        PROVE  LifeOf(j)' = LifeOf(j) \/ ChangesLeft(j)' < ChangesLeft(j)
    <2>1. /\ j \in JobId /\ jobs[j] \in Row /\ jobs[j].status # "absent"
          /\ jobs[j].retry_count <= jobs[j].max_retries +
                                      (IF jobs[j].status = "failed" THEN 1 ELSE 0)
      BY <1>2 DEF IInv, TypeOK, DeadLetterIffExhausted, Present
    <2>2. jobs[j].max_retries \in Nat /\ jobs[j].retry_count \in Nat
      BY <2>1 DEF Row
    <2>3. CASE Unchanging(j) \/ jobs'[j] = jobs[j]
      BY <2>3 DEF Unchanging, LifeOf
    <2>4. CASE RowMove(j) /\ jobs[j].status = "queued"
      BY <2>2, <2>4 DEF RowMove, ChangesLeft
    <2>5. CASE RowMove(j) /\ jobs[j].status = "processing"
      <3>1. jobs'[j].max_retries = jobs[j].max_retries
        BY <2>5 DEF RowMove
      <3>2. \/ jobs'[j].status \in {"succeeded", "failed"}
            \/ jobs'[j].status = "queued" /\ jobs'[j].retry_count = jobs[j].retry_count + 1
        BY <2>5 DEF RowMove
      <3>3. ChangesLeft(j) = 2 * (jobs[j].max_retries - jobs[j].retry_count + 1) - 1
        BY <2>5 DEF ChangesLeft
      <3>4. CASE jobs'[j].status \in {"succeeded", "failed"}
        <4>1. ChangesLeft(j)' = 0
          BY <3>4 DEF ChangesLeft
        <4>2. jobs[j].retry_count <= jobs[j].max_retries
          BY <2>1, <2>2, <2>5
        <4> QED
          BY <2>2, <3>3, <4>1, <4>2
      <3>5. CASE jobs'[j].status = "queued" /\ jobs'[j].retry_count = jobs[j].retry_count + 1
        <4>1. ChangesLeft(j)' =
                2 * (jobs[j].max_retries - (jobs[j].retry_count + 1) + 1)
          BY <3>1, <3>5 DEF ChangesLeft
        <4> QED
          BY <2>2, <3>3, <4>1
      <3> QED
        BY <3>2, <3>4, <3>5
    <2>6. RowMove(j) => jobs[j].status \in {"queued", "processing"}
      BY <2>1 DEF RowMove
    <2>7. Unchanging(j) \/ RowMove(j) \/ jobs'[j] = jobs[j]
      BY <1>2, <2>1, TableStep DEF OneMove
    <2> QED
      BY <2>3, <2>4, <2>5, <2>6, <2>7
  <1>3. IInv /\ [Next]_vars => [\A j \in Present : \/ LifeOf(j)' = LifeOf(j)
                                                   \/ ChangesLeft(j)' < ChangesLeft(j)]_vars
    BY <1>2
  <1> QED
    BY <1>1, <1>3, Safety, PTL DEF Spec, EachChangeCounts

=============================================================================
