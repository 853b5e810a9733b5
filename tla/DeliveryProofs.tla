--------------------------- MODULE DeliveryProofs ---------------------------
(***************************************************************************)
(* Theorems about what becomes of a job outside its row: its dead letter,  *)
(* its document, its id in Redis, its key.  Some hold on every instance,   *)
(* others for the backends and the faults their assumptions name; a run    *)
(* that ends in a counterexample shows what happens without them.          *)
(***************************************************************************)
EXTENDS IngestionProofs

(***************************************************************************)
(* A job that has failed stays so.                                         *)
(***************************************************************************)
LEMMA FailedStays ==
  ASSUME IInv, [Next]_vars, NEW j \in JobId, jobs[j].status = "failed"
  PROVE  jobs'[j].status = "failed"
  <1>1. CASE \A i \in JobId : Unchanging(i)
    BY <1>1 DEF Unchanging
  <1>2. CASE OneMove
    <2>1. ~RowMove(j)
      BY DEF RowMove
    <2> QED
      BY <1>2, <2>1 DEF OneMove
  <1> QED
    BY <1>1, <1>2, TableStep

(***************************************************************************)
(* A step of a worker moves that worker only.                              *)
(***************************************************************************)
LEMMA WorkerMoves ==
  ASSUME IInv, NEW w \in Workers, NEW s, Moves(w, s)
  PROVE  /\ worker'[w] = s
         /\ \A v \in Workers \ {w} : worker'[v] = worker[v]
  BY DEF IInv, TypeOK, Moves

(***************************************************************************)
(* A tick changes nobody's place, job or verdict.                          *)
(***************************************************************************)
LEMMA TickMoves ==
  ASSUME IInv, Tick
  PROVE  /\ \A w \in Workers : /\ worker'[w].pc = worker[w].pc
                               /\ worker'[w].job = worker[w].job
                               /\ worker'[w].dead = worker[w].dead
         /\ \A c \in Clients : /\ client'[c].pc = client[c].pc
                               /\ client'[c].job = client[c].job
                               /\ client'[c].key = client[c].key
         /\ \A j \in JobId : /\ jobs'[j].status = jobs[j].status
                             /\ jobs'[j].key = jobs[j].key
  <1>1. ASSUME NEW w \in Workers
        PROVE  /\ worker'[w].pc = worker[w].pc
               /\ worker'[w].job = worker[w].job
               /\ worker'[w].dead = worker[w].dead
    <2>1. worker[w] \in WorkerState
      BY DEF IInv, TypeOK
    <2>2. worker'[w] = [worker[w] EXCEPT !.wait = Sooner(worker[w].wait)]
      BY DEF Tick
    <2> QED
      BY <2>1, <2>2 DEF WorkerState
  <1>2. ASSUME NEW c \in Clients
        PROVE  /\ client'[c].pc = client[c].pc
               /\ client'[c].job = client[c].job
               /\ client'[c].key = client[c].key
    <2>1. client[c] \in ClientState
      BY DEF IInv, TypeOK
    <2>2. client'[c] = [client[c] EXCEPT !.wait = Sooner(client[c].wait)]
      BY DEF Tick
    <2> QED
      BY <2>1, <2>2 DEF ClientState
  <1>3. ASSUME NEW j \in JobId
        PROVE  jobs'[j].status = jobs[j].status /\ jobs'[j].key = jobs[j].key
    <2>1. jobs[j] \in Row
      BY DEF IInv, TypeOK
    <2>2. jobs'[j] = [jobs[j] EXCEPT !.wait = Sooner(jobs[j].wait)]
      BY DEF Tick, TableElapsed
    <2> QED
      BY <2>1, <2>2 DEF Row
  <1> QED
    BY <1>1, <1>2, <1>3

-----------------------------------------------------------------------------
(* Dead letters.                                                           *)

(***************************************************************************)
(* A worker about to push a dead letter is the only one with that job's,   *)
(* and the list does not have it yet.                                      *)
(***************************************************************************)
Letters(w, j) == worker[w].pc = "nack" /\ worker[w].dead /\ worker[w].job = j

LettersInHand ==
  \A w \in Workers, j \in JobId : Letters(w, j) =>
    /\ jobs[j].status = "failed"
    /\ \A n \in DOMAIN dlq : dlq[n] # j
    /\ \A v \in Workers : Letters(v, j) => v = w

LetterInv == DlqHoldsFailures /\ LettersInHand

(***************************************************************************)
(* A step that writes no letter and gives nobody a new one to write.       *)
(***************************************************************************)
LEMMA QuietLetters ==
  ASSUME IInv, [Next]_vars, LetterInv, dlq' = dlq,
         \A v \in Workers, j \in JobId : Letters(v, j)' => Letters(v, j)
  PROVE  LetterInv'
  <1>1. \A n \in DOMAIN dlq : dlq[n] \in JobId
    BY ServiceAssumption DEF IInv, TypeOK, QueueTypeOK
  <1>2. DlqHoldsFailures'
    BY <1>1, FailedStays DEF LetterInv, DlqHoldsFailures
  <1>3. LettersInHand'
    BY FailedStays DEF LetterInv, LettersInHand
  <1> QED
    BY <1>2, <1>3 DEF LetterInv

(***************************************************************************)
(* mark_job_failed closes a job that was being processed: there was no     *)
(* letter of it anywhere.                                                  *)
(***************************************************************************)
LEMMA FailWriteLetters ==
  ASSUME IInv, [Next]_vars, LetterInv, NEW w \in Workers, FailWrite(w)
  PROVE  LetterInv'
  <1> DEFINE i == worker[w].job
             n == worker[w].retry
  <1>1. /\ i \in JobId /\ jobs[i].status = "processing"
        /\ worker[w] \in WorkerState /\ n \in Nat
        /\ jobs \in [JobId -> Row]
    BY DEF IInv, TypeOK, ClaimExclusive, FailWrite, Owning, WorkerState
  <1>2. /\ worker'[w] = [worker[w] EXCEPT !.pc = "nack", !.dead = ~Retryable(i, n)]
        /\ \A v \in Workers \ {w} : worker'[v] = worker[v]
    BY WorkerMoves DEF FailWrite
  <1>3. worker'[w].job = i /\ worker'[w].dead = ~Retryable(i, n)
    BY <1>1, <1>2 DEF WorkerState
  <1>4. dlq' = dlq
    BY DEF FailWrite, queueVars
  <1>5. \A m \in DOMAIN dlq : dlq[m] # i /\ dlq[m] \in JobId
    BY <1>1, ServiceAssumption DEF LetterInv, DlqHoldsFailures, IInv, TypeOK, QueueTypeOK
  <1>6. ~Retryable(i, n) => jobs'[i].status = "failed"
    <2>1. MarkJobFailed(i, n, worker[w].wait) /\ worker[w].wait \in 0..MaxBackoff
      BY <1>1 DEF FailWrite, WorkerState
    <2>2. ~Retryable(i, n) =>
            jobs'[i] = [jobs[i] EXCEPT !.status = "failed", !.retry_count = n,
                                       !.wait = 0, !.dead_lettered = TRUE]
      <3> DEFINE d == worker[w].wait
      <3>1. MarkJobFailed(i, n, d) /\ d \in 0..MaxBackoff
        BY <2>1
      <3> HIDE DEF i, n, d
      <3> QED
        BY <1>1, <3>1, FailureWrites
    <2>3. jobs[i] \in Row
      BY <1>1
    <2> HIDE DEF i, n
    <2> QED
      BY <2>2, <2>3 DEF Row
  <1>7. DlqHoldsFailures'
    BY <1>4, <1>5, FailedStays DEF LetterInv, DlqHoldsFailures
  <1>8. \A v \in Workers : ~Letters(v, i)
    BY <1>1 DEF LetterInv, LettersInHand
  <1>9. LettersInHand'
    <2> SUFFICES ASSUME NEW v \in Workers, NEW j \in JobId, Letters(v, j)'
                 PROVE  /\ jobs'[j].status = "failed"
                        /\ \A m \in DOMAIN dlq : dlq[m] # j
                        /\ \A u \in Workers : Letters(u, j)' => u = v
      BY <1>4 DEF LettersInHand
    <2>1. CASE v = w
      <3>1. j = i /\ ~Retryable(i, n)
        BY <1>3, <2>1 DEF Letters
      <3>2. \A u \in Workers \ {w} : ~Letters(u, j)'
        BY <1>2, <1>8, <3>1 DEF Letters
      <3> QED
        BY <1>5, <1>6, <2>1, <3>1, <3>2
    <2>2. CASE v # w
      <3>1. Letters(v, j)
        BY <1>2, <2>2 DEF Letters
      <3>2. j # i
        BY <1>8, <3>1
      <3>3. ~Letters(w, j)'
        BY <1>3, <3>2 DEF Letters
      <3>4. \A u \in Workers : Letters(u, j)' => Letters(u, j)
        BY <1>2, <3>3 DEF Letters
      <3> QED
        BY <3>1, <3>4, FailedStays DEF LetterInv, LettersInHand
    <2> QED
      BY <2>1, <2>2
  <1> QED
    BY <1>7, <1>9 DEF LetterInv

(***************************************************************************)
(* nack writes the letter in hand.                                         *)
(***************************************************************************)
LEMMA NackLetters ==
  ASSUME IInv, [Next]_vars, LetterInv, NEW w \in Workers, NackJob(w)
  PROVE  LetterInv'
  <1> DEFINE i == worker[w].job
  <1>1. /\ i \in JobId /\ dlq \in Seq(JobId)
        /\ worker[w].pc = "nack"
    BY ServiceAssumption DEF IInv, TypeOK, QueueTypeOK, WorkersHold, NackJob
  <1>2. /\ worker'[w].pc = "idle"
        /\ \A v \in Workers \ {w} : worker'[v] = worker[v]
    <2>1. /\ worker'[w] = IdleWorker
          /\ \A v \in Workers \ {w} : worker'[v] = worker[v]
      BY WorkerMoves DEF NackJob
    <2> QED
      BY <2>1 DEF IdleWorker
  <1>3. \A v \in Workers, j \in JobId : Letters(v, j)' => v # w /\ Letters(v, j)
    BY <1>2 DEF Letters
  <1>4. CASE w \in RedisProcs /\ worker[w].dead
    <2>1. dlq' = Append(dlq, i)
      BY <1>4 DEF NackJob, Nack
    <2>2. Letters(w, i)
      BY <1>1, <1>4 DEF Letters
    <2>3. /\ jobs[i].status = "failed"
          /\ \A n \in DOMAIN dlq : dlq[n] # i
          /\ \A v \in Workers : Letters(v, i) => v = w
      BY <1>1, <2>2 DEF LetterInv, LettersInHand
    <2>4. /\ DOMAIN dlq = 1..Len(dlq) /\ DOMAIN dlq' = 1..(Len(dlq) + 1)
          /\ Len(dlq) \in Nat
          /\ \A n \in 1..Len(dlq) : dlq'[n] = dlq[n] /\ dlq[n] \in JobId
          /\ dlq'[Len(dlq) + 1] = i
      <3> HIDE DEF i
      <3> QED
        BY <1>1, <2>1
    <2> HIDE DEF i
    <2>5. \A n \in 1..(Len(dlq) + 1) : n \in 1..Len(dlq) \/ n = Len(dlq) + 1
      BY <2>4
    <2>6. DlqHoldsFailures'
      BY <1>1, <2>3, <2>4, <2>5, FailedStays DEF LetterInv, DlqHoldsFailures
    <2>7. LettersInHand'
      BY <1>1, <1>3, <2>3, <2>4, <2>5, FailedStays DEF LetterInv, LettersInHand
    <2> QED
      BY <2>6, <2>7 DEF LetterInv
  <1>5. CASE ~(w \in RedisProcs /\ worker[w].dead)
    <2>1. dlq' = dlq
      BY <1>5 DEF NackJob, Nack, Enqueue, queueVars
    <2> QED
      BY <1>3, <2>1, QuietLetters
  <1> QED
    BY <1>4, <1>5

(***************************************************************************)
(* Nobody else has anything to do with dead letters.                       *)
(***************************************************************************)
LEMMA NextLetters ==
  ASSUME IInv, [Next]_vars, LetterInv
  PROVE  LetterInv'
  <1>1. ASSUME NEW c \in Clients, Request(c) \/ ClientStep(c) \/ Abandon(c)
        PROVE  dlq' = dlq /\ worker' = worker
    BY <1>1 DEF Request, ClientStep, Lookup, Prepare, Insert, Push, Abandon, Enqueue, queueVars
  <1>2. ASSUME NEW w \in Workers,
               \/ ReadDue(w) \/ Promote(w) \/ Pop(w) \/ ClaimById(w) \/ ClaimNext(w)
               \/ Ingest(w) \/ MarkSucceeded(w) \/ FailRead(w)
               \/ AttemptRaises(w) \/ Die(w) \/ Restart(w)
        PROVE  LetterInv'
    <2>1. dlq' = dlq
      BY <1>2 DEF ReadDue, Promote, Pop, ClaimById, ClaimNext, Ingest, MarkSucceeded, FailRead,
                  AttemptRaises, Die, Restart, PromoteRefs, PopRef, queueVars
    <2>2. /\ worker[w] \in WorkerState
          /\ worker \in [Workers -> WorkerState]
      BY DEF IInv, TypeOK
    <2>3. worker'[w].pc # "nack" /\ \A v \in Workers \ {w} : worker'[v] = worker[v]
      <3>1. \E s : s.pc # "nack" /\ Moves(w, s)
        <4>1. IdleWorker.pc # "nack" /\ [IdleWorker EXCEPT !.pc = "pop"].pc # "nack"
              /\ [IdleWorker EXCEPT !.pc = "claimNext"].pc # "nack"
              /\ [IdleWorker EXCEPT !.pc = "dead"].pc # "nack"
          BY DEF IdleWorker
        <4> QED
          BY <1>2, <2>2, <4>1 DEF ReadDue, Promote, Pop, ClaimById, ClaimNext, Ingest, MarkSucceeded,
             FailRead, AttemptRaises, Die, Restart, IdleWorker, WorkerState
      <3> QED
        BY <2>2, <3>1, WorkerMoves
    <2> QED
      BY <2>1, <2>3, QuietLetters DEF Letters
  <1>3. ASSUME NEW w \in Workers, FailWrite(w) \/ NackJob(w)
        PROVE  LetterInv'
    BY <1>3, FailWriteLetters, NackLetters
  <1>4. CASE Tick
    <2>1. dlq' = dlq
      BY <1>4 DEF Tick, QueueElapsed
    <2> QED
      BY <1>4, <2>1, TickMoves, QuietLetters DEF Letters
  <1>5. ASSUME dlq' = dlq, worker' = worker
        PROVE  LetterInv'
    BY <1>5, QuietLetters DEF Letters
  <1>6. CASE UNCHANGED vars
    BY <1>5, <1>6 DEF vars
  <1> QED
    BY <1>1, <1>2, <1>3, <1>4, <1>5, <1>6 DEF Next, WorkerStep

(***************************************************************************)
(* The dead-letter list holds jobs that have failed for good, each once,   *)
(* on any mix of backends and whatever fails: a worker that dies may keep  *)
(* a letter from being written, nobody can write it twice.                 *)
(***************************************************************************)
THEOREM LettersOnce == Spec => []DlqHoldsFailures
  <1>1. Init => LetterInv
    BY DEF Init, QueueInit, IdleWorker, LetterInv, DlqHoldsFailures, LettersInHand, Letters
  <1>2. IInv /\ LetterInv /\ [Next]_vars => LetterInv'
    BY NextLetters
  <1>3. LetterInv => DlqHoldsFailures
    BY DEF LetterInv
  <1> QED
    BY <1>1, <1>2, <1>3, Safety, PTL DEF Spec

-----------------------------------------------------------------------------
(* Documents.                                                              *)

(***************************************************************************)
(* A document is stored, and not yet reported.                             *)
(***************************************************************************)
Reporting(w, j) == worker[w].pc = "markSucceeded" /\ worker[w].job = j

Reported(j) == jobs[j].status = "succeeded" \/ \E w \in Workers : Reporting(w, j)

(***************************************************************************)
(* A step after which the same jobs are reported or about to be, with the  *)
(* same documents.                                                         *)
(***************************************************************************)
LEMMA QuietDocuments ==
  ASSUME StoredOnce, docs' = docs, \A j \in JobId : Reported(j)' <=> Reported(j)
  PROVE  StoredOnce'
  BY DEF StoredOnce, Reported, Reporting

(***************************************************************************)
(* Only who owns a job reports it.                                         *)
(***************************************************************************)
LEMMA OwnersReport ==
  ASSUME IInv, NEW w \in Workers, worker[w].pc \in Owning
  PROVE  /\ worker[w].job \in JobId
         /\ jobs[worker[w].job].status = "processing"
         /\ \A v \in Workers \ {w} : ~Reporting(v, worker[w].job)
  BY DEF IInv, ClaimExclusive, Owns, Owning, Reporting

(***************************************************************************)
(* The commit of a document.                                               *)
(***************************************************************************)
LEMMA IngestStores ==
  ASSUME IInv, StoredOnce, NEW w \in Workers, Ingest(w)
  PROVE  StoredOnce'
  <1> DEFINE i == worker[w].job
  <1>1. /\ i \in JobId /\ jobs[i].status = "processing"
        /\ worker[w] \in WorkerState /\ docs \in [JobId -> Nat] /\ jobs' = jobs
        /\ worker[w].pc = "ingest"
        /\ \A v \in Workers \ {w} : ~Reporting(v, i)
    BY OwnersReport DEF IInv, TypeOK, Ingest, Owning
  <1>2. \A v \in Workers \ {w} : worker'[v] = worker[v]
    BY WorkerMoves DEF Ingest
  <1>3. CASE jobs[i].blank
    <2>1. docs' = docs /\ worker'[w] = [worker[w] EXCEPT !.pc = "failRead"]
      BY <1>3, WorkerMoves DEF Ingest
    <2>2. worker'[w].pc = "failRead"
      BY <1>1, <2>1 DEF WorkerState
    <2> HIDE DEF i
    <2>3. \A j \in JobId : Reported(j)' <=> Reported(j)
      BY <1>1, <1>2, <2>2 DEF Reported, Reporting
    <2> QED
      BY <2>1, <2>3, QuietDocuments
  <1>4. CASE ~jobs[i].blank
    <2>1. /\ docs' = [docs EXCEPT ![i] = @ + 1]
          /\ worker'[w] = [worker[w] EXCEPT !.pc = "markSucceeded", !.doc = docs[i] + 1]
      BY <1>4, WorkerMoves DEF Ingest
    <2>2. worker'[w].pc = "markSucceeded" /\ worker'[w].job = i
      BY <1>1, <2>1 DEF WorkerState
    <2>3. docs[i] = 0
      BY <1>1 DEF StoredOnce, Reporting
    <2>4. docs'[i] = 1 /\ \A j \in JobId \ {i} : docs'[j] = docs[j]
      BY <1>1, <2>1, <2>3
    <2> HIDE DEF i
    <2>5. \A j \in JobId \ {i} : Reported(j)' <=> Reported(j)
      BY <1>1, <1>2, <2>2 DEF Reported, Reporting
    <2> QED
      BY <1>1, <2>2, <2>4, <2>5 DEF StoredOnce, Reported, Reporting
  <1> QED
    BY <1>3, <1>4

(***************************************************************************)
(* The report of a document.                                               *)
(***************************************************************************)
LEMMA SuccessReports ==
  ASSUME IInv, StoredOnce, NEW w \in Workers, MarkSucceeded(w)
  PROVE  StoredOnce'
  <1> DEFINE i == worker[w].job
             d == worker[w].doc
  <1>1. /\ i \in JobId /\ d \in Nat /\ jobs \in [JobId -> Row]
        /\ worker[w].pc = "markSucceeded"
        /\ \A v \in Workers \ {w} : ~Reporting(v, i)
    BY OwnersReport DEF IInv, TypeOK, MarkSucceeded, Owning, WorkerState
  <1>2. worker'[w].pc = "idle" /\ \A v \in Workers \ {w} : worker'[v] = worker[v]
    <2>1. worker'[w] = IdleWorker /\ \A v \in Workers \ {w} : worker'[v] = worker[v]
      BY WorkerMoves DEF MarkSucceeded
    <2> QED
      BY <2>1 DEF IdleWorker
  <1>3. jobs'[i].status = "succeeded" /\ \A j \in JobId \ {i} : jobs'[j] = jobs[j]
    <2>1. MarkJobSucceeded(i, d)
      BY DEF MarkSucceeded
    <2> HIDE DEF i, d
    <2>2. /\ \A j \in JobId \ {i} : jobs'[j] = jobs[j]
          /\ jobs'[i] = [jobs[i] EXCEPT !.status = "succeeded", !.document = d,
                                        !.dead_lettered = FALSE]
      BY <1>1, <2>1, SuccessWrites
    <2>3. jobs[i] \in Row
      BY <1>1
    <2> QED
      BY <2>2, <2>3 DEF Row
  <1>4. Reporting(w, i) /\ docs' = docs
    BY <1>1 DEF Reporting, MarkSucceeded
  <1> HIDE DEF i, d
  <1>5. \A j \in JobId : Reported(j)' <=> Reported(j)
    <2> SUFFICES ASSUME NEW j \in JobId PROVE Reported(j)' <=> Reported(j)
      OBVIOUS
    <2>1. CASE j = i
      BY <1>3, <1>4, <2>1 DEF Reported
    <2>2. CASE j # i
      <3>1. ~Reporting(w, j) /\ ~Reporting(w, j)'
        BY <1>2, <1>4, <2>2 DEF Reporting
      <3> QED
        BY <1>2, <1>3, <2>2, <3>1 DEF Reported, Reporting
    <2> QED
      BY <2>1, <2>2
  <1> QED
    BY <1>4, <1>5, QuietDocuments

(***************************************************************************)
(* A row that moves without success was not reported, and is not.          *)
(***************************************************************************)
LEMMA OtherRows ==
  ASSUME IInv, [Next]_vars, NEW j \in JobId,
         jobs'[j].status = "succeeded", jobs[j].status # "succeeded"
  PROVE  \E w \in Workers : MarkSucceeded(w)
  <1>1. OneMove
    BY TableStep DEF Unchanging
  <1>2. RowMove(j)
    BY <1>1 DEF OneMove
  <1> QED
    BY <1>2 DEF RowMove

(***************************************************************************)
(* A job that has succeeded stays so.                                      *)
(***************************************************************************)
LEMMA SuccessStays ==
  ASSUME IInv, [Next]_vars, NEW j \in JobId, jobs[j].status = "succeeded"
  PROVE  jobs'[j].status = "succeeded"
  <1>1. CASE \A i \in JobId : Unchanging(i)
    BY <1>1 DEF Unchanging
  <1>2. CASE OneMove
    <2>1. ~RowMove(j)
      BY DEF RowMove
    <2> QED
      BY <1>2, <2>1 DEF OneMove
  <1> QED
    BY <1>1, <1>2, TableStep

(***************************************************************************)
(* Nobody but Ingest and MarkSucceeded stores or reports.                  *)
(***************************************************************************)
LEMMA RestDocuments ==
  ASSUME IInv, [Next]_vars, StoredOnce, Faults \subseteq {"ingest"},
         ~\E w \in Workers : Ingest(w) \/ MarkSucceeded(w)
  PROVE  StoredOnce'
  <1>1. \A j \in JobId : jobs'[j].status = "succeeded" <=> jobs[j].status = "succeeded"
    BY SuccessStays, OtherRows
  <1>2. ASSUME docs' = docs, \A w \in Workers, j \in JobId : Reporting(w, j)' <=> Reporting(w, j)
        PROVE  StoredOnce'
    BY <1>1, <1>2, QuietDocuments DEF Reported
  <1>3. ASSUME NEW c \in Clients, Request(c) \/ ClientStep(c) \/ Abandon(c)
        PROVE  docs' = docs /\ worker' = worker
    BY <1>3 DEF Request, ClientStep, Lookup, Prepare, Insert, Push, Abandon
  <1>4. ASSUME NEW w \in Workers,
               \/ ReadDue(w) \/ Promote(w) \/ Pop(w) \/ ClaimById(w) \/ ClaimNext(w)
               \/ FailRead(w) \/ FailWrite(w) \/ NackJob(w)
               \/ AttemptRaises(w) \/ Restart(w)
        PROVE  StoredOnce'
    <2>1. docs' = docs
      BY <1>4 DEF ReadDue, Promote, Pop, ClaimById, ClaimNext, FailRead, FailWrite, NackJob,
                  AttemptRaises, Restart
    <2>2. worker[w] \in WorkerState
      BY DEF IInv, TypeOK
    <2>3. worker[w].pc # "markSucceeded"
      BY <1>4 DEF ReadDue, Promote, Pop, ClaimById, ClaimNext, AtClaimNext, FailRead, FailWrite,
                  NackJob, AttemptRaises, Restart
    <2>4. \E s : s.pc # "markSucceeded" /\ Moves(w, s)
      <3>1. CASE ReadDue(w) \/ Promote(w) \/ Pop(w) \/ ClaimById(w)
        BY <2>2, <3>1 DEF ReadDue, Promote, Pop, ClaimById, IdleWorker, WorkerState
      <3>2. CASE ClaimNext(w) \/ FailRead(w) \/ FailWrite(w)
        BY <2>2, <3>2 DEF ClaimNext, FailRead, FailWrite, IdleWorker, WorkerState
      <3>3. CASE NackJob(w) \/ AttemptRaises(w) \/ Restart(w)
        BY <2>2, <3>3 DEF NackJob, AttemptRaises, Restart, IdleWorker, WorkerState
      <3> QED
        BY <1>4, <3>1, <3>2, <3>3
    <2>5. worker'[w].pc # "markSucceeded" /\ \A v \in Workers \ {w} : worker'[v] = worker[v]
      BY <2>4, WorkerMoves
    <2> QED
      BY <1>2, <2>1, <2>3, <2>5 DEF Reporting
  <1>5. ASSUME NEW w \in Workers PROVE ~Die(w)
    BY DEF Die
  <1>6. CASE Tick
    BY <1>2, <1>6, TickMoves DEF Reporting, Tick
  <1>7. ASSUME docs' = docs, worker' = worker PROVE StoredOnce'
    BY <1>2, <1>7 DEF Reporting
  <1>8. CASE UNCHANGED vars
    BY <1>7, <1>8 DEF vars
  <1> QED
    BY <1>3, <1>4, <1>5, <1>6, <1>7, <1>8 DEF Next, WorkerStep

(***************************************************************************)
(* While only attempts fail, every payload is stored once, and only for a  *)
(* job that succeeds.  When a transaction may fail after the document is   *)
(* committed, a retry stores it again.                                     *)
(***************************************************************************)
THEOREM DocumentsOnce ==
  ASSUME Faults \subseteq {"ingest"}
  PROVE  Spec => []StoredOnce
  <1>1. Init => StoredOnce
    BY DEF Init, TableInit, NoRow, NewRow, IdleWorker, StoredOnce
  <1>2. IInv /\ StoredOnce /\ [Next]_vars => StoredOnce'
    BY IngestStores, SuccessReports, RestDocuments
  <1> QED
    BY <1>1, <1>2, Safety, PTL DEF Spec

-----------------------------------------------------------------------------
(* Keys.                                                                   *)

(***************************************************************************)
(* The only client is about to insert what it has found missing.           *)
(***************************************************************************)
KeyMissing == \A c \in Clients : client[c].pc = "insert" => WithKey(client[c].key) = {}

KeyInv == OneJobPerKey /\ KeyMissing

(***************************************************************************)
(* A row that is there stays, and keeps its key; a new one is an insert's. *)
(***************************************************************************)
LEMMA KeysStay ==
  ASSUME IInv, [Next]_vars, NEW j \in JobId
  PROVE  /\ j \in Present => j \in Present' /\ jobs'[j].key = jobs[j].key
         /\ j \notin Present /\ j \in Present' =>
              \E c \in Clients : Insert(c) /\ client[c].job = j
  <1>1. CASE \A i \in JobId : Unchanging(i)
    BY <1>1 DEF Unchanging, Present
  <1>2. CASE OneMove
    <2>1. CASE RowMove(j)
      BY <2>1 DEF RowMove, Present
    <2>2. CASE jobs'[j] = jobs[j]
      BY <2>2 DEF Present
    <2> QED
      BY <1>2, <2>1, <2>2 DEF OneMove
  <1> QED
    BY <1>1, <1>2, TableStep

(***************************************************************************)
(* With one client an insert brings a key that no row has.                 *)
(***************************************************************************)
LEMMA InsertKeys ==
  ASSUME IInv, [Next]_vars, KeyInv, \A c, d \in Clients : c = d,
         NEW c \in Clients, Insert(c)
  PROVE  KeyInv'
  <1> DEFINE i == client[c].job
             k == client[c].key
  <1>1. /\ i \in JobId /\ client[c] \in ClientState /\ jobs \in [JobId -> Row]
        /\ client[c].pc = "insert"
    BY DEF IInv, TypeOK, ClientsHold, Insert
  <1>2. jobs'[i].key = k /\ jobs'[i].status = "queued"
    <2>1. jobs' = [jobs EXCEPT ![i] = NewRow(k, client[c].blank, client[c].limit)]
      BY DEF Insert, InsertJob
    <2> HIDE DEF i, k
    <2> QED
      BY <1>1, <2>1 DEF NewRow
  <1>3. WithKey(k) = {} /\ jobs[i].status = "absent"
    BY <1>1 DEF KeyInv, KeyMissing, IInv, ClientsHold
  <1>4. \A j \in Present' : j = i \/ (j \in Present /\ jobs'[j].key = jobs[j].key)
    BY KeysStay DEF Present
  <1>5. OneJobPerKey'
    <2> SUFFICES ASSUME NEW m \in Present', NEW n \in Present',
                        jobs'[m].key = jobs'[n].key, jobs'[m].key # NoKey
                 PROVE  m = n
      BY DEF OneJobPerKey
    <2>1. CASE m # i /\ n # i
      BY <1>4, <2>1 DEF KeyInv, OneJobPerKey
    <2>2. ASSUME NEW j \in Present', j # i PROVE jobs'[j].key # k \/ k = NoKey
      BY <1>3, <1>4, <2>2 DEF WithKey
    <2> QED
      BY <1>2, <2>1, <2>2
  <1>6. \A d \in Clients : client'[d].pc = "push"
    <2>1. client'[c] = [client[c] EXCEPT !.pc = "push"]
      BY <1>1, GoesOne DEF Insert, Goes, IInv, TypeOK
    <2> QED
      BY <1>1, <2>1 DEF ClientState
  <1> QED
    BY <1>5, <1>6 DEF KeyInv, KeyMissing

(***************************************************************************)
(* A request that comes to its insert has looked for the key, and found no *)
(* row with it.                                                            *)
(***************************************************************************)
LEMMA RequestMoves ==
  ASSUME IInv, NEW c \in Clients,
         Request(c) \/ Lookup(c) \/ Prepare(c) \/ Push(c) \/ Abandon(c)
  PROVE  \E s : Goes(c, s) /\ (s.pc = "insert" => WithKey(s.key) = {})
  <1>0. client[c] \in ClientState
    BY DEF IInv, TypeOK
  <1>1. CASE Request(c)
    <2>1. PICK k \in Keys \cup {NoKey}, b \in BOOLEAN, n \in RetryLimits :
            Goes(c, [IdleClient EXCEPT !.pc = IF k = NoKey THEN "prepare" ELSE "lookup",
                                       !.key = k, !.blank = b, !.limit = n])
      BY <1>1 DEF Request
    <2>2. [IdleClient EXCEPT !.pc = IF k = NoKey THEN "prepare" ELSE "lookup",
                             !.key = k, !.blank = b, !.limit = n].pc # "insert"
      BY DEF IdleClient
    <2> QED
      BY <2>1, <2>2
  <1>2. CASE Lookup(c) \/ Push(c) \/ Abandon(c)
    BY <1>0, <1>2 DEF Lookup, Push, Abandon, IdleClient, ClientState
  <1>3. CASE Prepare(c)
    <2>1. CASE \E j \in JobId : Goes(c, [client[c] EXCEPT !.pc = "push", !.job = j,
                                                         !.wait = jobs[j].wait])
      <3>1. PICK j \in JobId : Goes(c, [client[c] EXCEPT !.pc = "push", !.job = j,
                                                        !.wait = jobs[j].wait])
        BY <2>1
      <3>2. [client[c] EXCEPT !.pc = "push", !.job = j, !.wait = jobs[j].wait].pc # "insert"
        BY <1>0 DEF ClientState
      <3> QED
        BY <3>1, <3>2
    <2>2. CASE /\ WithKey(client[c].key) = {}
               /\ \E j \in JobId : Goes(c, [client[c] EXCEPT !.pc = "insert", !.job = j])
      <3>1. PICK j \in JobId : Goes(c, [client[c] EXCEPT !.pc = "insert", !.job = j])
        BY <2>2
      <3>2. [client[c] EXCEPT !.pc = "insert", !.job = j].key = client[c].key
        BY <1>0 DEF ClientState
      <3> QED
        BY <2>2, <3>1, <3>2
    <2> QED
      BY <1>3, <2>1, <2>2 DEF Prepare, WithKey, Present, FreshIds
  <1> QED
    BY <1>1, <1>2, <1>3

(***************************************************************************)
(* Without an insert keys and rows stay as they are; a client is about to  *)
(* insert a key when it has looked for it.                                 *)
(***************************************************************************)
LEMMA RestKeys ==
  ASSUME IInv, [Next]_vars, KeyInv, ~\E c \in Clients : Insert(c)
  PROVE  KeyInv'
  <1>1. Present' = Present /\ \A j \in Present : jobs'[j].key = jobs[j].key
    BY KeysStay DEF Present
  <1>2. OneJobPerKey'
    BY <1>1 DEF KeyInv, OneJobPerKey
  <1>3. \A k : {j \in Present' : jobs'[j].key = k /\ k # NoKey} = WithKey(k)
    BY <1>1 DEF WithKey
  <1>4. ASSUME NEW c \in Clients,
               client'[c].pc = "insert" => WithKey(client'[c].key) = {},
               \A d \in Clients \ {c} : client'[d] = client[d]
        PROVE  KeyMissing'
    BY <1>3, <1>4 DEF KeyInv, KeyMissing, WithKey
  <1>5. ASSUME NEW c \in Clients, Request(c) \/ Lookup(c) \/ Prepare(c) \/ Push(c) \/ Abandon(c)
        PROVE  KeyMissing'
    <2>1. client[c] \in ClientState /\ client \in [Clients -> ClientState]
      BY DEF IInv, TypeOK
    <2>2. PICK s : Goes(c, s) /\ (s.pc = "insert" => WithKey(s.key) = {})
      BY <1>5, RequestMoves
    <2>3. client'[c] = s /\ \A d \in Clients \ {c} : client'[d] = client[d]
      BY <2>1, <2>2 DEF Goes
    <2> QED
      BY <1>4, <2>2, <2>3
  <1>6. ASSUME client' = client PROVE KeyMissing'
    BY <1>3, <1>6 DEF KeyInv, KeyMissing, WithKey
  <1>7. ASSUME NEW w \in Workers, WorkerStep(w) \/ AttemptRaises(w) \/ Die(w) \/ Restart(w)
        PROVE  client' = client
    BY <1>7 DEF WorkerStep, ReadDue, Promote, Pop, ClaimById, ClaimNext, Ingest, MarkSucceeded,
                FailRead, FailWrite, NackJob, AttemptRaises, Die, Restart
  <1>8. ASSUME Tick PROVE KeyMissing'
    <2>1. \A c \in Clients : client'[c].pc = client[c].pc /\ client'[c].key = client[c].key
      BY <1>8, TickMoves
    <2> QED
      BY <1>3, <2>1 DEF KeyInv, KeyMissing, WithKey
  <1>9. ASSUME UNCHANGED vars PROVE KeyMissing'
    BY <1>6, <1>9 DEF vars
  <1>10. KeyMissing'
    BY <1>5, <1>6, <1>7, <1>8, <1>9 DEF Next, ClientStep
  <1> QED
    BY <1>2, <1>10 DEF KeyInv

(***************************************************************************)
(* Requests one after the other never create two jobs with one key,        *)
(* whatever becomes of them and of the jobs.  Two at a time do.            *)
(***************************************************************************)
THEOREM KeysUnique ==
  ASSUME \A c, d \in Clients : c = d
  PROVE  Spec => []OneJobPerKey
  <1>1. Init => KeyInv
    BY DEF Init, TableInit, NoRow, NewRow, IdleClient, KeyInv, OneJobPerKey, KeyMissing, Present
  <1>2. IInv /\ KeyInv /\ [Next]_vars => KeyInv'
    BY InsertKeys, RestKeys
  <1>3. KeyInv => OneJobPerKey
    BY DEF KeyInv
  <1> QED
    BY <1>1, <1>2, <1>3, Safety, PTL DEF Spec

-----------------------------------------------------------------------------
(* Queued jobs can be found.                                               *)

(***************************************************************************)
(* The traces of a job: its id in Redis, and in the hands of a client or a *)
(* worker.                                                                 *)
(***************************************************************************)
InRedis(j) == (\E n \in DOMAIN ready : ready[n] = j) \/ delayed[j] # NotDelayed

Pushing(c, j) == client[c].pc = "push" /\ client[c].job = j

Handling(w, j) == worker[w].pc \in {"claimById", "nack"} /\ worker[w].job = j

Traced(j) == \/ InRedis(j)
             \/ \E c \in Clients : Pushing(c, j)
             \/ \E w \in Workers : Handling(w, j)

ReachInv == LetterInv /\ \A j \in JobId : jobs[j].status = "queued" => Traced(j)

(***************************************************************************)
(* An enqueue leaves a trace and destroys none.                            *)
(***************************************************************************)
LEMMA EnqueueTraces ==
  ASSUME QueueTypeOK, NEW j \in Refs, NEW t \in Nat, Enqueue(j, t)
  PROVE  InRedis(j)' /\ \A i \in Refs : InRedis(i) => InRedis(i)'
  <1>1. CASE t = 0
    <2>1. ready' = Append(ready, j) /\ delayed' = delayed
      BY <1>1 DEF Enqueue
    <2>2. /\ Len(ready) \in Nat /\ DOMAIN ready = 1..Len(ready)
          /\ DOMAIN ready' = 1..(Len(ready) + 1)
          /\ ready'[Len(ready) + 1] = j
          /\ \A n \in DOMAIN ready : ready'[n] = ready[n]
      BY <2>1 DEF QueueTypeOK
    <2> QED
      BY <2>1, <2>2 DEF InRedis
  <1>2. CASE t # 0
    <2>1. delayed' = [delayed EXCEPT ![j] = t] /\ ready' = ready
      BY <1>2 DEF Enqueue
    <2> QED
      BY <2>1 DEF InRedis, QueueTypeOK, NotDelayed
  <1> QED
    BY <1>1, <1>2

(***************************************************************************)
(* An order of a finite set lists all of it.                               *)
(***************************************************************************)
LEMMA OrdersList ==
  ASSUME NEW S, IsFiniteSet(S), NEW s \in Orders(S), NEW j \in S
  PROVE  \E n \in 1..Cardinality(S) : s[n] = j
  <1> DEFINE N == 1..Cardinality(S)
  <1>1. Cardinality(S) \in Nat /\ s \in Injection(N, S)
    BY FS_CardinalityType DEF Orders, Injection, IsInjective
  <1>2. Cardinality(N) = Cardinality(S)
    BY <1>1, FS_Interval
  <1>3. s \in Surjection(N, S)
    BY <1>1, <1>2, FS_Injection
  <1> QED
    BY <1>3 DEF Surjection

(***************************************************************************)
(* A promotion pushes whatever it removes from the delayed set.            *)
(***************************************************************************)
LEMMA PromoteTraces ==
  ASSUME QueueTypeOK, NEW S \in SUBSET Refs, PromoteRefs(S)
  PROVE  \A i \in Refs : InRedis(i) => InRedis(i)'
  <1>1. PICK s \in Orders(S) : ready' = ready \o s
    BY DEF PromoteRefs
  <1>2. IsFiniteSet(S)
    <2>1. IsFiniteSet(1..MaxJobs) /\ Refs = 1..MaxJobs
      BY TableAssumption, ServiceAssumption, FS_Interval DEF JobId
    <2> QED
      BY <2>1, FS_Subset
  <1>3. /\ Cardinality(S) \in Nat /\ DOMAIN s = 1..Cardinality(S) /\ s \in Seq(Refs)
    <2>1. Cardinality(S) \in Nat /\ s \in [1..Cardinality(S) -> Refs]
      BY <1>2, FS_CardinalityType DEF Orders
    <2> QED
      BY <2>1, SeqDef
  <1>4. /\ Len(ready) \in Nat /\ DOMAIN ready = 1..Len(ready)
        /\ Len(s) = Cardinality(S)
        /\ DOMAIN ready' = 1..(Len(ready) + Len(s))
        /\ \A n \in 1..Len(ready) : ready'[n] = ready[n]
        /\ \A n \in 1..Len(s) : ready'[Len(ready) + n] = s[n]
    BY <1>1, <1>3 DEF QueueTypeOK
  <1> SUFFICES ASSUME NEW i \in Refs, InRedis(i) PROVE InRedis(i)'
    OBVIOUS
  <1>5. CASE \E n \in DOMAIN ready : ready[n] = i
    BY <1>4, <1>5 DEF InRedis
  <1>6. CASE i \in S
    <2>1. PICK n \in 1..Len(s) : s[n] = i
      BY <1>2, <1>4, <1>6, OrdersList
    <2>2. Len(ready) + n \in DOMAIN ready' /\ ready'[Len(ready) + n] = i
      BY <1>4, <2>1
    <2> QED
      BY <2>2 DEF InRedis
  <1>7. CASE i \notin S /\ delayed[i] # NotDelayed
    BY <1>7 DEF InRedis, PromoteRefs
  <1> QED
    BY <1>5, <1>6, <1>7 DEF InRedis

(***************************************************************************)
(* A pop takes one id out.                                                 *)
(***************************************************************************)
LEMMA PopTraces ==
  ASSUME QueueTypeOK, PopRef
  PROVE  \A i \in Refs : InRedis(i) => InRedis(i)' \/ i = Head(ready)
  <1>1. /\ Len(ready) \in Nat \ {0} /\ DOMAIN ready = 1..Len(ready)
        /\ ready' = Tail(ready) /\ delayed' = delayed
        /\ Head(ready) = ready[1]
    BY DEF QueueTypeOK, PopRef
  <1>2. DOMAIN ready' = 1..(Len(ready) - 1) /\ \A n \in 1..(Len(ready) - 1) : ready'[n] = ready[n + 1]
    BY <1>1 DEF QueueTypeOK
  <1>3. \A n \in 1..Len(ready) : n = 1 \/ (n - 1 \in 1..(Len(ready) - 1) /\ ready'[n - 1] = ready[n])
    BY <1>1, <1>2
  <1> QED
    BY <1>1, <1>2, <1>3 DEF InRedis

(***************************************************************************)
(* Time destroys no trace: a delayed id stays until it is promoted.        *)
(***************************************************************************)
LEMMA ElapsedTraces ==
  ASSUME QueueTypeOK, QueueElapsed
  PROVE  \A i \in Refs : InRedis(i) => InRedis(i)'
  BY DEF QueueTypeOK, QueueElapsed, InRedis, NotDelayed

(***************************************************************************)
(* A job becomes queued in the hands of who makes it so: the client that   *)
(* inserts it pushes it next, the worker whose attempt failed nacks it.    *)
(***************************************************************************)
LEMMA NewlyQueued ==
  ASSUME IInv, [Next]_vars, NEW j \in JobId,
         jobs[j].status # "queued", jobs'[j].status = "queued"
  PROVE  Traced(j)'
  <1>1. RowMove(j)
    <2>1. OneMove
      BY TableStep DEF Unchanging
    <2> QED
      BY <2>1 DEF OneMove
  <1>2. CASE \E c \in Clients : Insert(c) /\ client[c].job = j
    <2>1. PICK c \in Clients : Insert(c) /\ client[c].job = j
      BY <1>2
    <2>2. client[c] \in ClientState /\ client' = [client EXCEPT ![c] = [client[c] EXCEPT !.pc = "push"]]
          /\ client \in [Clients -> ClientState]
      BY <2>1 DEF Insert, Goes, IInv, TypeOK
    <2>3. Pushing(c, j)'
      BY <2>1, <2>2 DEF Pushing, ClientState
    <2> QED
      BY <2>3 DEF Traced
  <1>3. CASE \E w \in Workers : FailWrite(w) /\ worker[w].job = j
    <2>1. PICK w \in Workers : FailWrite(w) /\ worker[w].job = j
      BY <1>3
    <2>2. /\ worker[w] \in WorkerState
          /\ worker'[w] = [worker[w] EXCEPT !.pc = "nack",
                                            !.dead = ~Retryable(j, worker[w].retry)]
      BY <2>1, WorkerMoves DEF FailWrite, IInv, TypeOK
    <2>3. Handling(w, j)'
      BY <2>1, <2>2 DEF Handling, WorkerState
    <2> QED
      BY <2>3 DEF Traced
  <1> QED
    BY <1>1, <1>2, <1>3 DEF RowMove

(***************************************************************************)
(* A step of a client that pushes nothing hides no trace.                  *)
(***************************************************************************)
LEMMA ClientTraces ==
  ASSUME IInv, NEW c \in Clients, Request(c) \/ Lookup(c) \/ Prepare(c) \/ Insert(c)
  PROVE  \A j \in JobId : Traced(j) => Traced(j)'
  <1>1. client[c].pc # "push" /\ ready' = ready /\ delayed' = delayed /\ worker' = worker
    BY DEF Request, Lookup, Prepare, Insert, queueVars
  <1>2. \A d \in Clients \ {c} : client'[d] = client[d]
    BY DEF Request, Lookup, Prepare, Insert, Goes, IInv, TypeOK
  <1> QED
    BY <1>1, <1>2 DEF Traced, InRedis, Pushing, Handling

(***************************************************************************)
(* A push takes the id out of the client's hands into Redis.               *)
(***************************************************************************)
LEMMA PushTraces ==
  ASSUME IInv, NEW c \in Clients, c \in RedisProcs, Push(c)
  PROVE  \A j \in JobId : Traced(j) => Traced(j)'
  <1>1. /\ client[c].job \in Refs /\ client[c].wait \in Nat
        /\ Enqueue(client[c].job, client[c].wait)
        /\ worker' = worker
    BY ServiceAssumption DEF Push, IInv, TypeOK, ClientsHold, ClientState
  <1>2. \A d \in Clients \ {c} : client'[d] = client[d]
    BY DEF Push, Goes, IInv, TypeOK
  <1>3. \A i \in JobId : InRedis(i) \/ i = client[c].job => InRedis(i)'
    BY <1>1, EnqueueTraces, ServiceAssumption DEF IInv, TypeOK
  <1> QED
    BY <1>1, <1>2, <1>3 DEF Traced, Pushing, Handling

(***************************************************************************)
(* A poll that pops an id has it in hand; one that promotes has pushed     *)
(* what it removed.                                                        *)
(***************************************************************************)
LEMMA PollTraces ==
  ASSUME IInv, NEW w \in Workers, ReadDue(w) \/ Promote(w) \/ Pop(w)
  PROVE  \A j \in JobId : Traced(j) => Traced(j)'
  <1>1. worker[w].pc \notin {"claimById", "nack"} /\ client' = client
    BY DEF ReadDue, Promote, Pop
  <1>2. \A v \in Workers \ {w} : worker'[v] = worker[v]
    BY WorkerMoves DEF ReadDue, Promote, Pop
  <1>3. \A i \in JobId : InRedis(i) => InRedis(i)' \/ Handling(w, i)'
    <2>1. CASE ready' = ready /\ delayed' = delayed
      BY <2>1 DEF InRedis
    <2>2. CASE Promote(w)
      <3>1. PromoteRefs(worker[w].due) /\ worker[w].due \subseteq Refs
        BY <2>2, ServiceAssumption DEF Promote, IInv, TypeOK, WorkerState
      <3> QED
        BY <3>1, PromoteTraces, ServiceAssumption DEF IInv, TypeOK
    <2>3. CASE PopRef /\ Moves(w, [IdleWorker EXCEPT !.pc = "claimById", !.job = Head(ready)])
      <3>1. worker'[w] = [IdleWorker EXCEPT !.pc = "claimById", !.job = Head(ready)]
        BY <2>3, WorkerMoves
      <3>2. \A i : i = Head(ready) => Handling(w, i)'
        BY <3>1 DEF Handling, IdleWorker
      <3> QED
        BY <2>3, <3>2, PopTraces, ServiceAssumption DEF IInv, TypeOK
    <2> QED
      BY <2>1, <2>2, <2>3 DEF ReadDue, Pop, queueVars
  <1> QED
    BY <1>1, <1>2, <1>3 DEF Traced, Pushing, Handling

(***************************************************************************)
(* A worker lets go of a popped id when the job is claimed, or was not to  *)
(* be claimed.                                                             *)
(***************************************************************************)
LEMMA ClaimTraces ==
  ASSUME IInv, NEW w \in Workers, ClaimById(w), NEW j \in JobId,
         jobs'[j].status = "queued", Traced(j)
  PROVE  Traced(j)'
  <1> DEFINE i == worker[w].job
  <1>1. /\ i \in JobId /\ client' = client /\ ready' = ready /\ delayed' = delayed
        /\ jobs \in [JobId -> Row]
    BY DEF ClaimById, IInv, TypeOK, WorkersHold, queueVars
  <1>2. \A v \in Workers \ {w} : worker'[v] = worker[v]
    BY WorkerMoves DEF ClaimById
  <1>3. jobs'[i].status # "queued"
    <2>1. CASE ClaimSelectedRow(i)
      <3>1. jobs'[i] = [jobs[i] EXCEPT !.status = "processing",
                                      !.attempt_count = jobs[i].attempt_count + 1]
        BY <1>1, <2>1 DEF ClaimSelectedRow
      <3> QED
        BY <1>1, <3>1 DEF Row
    <2>2. CASE jobs' = jobs /\ ~ClaimableById(i)
      BY <2>2 DEF ClaimableById
    <2> QED
      BY <2>1, <2>2 DEF ClaimById
  <1> QED
    BY <1>1, <1>2, <1>3 DEF Traced, InRedis, Pushing, Handling

(***************************************************************************)
(* A nack takes a retry out of the worker's hands into Redis; a letter is  *)
(* not of a queued job.                                                    *)
(***************************************************************************)
LEMMA NackTraces ==
  ASSUME IInv, LetterInv, NEW w \in Workers, w \in RedisProcs, NackJob(w),
         NEW j \in JobId, jobs[j].status = "queued", Traced(j)
  PROVE  Traced(j)'
  <1>1. /\ worker[w].job \in JobId /\ worker[w].wait \in Nat
        /\ Nack(worker[w].job, worker[w].wait, worker[w].dead)
        /\ client' = client /\ worker[w].pc = "nack"
    BY DEF NackJob, IInv, TypeOK, WorkersHold, WorkerState
  <1>2. \A v \in Workers \ {w} : worker'[v] = worker[v]
    BY WorkerMoves DEF NackJob
  <1>3. CASE worker[w].dead
    <2>1. worker[w].job # j
      BY <1>1, <1>3 DEF LetterInv, LettersInHand, Letters
    <2>2. ready' = ready /\ delayed' = delayed
      BY <1>1, <1>3 DEF Nack
    <2> QED
      BY <1>1, <1>2, <2>1, <2>2 DEF Traced, InRedis, Pushing, Handling
  <1>4. CASE ~worker[w].dead
    <2>1. Enqueue(worker[w].job, worker[w].wait)
      BY <1>1, <1>4 DEF Nack
    <2>2. \A i \in JobId : InRedis(i) \/ i = worker[w].job => InRedis(i)'
      BY <1>1, <2>1, EnqueueTraces, ServiceAssumption DEF IInv, TypeOK
    <2> QED
      BY <1>1, <1>2, <2>2 DEF Traced, Pushing, Handling
  <1> QED
    BY <1>3, <1>4

(***************************************************************************)
(* The other steps of a worker hold no id that is not claimed.             *)
(***************************************************************************)
LEMMA OwnerTraces ==
  ASSUME IInv, NEW w \in Workers,
         \/ ClaimNext(w) \/ Ingest(w) \/ MarkSucceeded(w) \/ FailRead(w) \/ FailWrite(w)
         \/ AttemptRaises(w) \/ Restart(w)
  PROVE  \A j \in JobId : Traced(j) => Traced(j)'
  <1>1. /\ worker[w].pc \notin {"claimById", "nack"} /\ client' = client
        /\ ready' = ready /\ delayed' = delayed
    BY DEF ClaimNext, AtClaimNext, Ingest, MarkSucceeded, FailRead, FailWrite, AttemptRaises,
           Restart, queueVars
  <1>2. \A v \in Workers \ {w} : worker'[v] = worker[v]
    BY WorkerMoves DEF ClaimNext, Ingest, MarkSucceeded, FailRead, FailWrite, AttemptRaises, Restart
  <1> QED
    BY <1>1, <1>2 DEF Traced, InRedis, Pushing, Handling

(***************************************************************************)
(* Time.                                                                   *)
(***************************************************************************)
LEMMA TickTraces ==
  ASSUME IInv, Tick
  PROVE  \A j \in JobId : Traced(j) => Traced(j)'
  <1>1. \A j \in JobId : InRedis(j) => InRedis(j)'
    BY ElapsedTraces, ServiceAssumption DEF Tick, IInv, TypeOK
  <1> QED
    BY <1>1, TickMoves DEF Traced, Pushing, Handling

(***************************************************************************)
(* Where only attempts fail, and everyone is on Redis.                     *)
(***************************************************************************)
LEMMA NextReach ==
  ASSUME IInv, [Next]_vars, ReachInv,
         Faults \subseteq {"ingest"}, Clients \cup Workers \subseteq RedisProcs
  PROVE  ReachInv'
  <1>1. LetterInv'
    BY NextLetters DEF ReachInv
  <1> SUFFICES ASSUME NEW j \in JobId, jobs'[j].status = "queued" PROVE Traced(j)'
    BY <1>1 DEF ReachInv
  <1>2. CASE jobs[j].status # "queued"
    BY <1>2, NewlyQueued
  <1>3. CASE jobs[j].status = "queued"
    <2>1. Traced(j) /\ LetterInv
      BY <1>3 DEF ReachInv
    <2>2. ASSUME NEW c \in Clients, Request(c) \/ ClientStep(c) \/ Abandon(c)
          PROVE  Traced(j)'
      <3>1. ~Abandon(c)
        BY DEF Abandon
      <3> QED
        BY <2>1, <2>2, <3>1, ClientTraces, PushTraces DEF ClientStep
    <2>3. ASSUME NEW w \in Workers, WorkerStep(w) \/ AttemptRaises(w) \/ Die(w) \/ Restart(w)
          PROVE  Traced(j)'
      <3>1. ~Die(w)
        BY DEF Die
      <3>2. CASE ReadDue(w) \/ Promote(w) \/ Pop(w)
        BY <2>1, <3>2, PollTraces
      <3>3. CASE ClaimById(w)
        BY <2>1, <3>3, ClaimTraces
      <3>4. CASE NackJob(w)
        BY <1>3, <2>1, <3>4, NackTraces
      <3>5. CASE \/ ClaimNext(w) \/ Ingest(w) \/ MarkSucceeded(w) \/ FailRead(w)
                 \/ FailWrite(w) \/ AttemptRaises(w) \/ Restart(w)
        BY <2>1, <3>5, OwnerTraces
      <3> QED
        BY <2>3, <3>1, <3>2, <3>3, <3>4, <3>5 DEF WorkerStep
    <2>4. CASE Tick
      BY <2>1, <2>4, TickTraces
    <2>5. CASE UNCHANGED vars
      BY <2>1, <2>5 DEF vars, Traced, InRedis, Pushing, Handling
    <2> QED
      BY <2>2, <2>3, <2>4, <2>5 DEF Next
  <1> QED
    BY <1>2, <1>3

(***************************************************************************)
(* With everyone on Redis and nothing but attempts failing, a queued job   *)
(* always has a trace: no interleaving of pushes, promotions and pops      *)
(* loses an id.                                                            *)
(***************************************************************************)
THEOREM TracesKept ==
  ASSUME Faults \subseteq {"ingest"}, Clients \cup Workers \subseteq RedisProcs
  PROVE  Spec => []QueuedReachable
  <1>1. Init => ReachInv
    <2>1. Init => LetterInv
      BY DEF Init, QueueInit, IdleWorker, LetterInv, DlqHoldsFailures, LettersInHand, Letters
    <2>2. Init => \A j \in JobId : jobs[j].status # "queued"
      BY DEF Init, TableInit, NoRow, NewRow
    <2> QED
      BY <2>1, <2>2 DEF ReachInv
  <1>2. IInv /\ ReachInv /\ [Next]_vars => ReachInv'
    BY NextReach
  <1>3. ReachInv => QueuedReachable
    BY DEF ReachInv, QueuedReachable, Traced, InRedis, Pushing, Handling
  <1> QED
    BY <1>1, <1>2, <1>3, Safety, PTL DEF Spec
=============================================================================
