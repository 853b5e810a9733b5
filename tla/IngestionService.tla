-------------------------- MODULE IngestionService --------------------------
(***************************************************************************)
(* The ingestion pipeline (src/app/ingestion/service.py): clients enqueue  *)
(* texts, workers claim the jobs and ingest them, and the two meet in the  *)
(* job table and, where a process runs the Redis backend, in Redis.        *)
(*                                                                         *)
(* A step of a client or a worker is one transaction on the table, one     *)
(* round trip to Redis or one piece of local work: everybody may act       *)
(* between two of them.  A value read in one step and used in a later one  *)
(* is kept in the local state of who read it.                              *)
(***************************************************************************)
EXTENDS JobTable, RedisQueue

CONSTANTS Clients,      \* concurrent requests to POST .../ingestion/jobs
          Workers,      \* concurrent callers of process_next_job
          RedisProcs,   \* those of them whose factory built a Redis backend
          Faults        \* the kinds of failure that may happen

ASSUME ServiceAssumption == /\ Clients \cap Workers = {}
                            /\ RedisProcs \subseteq Clients \cup Workers
                            /\ Faults \subseteq {"ingest", "db", "redis", "crash"}
                            /\ Refs = JobId

VARIABLES docs,         \* per job: documents committed for its payload
          client,       \* local state of the requests
          worker        \* local state of the workers

vars == <<jobs, ready, delayed, dlq, docs, client, worker>>

ClientPC == {"idle", "lookup", "prepare", "insert", "push"}

Owning   == {"ingest", "markSucceeded", "failRead", "failWrite"}
WorkerPC == {"idle", "promote", "pop", "claimById", "claimNext", "nack", "dead"}
              \cup Owning

ClientState == [pc : ClientPC, key : Keys \cup {NoKey}, blank : BOOLEAN,
                limit : Nat, job : JobId \cup {NoJob}, wait : 0..MaxBackoff]

WorkerState == [pc : WorkerPC, job : JobId \cup {NoJob}, due : SUBSET JobId,
                retry : Nat, wait : 0..MaxBackoff, dead : BOOLEAN, doc : Nat]

IdleClient == [pc |-> "idle", key |-> NoKey, blank |-> FALSE, limit |-> 0,
               job |-> NoJob, wait |-> 0]

IdleWorker == [pc |-> "idle", job |-> NoJob, due |-> {}, retry |-> 0,
               wait |-> 0, dead |-> FALSE, doc |-> NoJob]

Init == /\ TableInit
        /\ QueueInit
        /\ docs = [j \in JobId |-> 0]
        /\ client = [c \in Clients |-> IdleClient]
        /\ worker = [w \in Workers |-> IdleWorker]

-----------------------------------------------------------------------------
(* Clients: enqueue_text.                                                  *)

Goes(c, state) == client' = [client EXCEPT ![c] = state]

(***************************************************************************)
(* Ids no row has and no request has taken for a row it is about to insert.*)
(***************************************************************************)
FreshIds == {j \in JobId : /\ jobs[j].status = "absent"
                           /\ \A c \in Clients :
                                client[c].pc = "insert" => client[c].job # j}

(***************************************************************************)
(* A request arrives.  Bound: there is a row left for each request under   *)
(* way, so that none is refused for want of one.                           *)
(***************************************************************************)
Request(c) ==
  /\ client[c].pc = "idle"
  /\ Cardinality({d \in Clients : client[d].pc \in {"lookup", "prepare", "insert"}})
       < Cardinality(JobId \ Present)
  /\ \E k \in Keys \cup {NoKey}, b \in BOOLEAN, n \in RetryLimits :
       Goes(c, [IdleClient EXCEPT !.pc = IF k = NoKey THEN "prepare" ELSE "lookup",
                                  !.key = k, !.blank = b, !.limit = n])
  /\ UNCHANGED <<jobs, queueVars, docs, worker>>

(***************************************************************************)
(* The service's own lookup of the key: a job found is the answer.         *)
(***************************************************************************)
Lookup(c) ==
  /\ client[c].pc = "lookup"
  /\ Goes(c, IF WithKey(client[c].key) # {} THEN IdleClient
             ELSE [client[c] EXCEPT !.pc = "prepare"])
  /\ UNCHANGED <<jobs, queueVars, docs, worker>>

(***************************************************************************)
(* enqueue_text_job up to its INSERT: the repository looks the key up once *)
(* more, in a transaction of its own; a job found is returned to the       *)
(* service, which pushes it again.  Otherwise the new row gets its id and  *)
(* its created_at.                                                         *)
(***************************************************************************)
Prepare(c) ==
  /\ client[c].pc = "prepare"
  /\ \/ \E j \in WithKey(client[c].key) :
          /\ j = Newest(WithKey(client[c].key))
          /\ Goes(c, [client[c] EXCEPT !.pc = "push", !.job = j,
                                       !.wait = jobs[j].wait])
     \/ /\ WithKey(client[c].key) = {}
        /\ \E j \in FreshIds :
             /\ j = Oldest(FreshIds)
             /\ Goes(c, [client[c] EXCEPT !.pc = "insert", !.job = j])
  /\ UNCHANGED <<jobs, queueVars, docs, worker>>

Insert(c) ==
  /\ client[c].pc = "insert"
  /\ InsertJob(client[c].job, client[c].key, client[c].blank, client[c].limit)
  /\ Goes(c, [client[c] EXCEPT !.pc = "push"])
  /\ UNCHANGED <<queueVars, docs, worker>>

(***************************************************************************)
(* queue_backend.enqueue, with the next_attempt_at of the row that was     *)
(* returned; it does nothing on the sqlite backend.                        *)
(***************************************************************************)
Push(c) ==
  /\ client[c].pc = "push"
  /\ IF c \in RedisProcs THEN Enqueue(client[c].job, client[c].wait)
     ELSE UNCHANGED queueVars
  /\ Goes(c, IdleClient)
  /\ UNCHANGED <<jobs, docs, worker>>

(***************************************************************************)
(* The request ends early: the process crashes, or the call under way      *)
(* raises and nothing in enqueue_text catches it.                          *)
(***************************************************************************)
Abandon(c) ==
  /\ \/ "crash" \in Faults /\ client[c].pc # "idle"
     \/ "db"    \in Faults /\ client[c].pc \in {"lookup", "prepare", "insert"}
     \/ "redis" \in Faults /\ client[c].pc = "push" /\ c \in RedisProcs
  /\ Goes(c, IdleClient)
  /\ UNCHANGED <<jobs, queueVars, docs, worker>>

ClientStep(c) == Lookup(c) \/ Prepare(c) \/ Insert(c) \/ Push(c)

-----------------------------------------------------------------------------
(* Workers: process_next_job, in the loop of process_jobs and _run_loop.   *)

Moves(w, state) == worker' = [worker EXCEPT ![w] = state]

(***************************************************************************)
(* dequeue, first round trip: which delayed ids are due.                   *)
(***************************************************************************)
ReadDue(w) ==
  /\ worker[w].pc = "idle" /\ w \in RedisProcs
  /\ Moves(w, [IdleWorker EXCEPT !.pc = IF DueRefs = {} THEN "pop" ELSE "promote",
                                 !.due = DueRefs])
  /\ UNCHANGED <<jobs, queueVars, docs, client>>

(***************************************************************************)
(* Second round trip: promote the ids that were due when they were read.   *)
(***************************************************************************)
Promote(w) ==
  /\ worker[w].pc = "promote"
  /\ PromoteRefs(worker[w].due)
  /\ Moves(w, [IdleWorker EXCEPT !.pc = "pop"])
  /\ UNCHANGED <<jobs, docs, client>>

(***************************************************************************)
(* Third round trip: pop an id, or find the list empty and give up.        *)
(***************************************************************************)
Pop(w) ==
  /\ worker[w].pc = "pop"
  /\ \/ /\ PopRef
        /\ Moves(w, [IdleWorker EXCEPT !.pc = "claimById", !.job = Head(ready)])
     \/ /\ ready = <<>>
        /\ Moves(w, IdleWorker)
        /\ UNCHANGED queueVars
  /\ UNCHANGED <<jobs, docs, client>>

(***************************************************************************)
(* claim_job_by_id on the popped id; when it is not queued, _claim_next_job*)
(* falls through to claim_next_job.                                        *)
(***************************************************************************)
ClaimById(w) ==
  /\ worker[w].pc = "claimById"
  /\ \/ /\ ClaimableById(worker[w].job)
        /\ ClaimSelectedRow(worker[w].job)
        /\ Moves(w, [worker[w] EXCEPT !.pc = "ingest"])
     \/ /\ ~ClaimableById(worker[w].job)
        /\ Moves(w, [IdleWorker EXCEPT !.pc = "claimNext"])
        /\ UNCHANGED jobs
  /\ UNCHANGED <<queueVars, docs, client>>

(***************************************************************************)
(* claim_next_job: the oldest due job, in one IMMEDIATE transaction.  A    *)
(* worker on the sqlite backend starts here.                               *)
(***************************************************************************)
AtClaimNext(w) == worker[w].pc = IF w \in RedisProcs THEN "claimNext" ELSE "idle"

ClaimNext(w) ==
  /\ AtClaimNext(w)
  /\ \/ \E j \in DueJobs :
          /\ j = Oldest(DueJobs)
          /\ ClaimSelectedRow(j)
          /\ Moves(w, [IdleWorker EXCEPT !.pc = "ingest", !.job = j])
     \/ /\ DueJobs = {}
        /\ Moves(w, IdleWorker)
        /\ UNCHANGED jobs
  /\ UNCHANGED <<queueVars, docs, client>>

(***************************************************************************)
(* _ingest_text_now: a blank payload raises before anything is written;    *)
(* otherwise the document and its chunks are committed.                    *)
(***************************************************************************)
MutantIngestUnchecked(w) ==      \* does not raise on a payload without text
  /\ worker[w].pc = "ingest"
  /\ docs' = [docs EXCEPT ![worker[w].job] = @ + 1]
  /\ Moves(w, [worker[w] EXCEPT !.pc = "markSucceeded",
                                !.doc = docs[worker[w].job] + 1])
  /\ UNCHANGED <<jobs, queueVars, client>>

Ingest(w) ==
  /\ worker[w].pc = "ingest"
  /\ LET j == worker[w].job IN
       \/ /\ jobs[j].blank
          /\ Moves(w, [worker[w] EXCEPT !.pc = "failRead"])
          /\ UNCHANGED docs
       \/ /\ ~jobs[j].blank
          /\ docs' = [docs EXCEPT ![j] = @ + 1]
          /\ Moves(w, [worker[w] EXCEPT !.pc = "markSucceeded", !.doc = docs[j] + 1])
  /\ UNCHANGED <<jobs, queueVars, client>>

(***************************************************************************)
(* mark_job_succeeded and the ack, which does nothing on either backend.   *)
(***************************************************************************)
MarkSucceeded(w) ==
  /\ worker[w].pc = "markSucceeded"
  /\ MarkJobSucceeded(worker[w].job, worker[w].doc)
  /\ Moves(w, IdleWorker)
  /\ UNCHANGED <<queueVars, docs, client>>

(***************************************************************************)
(* mark_job_failed reads the row outside a transaction ...                 *)
(***************************************************************************)
MutantFailReadUncounted(w) ==    \* forgets to count the failure
  /\ worker[w].pc = "failRead"
  /\ LET n == jobs[worker[w].job].retry_count IN
       Moves(w, [worker[w] EXCEPT !.pc = "failWrite", !.retry = n,
                                  !.wait = Backoff(n + 1)])
  /\ UNCHANGED <<jobs, queueVars, docs, client>>

FailRead(w) ==
  /\ worker[w].pc = "failRead"
  /\ LET n == jobs[worker[w].job].retry_count + 1 IN
       Moves(w, [worker[w] EXCEPT !.pc = "failWrite", !.retry = n,
                                  !.wait = Backoff(n)])
  /\ UNCHANGED <<jobs, queueVars, docs, client>>

(***************************************************************************)
(* ... and updates it with what it computed from that read.                *)
(***************************************************************************)
MutantFailWriteEarlyLetter(w) == \* dead-letters the last retry
  /\ worker[w].pc = "failWrite"
  /\ LET j == worker[w].job
         n == worker[w].retry
     IN  /\ MarkJobFailed(j, n, worker[w].wait)
         /\ Moves(w, [worker[w] EXCEPT !.pc = "nack", !.dead = ~Retryable(j, n + 1)])
  /\ UNCHANGED <<queueVars, docs, client>>

MutantFailWriteLateLetter(w) ==  \* decides on the count before this failure
  /\ worker[w].pc = "failWrite"
  /\ LET j == worker[w].job
         n == worker[w].retry
     IN  /\ MarkJobFailed(j, n, worker[w].wait)
         /\ Moves(w, [worker[w] EXCEPT !.pc = "nack", !.dead = ~Retryable(j, n - 1)])
  /\ UNCHANGED <<queueVars, docs, client>>

FailWrite(w) ==
  /\ worker[w].pc = "failWrite"
  /\ LET j == worker[w].job
         n == worker[w].retry
     IN  /\ MarkJobFailed(j, n, worker[w].wait)
         /\ Moves(w, [worker[w] EXCEPT !.pc = "nack", !.dead = ~Retryable(j, n)])
  /\ UNCHANGED <<queueVars, docs, client>>

NackJob(w) ==
  /\ worker[w].pc = "nack"
  /\ IF w \in RedisProcs
     THEN Nack(worker[w].job, worker[w].wait, worker[w].dead)
     ELSE UNCHANGED queueVars
  /\ Moves(w, IdleWorker)
  /\ UNCHANGED <<jobs, docs, client>>

WorkerStep(w) ==
  \/ ReadDue(w) \/ Promote(w) \/ Pop(w) \/ ClaimById(w) \/ ClaimNext(w)
  \/ Ingest(w) \/ MarkSucceeded(w) \/ FailRead(w) \/ FailWrite(w) \/ NackJob(w)

(***************************************************************************)
(* An exception inside the try of process_next_job: the embedding or the   *)
(* document transaction raises, or mark_job_succeeded does, after the      *)
(* document has been committed.                                            *)
(***************************************************************************)
MutantRaisesLate(w) ==           \* may raise once the document is committed
  /\ worker[w].pc \in {"ingest", "markSucceeded"} /\ Faults # {}
  /\ Moves(w, [worker[w] EXCEPT !.pc = "failRead", !.doc = NoJob])
  /\ UNCHANGED <<jobs, queueVars, docs, client>>

AttemptRaises(w) ==
  /\ \/ worker[w].pc = "ingest" /\ {"ingest", "db"} \cap Faults # {}
     \/ worker[w].pc = "markSucceeded" /\ "db" \in Faults
  /\ Moves(w, [worker[w] EXCEPT !.pc = "failRead", !.doc = NoJob])
  /\ UNCHANGED <<jobs, queueVars, docs, client>>

(***************************************************************************)
(* The process crashes, or an exception outside the try (or inside the     *)
(* except clause) reaches _run_loop, which does not catch it: the worker   *)
(* thread is gone, with what it held.  A call to Redis that raises may     *)
(* have been carried out: after an lpop the id is gone, too.               *)
(***************************************************************************)
Die(w) ==
  /\ \/ "crash" \in Faults /\ worker[w].pc # "dead"
     \/ "db"    \in Faults /\ \/ worker[w].pc \in {"claimById", "failRead", "failWrite"}
                              \/ AtClaimNext(w)
     \/ "redis" \in Faults /\ w \in RedisProcs
                           /\ worker[w].pc \in {"idle", "promote", "pop", "claimById", "nack"}
  /\ Moves(w, [IdleWorker EXCEPT !.pc = "dead"])
  /\ UNCHANGED <<jobs, queueVars, docs, client>>

(***************************************************************************)
(* An operator restarts the process.  Nothing is recovered at start-up.    *)
(***************************************************************************)
Restart(w) ==
  /\ worker[w].pc = "dead"
  /\ Moves(w, IdleWorker)
  /\ UNCHANGED <<jobs, queueVars, docs, client>>

-----------------------------------------------------------------------------
(***************************************************************************)
(* A tick of the clock: every moment in the table, in Redis and in the     *)
(* hands of a client or a worker comes nearer.                             *)
(***************************************************************************)
Tick ==
  /\ TableElapsed
  /\ QueueElapsed
  /\ client' = [c \in Clients |-> [client[c] EXCEPT !.wait = Sooner(@)]]
  /\ worker' = [w \in Workers |-> [worker[w] EXCEPT !.wait = Sooner(@)]]
  /\ UNCHANGED docs

Next ==
  \/ \E c \in Clients : Request(c) \/ ClientStep(c) \/ Abandon(c)
  \/ \E w \in Workers : WorkerStep(w) \/ AttemptRaises(w) \/ Die(w) \/ Restart(w)
  \/ Tick

Spec == Init /\ [][Next]_vars

(***************************************************************************)
(* A worker that is alive keeps running, a request under way runs to its   *)
(* end and time passes.  Nothing obliges a new request, a failure or a     *)
(* restart to happen.                                                      *)
(***************************************************************************)
Fairness == /\ \A w \in Workers : WF_vars(WorkerStep(w))
            /\ \A c \in Clients : WF_vars(ClientStep(c))
            /\ WF_vars(Tick)

FairSpec == Spec /\ Fairness
=============================================================================
