------------------------ MODULE IngestionProperties ------------------------
(***************************************************************************)
(* What the ingestion pipeline has to guarantee.                           *)
(***************************************************************************)
EXTENDS IngestionService

Owns(w, j) == worker[w].pc \in Owning /\ worker[w].job = j

(***************************************************************************)
(* Every variable has its type.                                            *)
(***************************************************************************)
TypeOK == /\ jobs \in [JobId -> Row]
          /\ QueueTypeOK
          /\ docs \in [JobId -> Nat]
          /\ client \in [Clients -> ClientState]
          /\ worker \in [Workers -> WorkerState]

(***************************************************************************)
(* A job being attempted is attempted by one worker, and its row says so,  *)
(* although duplicate ids travel through Redis and a claim by id, a claim  *)
(* of the next job and a failure of an earlier attempt may cross.          *)
(***************************************************************************)
ClaimExclusive ==
  \A w \in Workers : worker[w].pc \in Owning =>
    /\ worker[w].job \in JobId
    /\ jobs[worker[w].job].status = "processing"
    /\ \A v \in Workers : Owns(v, worker[w].job) => v = w

(***************************************************************************)
(* attempt_count counts the attempts: the failed ones, and the one that is *)
(* under way or has succeeded.  mark_job_failed computes the retry count   *)
(* from a read made before its update: no failure is lost or counted twice.*)
(***************************************************************************)
AttemptAccounting ==
  \A j \in JobId : jobs[j].attempt_count =
    jobs[j].retry_count + (IF jobs[j].status \in {"processing", "succeeded"} THEN 1 ELSE 0)

(***************************************************************************)
(* A job is dead-lettered exactly when it has failed for good, which is    *)
(* when it has failed once more than max_retries allows, no sooner and no  *)
(* later.                                                                  *)
(***************************************************************************)
DeadLetterIffExhausted ==
  \A j \in JobId :
    /\ jobs[j].dead_lettered <=> jobs[j].status = "failed"
    /\ jobs[j].retry_count <= jobs[j].max_retries + (IF jobs[j].status = "failed" THEN 1 ELSE 0)
    /\ jobs[j].status = "failed" => jobs[j].retry_count = jobs[j].max_retries + 1

(***************************************************************************)
(* A job reported as succeeded names a document that was committed for it, *)
(* and its payload had a text.                                             *)
(***************************************************************************)
SucceededHasDocument ==
  \A j \in JobId : jobs[j].status = "succeeded" =>
    jobs[j].document \in 1..docs[j] /\ ~jobs[j].blank

(***************************************************************************)
(* What clients and workers know between their steps: the strengthening    *)
(* under which the invariants above are inductive.  A worker at work holds *)
(* a job, the retry count it read is still the row's, and the document it  *)
(* is about to report exists; a client about to insert has a row of its    *)
(* own to fill.                                                            *)
(***************************************************************************)
WorkersHold ==
  \A w \in Workers :
    /\ worker[w].pc \in Owning \cup {"claimById", "nack"} => worker[w].job \in JobId
    /\ worker[w].pc = "failWrite" =>
         worker[w].retry = jobs[worker[w].job].retry_count + 1
    /\ worker[w].pc = "markSucceeded" =>
         /\ worker[w].doc \in 1..docs[worker[w].job]
         /\ ~jobs[worker[w].job].blank

ClientsHold ==
  \A c \in Clients :
    /\ client[c].pc \in {"lookup", "prepare", "insert"} => client[c].limit \in RetryLimits
    /\ client[c].pc \in {"insert", "push"} => client[c].job \in JobId
    /\ client[c].pc = "insert" =>
         /\ jobs[client[c].job].status = "absent"
         /\ \A d \in Clients : (client[d].pc = "insert" /\ client[d].job = client[c].job)
                                  => d = c

IInv == /\ TypeOK
        /\ WorkersHold
        /\ ClientsHold
        /\ ClaimExclusive
        /\ AttemptAccounting
        /\ DeadLetterIffExhausted
        /\ SucceededHasDocument

(***************************************************************************)
(* A terminal row is final (but for the time left to its next_attempt_at): *)
(* the answer a client polled never changes, however late a duplicate id   *)
(* or a slow worker is.                                                    *)
(***************************************************************************)
TerminalFinal ==
  [][\A j \in JobId : jobs[j].status \in Terminal =>
       [jobs'[j] EXCEPT !.wait = 0] = [jobs[j] EXCEPT !.wait = 0]]_vars

(***************************************************************************)
(* No attempt starts before the backoff of the previous failure is over.   *)
(* On Redis the claim of a popped id does not look at next_attempt_at, and *)
(* relies on what the id has been through: nack, the delayed set, and a    *)
(* promotion that is not too early (ingestion_job_repository.py 240-257,   *)
(* redis_queue.py 35-43 and 65-75).  It may as long as an id is in one     *)
(* place at a time: with one worker and requests without keys.             *)
(***************************************************************************)
BackoffRespected ==
  [][\A j \in JobId : (jobs[j].status = "queued" /\ jobs'[j].status = "processing")
                        => jobs[j].wait = 0]_vars

(***************************************************************************)
(* Two jobs never carry the same idempotency key.                          *)
(***************************************************************************)
OneJobPerKey ==
  \A i, j \in Present : (jobs[i].key = jobs[j].key /\ jobs[i].key # NoKey) => i = j

(***************************************************************************)
(* The dead-letter list holds jobs that have failed for good, each once.   *)
(***************************************************************************)
DlqHoldsFailures ==
  /\ \A n \in DOMAIN dlq : jobs[dlq[n]].status = "failed"
  /\ \A m, n \in DOMAIN dlq : dlq[m] = dlq[n] => m = n

(***************************************************************************)
(* With every process on Redis and no crash or lost call, a queued job can *)
(* be found: its id is in Redis, or somebody is about to push or claim it. *)
(* A promotion removes what it read earlier from the delayed set, and must *)
(* not remove the only trace of a job.                                     *)
(***************************************************************************)
QueuedReachable ==
  \A j \in JobId : jobs[j].status = "queued" =>
    \/ \E n \in DOMAIN ready : ready[n] = j
    \/ delayed[j] # NotDelayed
    \/ \E c \in Clients : client[c].pc = "push" /\ client[c].job = j
    \/ \E w \in Workers : worker[w].pc \in {"claimById", "nack"} /\ worker[w].job = j

(***************************************************************************)
(* While only attempts fail, before their document is written, a payload   *)
(* is stored once, and only for a job that succeeds.                       *)
(***************************************************************************)
StoredOnce ==
  \A j \in JobId : docs[j] =
    IF \/ jobs[j].status = "succeeded"
       \/ \E w \in Workers : worker[w].pc = "markSucceeded" /\ worker[w].job = j
    THEN 1 ELSE 0

(***************************************************************************)
(* Whatever fails, and wherever a worker dies, a payload is stored at most *)
(* once per attempt, and so at most max_retries + 1 times: a retry after a *)
(* committed document may store it again, nothing else does.               *)
(***************************************************************************)
StoredWithinBudget ==
  \A j \in JobId : /\ docs[j] <= jobs[j].attempt_count
                   /\ jobs[j].attempt_count <= jobs[j].max_retries + 1

(***************************************************************************)
(* With every worker on Redis, and none that dies between the update of a  *)
(* row and its nack, no letter is missing: a job that has failed for good  *)
(* is in the dead-letter list, or in the hands of the worker that is about *)
(* to append it.                                                           *)
(***************************************************************************)
FailuresLettered ==
  \A j \in JobId : jobs[j].status = "failed" =>
    \/ \E n \in DOMAIN dlq : dlq[n] = j
    \/ \E w \in Workers : worker[w].pc = "nack" /\ worker[w].dead /\ worker[w].job = j

(***************************************************************************)
(* Every job that was accepted ends.                                       *)
(***************************************************************************)
EveryJobEnds ==
  \A j \in JobId : jobs[j].status # "absent" ~> jobs[j].status \in Terminal

(***************************************************************************)
(* Recovery: once failures have stopped and the dead workers have been     *)
(* restarted, a queued job is claimed, and every job ends.                 *)
(***************************************************************************)
Failure == \/ \E w \in Workers : Die(w) \/ AttemptRaises(w)
           \/ \E c \in Clients : Abandon(c)

Calm == <>[][~Failure]_vars

QueuedIsClaimed == Calm =>
  \A j \in JobId : jobs[j].status = "queued" ~> jobs[j].status # "queued"

CalmJobsEnd == Calm => EveryJobEnds

RestartSpec == FairSpec /\ \A w \in Workers : WF_vars(Restart(w))

(***************************************************************************)
(* The pipeline implements the life cycle of a job.                        *)
(***************************************************************************)
LifeOf(j) == [status   |-> jobs[j].status,
              limit    |-> jobs[j].max_retries,
              attempts |-> jobs[j].attempt_count,
              failures |-> jobs[j].retry_count]

Lives == [j \in JobId |-> LifeOf(j)]

LifeCycle == INSTANCE JobLifecycle WITH life <- Lives

ImplementsLifecycle == LifeCycle!LifeSpec
=============================================================================
