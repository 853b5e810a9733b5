------------------------------ MODULE JobTable ------------------------------
(***************************************************************************)
(* The ingestion_jobs table and the transactions of IngestionJobRepository *)
(* on it (src/app/storage/ingestion_job_repository.py).                    *)
(*                                                                         *)
(* A job is a number: ids are given in the order of created_at, the column *)
(* the repository sorts by.  Time is relative: "wait" is what is left      *)
(* until next_attempt_at, and Elapsed lets one tick of it pass.            *)
(***************************************************************************)
EXTENDS Integers

CONSTANTS MaxJobs,       \* bound: the rows that can ever be inserted
          Keys,          \* idempotency keys, one per (knowledge base, key)
          NoKey,         \* the empty idempotency key
          RetryLimits,   \* the values max_retries is given
          BaseBackoff,   \* max(ingestion_retry_backoff_seconds, 0), in ticks
          MaxBackoff     \* ingestion_retry_max_backoff_seconds, in ticks

ASSUME TableAssumption == /\ MaxJobs \in Nat
                          /\ NoKey \notin Keys
                          /\ RetryLimits \subseteq Nat
                          /\ BaseBackoff \in Nat
                          /\ MaxBackoff \in Nat

VARIABLE jobs            \* the table: a row for every job id

JobId == 1..MaxJobs
NoJob == 0               \* no job, and the NULL document_id

Open     == {"queued", "processing"}
Terminal == {"succeeded", "failed"}

Status   == {"absent"} \cup Open \cup Terminal

Row == [status        : Status,
        retry_count   : Nat,
        attempt_count : Nat,
        max_retries   : Nat,
        wait          : 0..MaxBackoff,
        dead_lettered : BOOLEAN,
        key           : Keys \cup {NoKey},
        blank         : BOOLEAN,      \* the payload has no text to chunk
        document      : Nat]

(***************************************************************************)
(* A row as it is inserted, and the place of one that is not yet.          *)
(***************************************************************************)
NewRow(k, blank, limit) ==
  [status |-> "queued", retry_count |-> 0, attempt_count |-> 0,
   max_retries |-> limit, wait |-> 0, dead_lettered |-> FALSE,
   key |-> k, blank |-> blank, document |-> NoJob]

NoRow == [NewRow(NoKey, FALSE, 0) EXCEPT !.status = "absent"]

TableInit == jobs = [j \in JobId |-> NoRow]

Present == {j \in JobId : jobs[j].status # "absent"}

Oldest(S) == CHOOSE j \in S : \A i \in S : j <= i
Newest(S) == CHOOSE j \in S : \A i \in S : i <= j

(***************************************************************************)
(* get_by_idempotency_key: the rows that carry the key.  The empty key is  *)
(* never looked up.                                                        *)
(***************************************************************************)
MutantWithOpenKey(k) ==          \* forgets the jobs that have ended
  {j \in Present : jobs[j].key = k /\ k # NoKey /\ jobs[j].status \in Open}

WithKey(k) == {j \in Present : jobs[j].key = k /\ k # NoKey}

(***************************************************************************)
(* enqueue_text_job's INSERT.                                              *)
(***************************************************************************)
InsertJob(j, k, blank, limit) ==
  jobs' = [jobs EXCEPT ![j] = NewRow(k, blank, limit)]

(***************************************************************************)
(* What claim_next_job and claim_job_by_id may select: the first respects  *)
(* next_attempt_at, the second looks at the status alone.                  *)
(***************************************************************************)
MutantDueWithinBudget ==         \* gives the last retry up
  {j \in JobId : /\ jobs[j].status = "queued" /\ jobs[j].wait = 0
                 /\ jobs[j].attempt_count < jobs[j].max_retries}

DueJobs == {j \in JobId : jobs[j].status = "queued" /\ jobs[j].wait = 0}

MutantClaimableOpen(j) == jobs[j].status \in Open     \* takes a job under way

MutantClaimableIdle(j) == jobs[j].status # "processing" \* takes a job that ended

ClaimableById(j) == jobs[j].status = "queued"

MutantClaimUncounted(j) ==       \* does not count the attempt
  jobs' = [jobs EXCEPT ![j] = [@ EXCEPT !.status = "processing"]]

ClaimSelectedRow(j) ==
  jobs' = [jobs EXCEPT ![j] = [@ EXCEPT !.status = "processing",
                         !.attempt_count = jobs[j].attempt_count + 1]]

(***************************************************************************)
(* mark_job_succeeded: unconditional, by id.                               *)
(***************************************************************************)
MarkJobSucceeded(j, doc) ==
  jobs' = [jobs EXCEPT ![j] = [@ EXCEPT !.status = "succeeded", !.document = doc,
                                        !.dead_lettered = FALSE]]

(***************************************************************************)
(* The backoff after the n-th failure: min(MaxBackoff, Base * 2^(n-1)).    *)
(***************************************************************************)
MutantBackoffUncapped(n) == BaseBackoff * 2^(n - 1)

Backoff(n) == LET d == BaseBackoff * 2^(n - 1)
              IN  IF d \in 0..MaxBackoff THEN d ELSE MaxBackoff

(***************************************************************************)
(* mark_job_failed's UPDATE, with the retry count n and the delay it       *)
(* computed from the row it read before.                                   *)
(***************************************************************************)
MutantRetryableStrict(j, n) == n < jobs[j].max_retries

Retryable(j, n) == n <= jobs[j].max_retries

MarkJobFailed(j, n, delay) ==
  jobs' = [jobs EXCEPT ![j] =
    IF Retryable(j, n)
    THEN [@ EXCEPT !.status = "queued", !.retry_count = n, !.wait = delay,
                   !.dead_lettered = FALSE]
    ELSE [@ EXCEPT !.status = "failed", !.retry_count = n, !.wait = 0,
                   !.dead_lettered = TRUE]]

(***************************************************************************)
(* One tick nearer to a moment that is w ticks away.                       *)
(***************************************************************************)
Sooner(w) == IF w > 0 THEN w - 1 ELSE w

TableElapsed == jobs' = [j \in JobId |-> [jobs[j] EXCEPT !.wait = Sooner(@)]]
=============================================================================
