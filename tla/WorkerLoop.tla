----------------------------- MODULE WorkerLoop -----------------------------
(***************************************************************************)
(* IngestionWorker (src/app/ingestion/worker.py): a daemon thread that     *)
(* processes jobs in batches until an event tells it to stop.  The event   *)
(* is looked at between batches only.  IngestionService models what        *)
(* happens to the jobs.                                                    *)
(***************************************************************************)
EXTENDS Naturals

CONSTANTS Embedded,       \* the processes that run a loop
          MaxBatch        \* ingestion_worker_batch_size

ASSUME WorkerAssumption == MaxBatch \in Nat \ {0}

VARIABLES loop,           \* per process: where the thread is
          taken,          \* jobs of the batch so far
          stopEvent,
          late            \* history: jobs begun after the event was set

workerVars == <<loop, taken, stopEvent, late>>

LoopPC == {"none", "check", "batch", "wait", "ended"}

WorkerInit == /\ loop = [s \in Embedded |-> "none"]
              /\ taken = [s \in Embedded |-> 0]
              /\ stopEvent = [s \in Embedded |-> FALSE]
              /\ late = [s \in Embedded |-> 0]

Moves(s, pc) == loop' = [loop EXCEPT ![s] = pc]

(***************************************************************************)
(* start: no caller has a thread yet, each starts its worker once.         *)
(***************************************************************************)
StartLoop(s) ==
  /\ loop[s] = "none"
  /\ stopEvent' = [stopEvent EXCEPT ![s] = FALSE]
  /\ Moves(s, "check")
  /\ UNCHANGED <<taken, late>>

(***************************************************************************)
(* _run_loop                                                               *)
(***************************************************************************)
MutantCheckEvent(s) ==                        \* while True
  /\ loop[s] = "check"
  /\ Moves(s, "batch")
  /\ taken' = [taken EXCEPT ![s] = 0]
  /\ UNCHANGED <<stopEvent, late>>

CheckEvent(s) ==
  /\ loop[s] = "check"
  /\ Moves(s, IF stopEvent[s] THEN "ended" ELSE "batch")
  /\ taken' = [taken EXCEPT ![s] = 0]
  /\ UNCHANGED <<stopEvent, late>>

(***************************************************************************)
(* process_jobs: another job, as long as there is one, up to the limit.    *)
(***************************************************************************)
MutantTakeJob(s) ==                           \* range(max_jobs + 1)
  /\ loop[s] = "batch" /\ taken[s] <= MaxBatch
  /\ taken' = [taken EXCEPT ![s] = @ + 1]
  /\ late' = [late EXCEPT ![s] = IF stopEvent[s] THEN @ + 1 ELSE @]
  /\ UNCHANGED <<loop, stopEvent>>

TakeJob(s) ==
  /\ loop[s] = "batch" /\ taken[s] < MaxBatch
  /\ taken' = [taken EXCEPT ![s] = @ + 1]
  /\ late' = [late EXCEPT ![s] = IF stopEvent[s] THEN @ + 1 ELSE @]
  /\ UNCHANGED <<loop, stopEvent>>

EndBatch(s) ==
  /\ loop[s] = "batch"
  /\ Moves(s, IF taken[s] = 0 THEN "wait" ELSE "check")
  /\ UNCHANGED <<taken, stopEvent, late>>

(***************************************************************************)
(* The poll interval is over, or the event set.                            *)
(***************************************************************************)
WakeUp(s) ==
  /\ loop[s] = "wait"
  /\ Moves(s, "check")
  /\ UNCHANGED <<taken, stopEvent, late>>

(***************************************************************************)
(* claim_next or any transaction around a job raises: the thread ends, its *)
(* process does not notice.                                                *)
(***************************************************************************)
LoopRaises(s) ==
  /\ loop[s] = "batch"
  /\ Moves(s, "ended")
  /\ UNCHANGED <<taken, stopEvent, late>>

(***************************************************************************)
(* stop sets the event, and waits for the thread.                          *)
(***************************************************************************)
SetEvent(s) == /\ stopEvent' = [stopEvent EXCEPT ![s] = TRUE]
               /\ UNCHANGED <<loop, taken, late>>

(***************************************************************************)
(* The process is gone, the daemon thread with it.                         *)
(***************************************************************************)
LoopGone(s) == /\ Moves(s, "none")
               /\ taken' = [taken EXCEPT ![s] = 0]
               /\ stopEvent' = [stopEvent EXCEPT ![s] = FALSE]
               /\ late' = [late EXCEPT ![s] = 0]

LoopStep(s) == CheckEvent(s) \/ TakeJob(s) \/ EndBatch(s) \/ WakeUp(s)
=============================================================================
