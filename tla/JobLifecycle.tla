---------------------------- MODULE JobLifecycle ----------------------------
(***************************************************************************)
(* What the ingestion pipeline promises about one job, whatever queue,     *)
(* worker or client is involved: the state machine                         *)
(*   queued -> processing -> succeeded | queued (retry) | failed           *)
(* with a bounded number of attempts.  IngestionService implements it.     *)
(***************************************************************************)
EXTENDS Naturals

CONSTANTS JobId,        \* job identifiers
          RetryLimits   \* the values max_retries may have

VARIABLE life           \* per job: its status, budget and counters

Stage(status, limit, attempts, failures) ==
  [status |-> status, limit |-> limit, attempts |-> attempts, failures |-> failures]

Become(j, stage) == life' = [life EXCEPT ![j] = stage]

LifeInit == life = [j \in JobId |-> Stage("absent", 0, 0, 0)]

(***************************************************************************)
(* A request creates the job, with a budget of retries.                    *)
(***************************************************************************)
Submit(j) ==
  /\ life[j].status = "absent"
  /\ \E n \in RetryLimits : Become(j, Stage("queued", n, 0, 0))

(***************************************************************************)
(* Somebody takes a queued job and starts an attempt.                      *)
(***************************************************************************)
Begin(j) ==
  /\ life[j].status = "queued"
  /\ Become(j, Stage("processing", life[j].limit, life[j].attempts + 1, life[j].failures))

(***************************************************************************)
(* The attempt succeeds: the job is done.                                  *)
(***************************************************************************)
Succeed(j) ==
  /\ life[j].status = "processing"
  /\ Become(j, Stage("succeeded", life[j].limit, life[j].attempts, life[j].failures))

(***************************************************************************)
(* The attempt fails: the job is queued again while it has budget, failed  *)
(* for good when the budget is spent.                                      *)
(***************************************************************************)
Fail(j) ==
  /\ life[j].status = "processing"
  /\ Become(j, Stage(IF life[j].failures < life[j].limit THEN "queued" ELSE "failed",
                     life[j].limit, life[j].attempts, life[j].failures + 1))

LifeNext == \E j \in JobId : Submit(j) \/ Begin(j) \/ Succeed(j) \/ Fail(j)

LifeSpec == LifeInit /\ [][LifeNext]_life
=============================================================================
