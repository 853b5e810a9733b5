---------------------------- MODULE ServerProcess ----------------------------
(***************************************************************************)
(* The life of a process: API servers (src/app/main.py), with the worker   *)
(* embedded or not, and worker processes (src/scripts/run_worker.py).  All *)
(* share one SQLite file.  What they need is built once and kept by        *)
(* lru_cache (src/app/api/dependencies.py): by the start of a process that *)
(* runs the worker, otherwise by the first requests.                       *)
(*                                                                         *)
(* Two requests that find a cache empty at the same time both build, as    *)
(* two processes do: they are represented by two members of Starters.      *)
(***************************************************************************)
EXTENDS AuthBootstrap, WorkerLoop

CONSTANTS Servers,         \* the processes that serve requests
          MaxDisruptions   \* bound: stops, crashes and failures of the database

ASSUME ProcessAssumption == /\ Starters = Servers \cup Embedded
                            /\ MaxDisruptions \in Nat

VARIABLES phase,           \* per process
          disruptions      \* how many there have been

vars == <<databaseVars, build, authVars, workerVars, phase, disruptions>>

Init == /\ DatabaseInit /\ AuthInit /\ WorkerInit
        /\ phase = [s \in Starters |-> "down"]
        /\ disruptions = 0

Turns(s, ph) == phase' = [phase EXCEPT ![s] = ph]

Up(s) == phase[s] = "up"

(***************************************************************************)
(* A process is started, or started again by whoever runs it.  One with a  *)
(* worker asks for the ingestion service, and so for the database, at once.*)
(***************************************************************************)
Launch(s) ==
  /\ phase[s] = "down"
  /\ Turns(s, "up")
  /\ IF s \in Embedded THEN BeginBuild(s) ELSE UNCHANGED build
  /\ UNCHANGED <<databaseVars, authVars, workerVars, disruptions>>

(***************************************************************************)
(* A request that needs the database finds get_database() not cached.      *)
(***************************************************************************)
FirstRequest(s) ==
  /\ Up(s) /\ s \notin Embedded
  /\ BeginBuild(s)
  /\ UNCHANGED <<databaseVars, authVars, workerVars, phase, disruptions>>

(***************************************************************************)
(* An exception while the database is built ends a process at its start,   *)
(* or one request: the next one builds again.                              *)
(***************************************************************************)
AfterFailure(s) == Turns(s, IF s \in Embedded THEN "down" ELSE "up")

BuildDatabase(s) ==
  /\ BuildStep(s)
  /\ IF build'[s].pc = "none" THEN AfterFailure(s) ELSE UNCHANGED phase
  /\ UNCHANGED <<authVars, workerVars, disruptions>>

StartWorker(s) ==
  /\ s \in Embedded /\ BuildAt(s, "open") /\ Up(s)
  /\ StartLoop(s)
  /\ UNCHANGED <<databaseVars, build, authVars, phase, disruptions>>

(***************************************************************************)
(* Requests are served once the worker of the server has started; they     *)
(* need the AuthService.                                                   *)
(***************************************************************************)
Serving(s) == /\ s \in Servers /\ Up(s) /\ BuildAt(s, "open")
              /\ s \in Embedded => loop[s] # "none"

BuildAuth(s) ==
  /\ Serving(s)
  /\ AuthStep(s)
  /\ UNCHANGED <<build, workerVars, phase, disruptions>>

Work(s) ==
  /\ s \in Embedded
  /\ LoopStep(s)
  /\ UNCHANGED <<databaseVars, build, authVars, phase, disruptions>>

-----------------------------------------------------------------------------
(* Shutting down.                                                          *)

(***************************************************************************)
(* worker.stop() is reached: the main loop of run_worker has ended, or the *)
(* lifespan of the server is resumed.  The signal came before that, by any *)
(* length of time: a server is resumed when its last request is finished,  *)
(* and one that processes jobs itself takes as long as they do.  During    *)
(* the start a signal kills.                                               *)
(***************************************************************************)
Stop(s) ==
  /\ Up(s) /\ build[s].pc \in {"none", "open"} /\ auth[s].pc \in {"none", "ready"}
  /\ s \in Embedded => loop[s] # "none"
  /\ Turns(s, "stopping")
  /\ IF s \in Embedded THEN SetEvent(s) ELSE UNCHANGED workerVars
  /\ UNCHANGED <<databaseVars, build, authVars>>

(***************************************************************************)
(* What a process knows ends with it.                                      *)
(***************************************************************************)
Gone(s) ==
  /\ Turns(s, "down")
  /\ build' = [build EXCEPT ![s] = NoBuild]
  /\ auth' = [auth EXCEPT ![s] = NoAuth]
  /\ IF s \in Embedded THEN LoopGone(s) ELSE UNCHANGED workerVars
  /\ UNCHANGED <<databaseVars, unnamed, adminId, userRoles>>

(***************************************************************************)
(* The loop has ended, or five seconds are over.                           *)
(***************************************************************************)
Exit(s) ==
  /\ phase[s] = "stopping"
  /\ Gone(s)
  /\ UNCHANGED disruptions

-----------------------------------------------------------------------------
(* Failures.                                                               *)

(***************************************************************************)
(* A statement raises: the file is locked for too long, or the disk full.  *)
(***************************************************************************)
BuildRaises(s) ==
  /\ build[s].pc \in Building
  /\ build' = [build EXCEPT ![s] = NoBuild]
  /\ AfterFailure(s)
  /\ UNCHANGED <<databaseVars, authVars, workerVars>>

AuthRaises(s) ==
  /\ Serving(s) /\ auth[s].pc # "ready"
  /\ auth' = [auth EXCEPT ![s] = NoAuth]
  /\ UNCHANGED <<databaseVars, build, unnamed, adminId, userRoles, workerVars, phase>>

WorkRaises(s) ==
  /\ s \in Embedded
  /\ LoopRaises(s)
  /\ UNCHANGED <<databaseVars, build, authVars, phase>>

Crash(s) == phase[s] # "down" /\ Gone(s)

Disrupt(s) == /\ disruptions < MaxDisruptions
              /\ disruptions' = disruptions + 1
              /\ Stop(s) \/ BuildRaises(s) \/ AuthRaises(s) \/ WorkRaises(s) \/ Crash(s)

Advance(s) == \/ Launch(s) \/ FirstRequest(s) \/ BuildDatabase(s)
              \/ StartWorker(s) \/ BuildAuth(s) \/ Work(s)

Next == \E s \in Starters : Advance(s) \/ Exit(s) \/ Disrupt(s)

Spec == Init /\ [][Next]_vars

(***************************************************************************)
(* Threads are scheduled; whoever runs a process starts it again, and      *)
(* requests keep coming.  A job may take forever.                          *)
(***************************************************************************)
Fairness == \A s \in Starters :
  /\ WF_vars(Launch(s)) /\ WF_vars(FirstRequest(s)) /\ WF_vars(BuildDatabase(s))
  /\ WF_vars(StartWorker(s)) /\ WF_vars(BuildAuth(s)) /\ WF_vars(Exit(s))

FairSpec == Spec /\ Fairness
=============================================================================
