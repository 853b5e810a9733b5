-------------------------- MODULE ProcessProperties --------------------------
(***************************************************************************)
(* What is expected of processes that start, stop and die in any order on  *)
(* one database.                                                           *)
(***************************************************************************)
EXTENDS ServerProcess

(***************************************************************************)
(* Every variable has values of its type.                                  *)
(***************************************************************************)
TypeOK == /\ schema \subseteq Objects /\ columns \subseteq ColumnNames
          /\ indexed \in BOOLEAN
          /\ permissions \in [Codes -> Nat] /\ roles \in [RoleNames -> Nat]
          /\ rolePermissions \subseteq RoleNames \X Nat \X Codes \X Nat
          /\ made \in Nat
          /\ build \in [Starters -> Build]
          /\ lost \in [Starters -> SUBSET (ColumnNames \cup {Admin})]
          /\ unnamed \subseteq Starters
          /\ adminId \in Nat /\ userRoles \subseteq Nat \X Nat
          /\ auth \in [Starters -> Auth]
          /\ loop \in [Embedded -> LoopPC] /\ taken \in [Embedded -> 0..MaxBatch]
          /\ stopEvent \in [Embedded -> BOOLEAN] /\ late \in [Embedded -> Nat]
          /\ phase \in [Starters -> {"down", "up", "stopping"}]
          /\ disruptions \in 0..MaxDisruptions

(***************************************************************************)
(* A process that has its Database has all of it: every table, the columns *)
(* an old file lacked, the index that needs one of them, and the roles     *)
(* with just the permissions AccessControl takes for granted, whichever    *)
(* process got how far before it raised or died (database.py 32-221).      *)
(***************************************************************************)
GrantsOf(n) == {c \in Codes : <<n, roles[n], c, permissions[c]>> \in rolePermissions}

Seeded == /\ \A c \in Codes : permissions[c] > 0
          /\ \A n \in RoleNames : roles[n] > 0 /\ GrantsOf(n) = RoleMap[n]

Complete == schema = Objects /\ columns = ColumnNames /\ indexed /\ Seeded

ReadyComplete ==
  \A s \in Starters : BuildAt(s, "open") => Complete

(***************************************************************************)
(* A server that names an administrator and has its AuthService has one    *)
(* who may do everything: a process that dies between the user and its     *)
(* role is made good by the next (auth/service.py 115-128).  A server that *)
(* names none makes none, and may serve without.                           *)
(***************************************************************************)
AuthComplete ==
  \A s \in Servers \ unnamed : auth[s].pc = "ready" =>
    /\ adminId > 0
    /\ \E n \in RoleNames : <<adminId, roles[n]>> \in userRoles /\ GrantsOf(n) = Codes

(***************************************************************************)
(* No row refers to a row that is not there: nothing enforces the foreign  *)
(* keys of user_roles and role_permissions, and every process seeds with   *)
(* ids of its own (database.py 312-352).                                   *)
(***************************************************************************)
NoDangling ==
  /\ \A row \in rolePermissions : row[2] = roles[row[1]] /\ row[4] = permissions[row[3]]
  /\ \A row \in userRoles : row[1] = adminId /\ \E n \in RoleNames : roles[n] = row[2]

(***************************************************************************)
(* Whatever starts, fails and dies afterwards, a database that was once    *)
(* complete is never touched again so as to be less, and its administrator *)
(* stays in office: a process that seeds anew, with new ids, takes no id   *)
(* away that a role was assigned by (database.py 282-352, auth/service.py  *)
(* 115-128).                                                               *)
(***************************************************************************)
Administered == /\ Seeded /\ adminId > 0
                /\ <<adminId, roles[Admin]>> \in userRoles /\ GrantsOf(Admin) = Codes

NothingUndone == [][/\ Complete => Complete'
                    /\ Administered => Administered' /\ adminId' = adminId]_vars

(***************************************************************************)
(* Nobody loses a race twice: a process fails over a column, or over the   *)
(* administrator, that another made first, but having failed it finds what *)
(* it wanted and does not fail over it again (database.py 266, auth/       *)
(* service.py 119).  So a start fails a bounded number of times, however   *)
(* many processes start together.                                          *)
(***************************************************************************)
NeverTwice ==
  [][\A s \in Starters :
       /\ LoseColumn(s) => Columns[build[s].at] \notin lost[s]
       /\ LoseAdmin(s) => Admin \notin lost[s]]_vars

(***************************************************************************)
(* After a stop the worker begins no more jobs than one batch has: the     *)
(* event may be set just after it was looked at (worker.py 39-49).         *)
(***************************************************************************)
StopBounded == \A s \in Embedded : late[s] <= MaxBatch

-----------------------------------------------------------------------------
(***************************************************************************)
(* Whatever this process builds once is there, and its worker was started: *)
(* a worker thread that has died since counts, as it does for its process. *)
(***************************************************************************)
Ready(s) == /\ Up(s) /\ BuildAt(s, "open")
            /\ s \in Servers => auth[s].pc = "ready"
            /\ s \in Embedded => loop[s] # "none"

(***************************************************************************)
(* When the disruptions are over every process gets ready, and stays so.   *)
(***************************************************************************)
StartsEventually == \A s \in Starters : <>[]Ready(s)

-----------------------------------------------------------------------------
(* The parts of the inductive invariant.                                   *)

(***************************************************************************)
(* What a process has behind it when it is where it is.                    *)
(***************************************************************************)
BuiltSoFar ==
  \A s \in Starters : LET b == build[s] IN
    /\ b.pc = "schema" =>
         b.at \in 1..Len(Schema) /\ \A i \in 1..(b.at - 1) : Schema[i] \in schema
    /\ b.pc \in {"inspect", "alter"} =>
         /\ schema = Objects
         /\ b.at \in 1..Len(Columns) /\ \A i \in 1..(b.at - 1) : Columns[i] \in columns
    /\ b.pc \in {"index", "seed"} => schema = Objects /\ columns = ColumnNames
    /\ b.pc = "seed" => indexed
    /\ b.pc = "open" => Complete

(***************************************************************************)
(* Rows of the access tables refer to rows by the ids these have, and give *)
(* a role nothing but what it is seeded with.                              *)
(***************************************************************************)
RowsMapped ==
  /\ \A row \in rolePermissions :
       /\ row[2] = roles[row[1]] /\ row[2] > 0
       /\ row[4] = permissions[row[3]] /\ row[4] > 0
       /\ row[3] \in RoleMap[row[1]]
  /\ \A row \in userRoles :
       row[1] = adminId /\ adminId > 0 /\ row[2] = roles[Admin] /\ roles[Admin] > 0

Bootstrapped ==
  \A s \in Starters : LET a == auth[s] IN
    /\ a.pc # "none" => BuildAt(s, "open")
    /\ s \in unnamed => a.pc \in {"none", "ready"} /\ a.user = 0
    /\ s \notin unnamed =>
         /\ a.pc \in {"assign", "ready"} => a.user = adminId /\ adminId > 0
         /\ a.pc = "ready" => <<adminId, roles[Admin]>> \in userRoles

Losses ==
  \A s \in Starters :
    /\ lost[s] \subseteq columns \cup {Admin}
    /\ Admin \in lost[s] => adminId > 0
    /\ BuildAt(s, "alter") => Columns[build[s].at] \notin lost[s]
    /\ auth[s].pc = "create" => Admin \notin lost[s]

LateJobs ==
  \A s \in Embedded :
    /\ ~stopEvent[s] \/ loop[s] = "none" => late[s] = 0
    /\ loop[s] = "batch" => late[s] <= taken[s]
    /\ late[s] <= MaxBatch

IInv == TypeOK /\ BuiltSoFar /\ RowsMapped /\ Bootstrapped /\ Losses /\ LateJobs
=============================================================================
