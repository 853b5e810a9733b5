---------------------------- MODULE AuthBootstrap ----------------------------
(***************************************************************************)
(* AuthService(settings, repository) makes sure that there is an           *)
(* administrator (src/app/auth/service.py, src/app/storage/                *)
(* auth_repository.py).  It is built for the first request that asks for   *)
(* it: lru_cache keeps a service that was built, not an exception.         *)
(***************************************************************************)
EXTENDS DatabaseBootstrap

CONSTANTS Admin,          \* the role and, in "lost", the user of this name
          MayBeUnnamed    \* processes whose bootstrap_admin_username may be blank

ASSUME AdminAssumption == /\ Admin \in RoleNames /\ Admin \notin ColumnNames
                          /\ RoleMap[Admin] = Codes
                          /\ MayBeUnnamed \subseteq Starters

VARIABLES unnamed,        \* the processes whose bootstrap_admin_username is blank,
                          \* a setting; the others are given one and the same name
          adminId,        \* id of the user bootstrap_admin_username, 0 for none
          userRoles,      \* rows for it in "user_roles": a user id, a role id
          auth            \* per process: how far its AuthService() has got,
                          \* and the id of the user it is about

authVars == <<unnamed, adminId, userRoles, auth>>

Auth == [pc : {"none", "create", "assign", "ready"}, user : Nat]

NoAuth == [pc |-> "none", user |-> 0]

AuthInit == /\ unnamed \in SUBSET MayBeUnnamed
            /\ adminId = 0 /\ userRoles = {}
            /\ auth = [s \in Starters |-> NoAuth]

Bootstraps(s, pc, user) == auth' = [auth EXCEPT ![s] = [pc |-> pc, user |-> user]]

(***************************************************************************)
(* A blank name ends the bootstrap at once; any other is looked up:        *)
(* get_user_by_username.                                                   *)
(***************************************************************************)
MutantFindAdmin(s) ==                         \* the role only for a user just created
  /\ auth[s].pc = "none"
  /\ \/ s \in unnamed    /\ Bootstraps(s, "ready", 0)
     \/ s \notin unnamed /\ adminId = 0 /\ Bootstraps(s, "create", 0)
     \/ s \notin unnamed /\ adminId # 0 /\ Bootstraps(s, "ready", adminId)
  /\ UNCHANGED <<databaseVars, unnamed, adminId, userRoles>>

FindAdmin(s) ==
  /\ auth[s].pc = "none"
  /\ \/ s \in unnamed    /\ Bootstraps(s, "ready", 0)
     \/ s \notin unnamed /\ adminId = 0 /\ Bootstraps(s, "create", 0)
     \/ s \notin unnamed /\ adminId # 0 /\ Bootstraps(s, "assign", adminId)
  /\ UNCHANGED <<databaseVars, unnamed, adminId, userRoles>>

(***************************************************************************)
(* create_user, after the time it takes to hash a password.  Usernames are *)
(* unique: when another process was faster, the INSERT fails.              *)
(***************************************************************************)
CreateAdmin(s) ==
  /\ auth[s].pc = "create"
  /\ adminId = 0
  /\ made' = made + 1 /\ adminId' = made + 1
  /\ Bootstraps(s, "assign", made + 1)
  /\ UNCHANGED <<schema, columns, indexed, permissions, roles, rolePermissions, lost>>
  /\ UNCHANGED <<unnamed, userRoles>>

MutantLoseAdmin(s) ==                         \* try the INSERT again
  /\ auth[s].pc = "create"
  /\ adminId # 0
  /\ lost' = [lost EXCEPT ![s] = @ \cup {Admin}]
  /\ UNCHANGED <<schema, columns, indexed, permissions, roles, rolePermissions, made>>
  /\ UNCHANGED authVars

LoseAdmin(s) ==
  /\ auth[s].pc = "create"
  /\ adminId # 0
  /\ lost' = [lost EXCEPT ![s] = @ \cup {Admin}]
  /\ auth' = [auth EXCEPT ![s] = NoAuth]
  /\ UNCHANGED <<schema, columns, indexed, permissions, roles, rolePermissions, made>>
  /\ UNCHANGED <<unnamed, adminId, userRoles>>

(***************************************************************************)
(* assign_role: INSERT OR IGNORE.  It raises when there is no such role.   *)
(***************************************************************************)
AssignAdmin(s) ==
  /\ auth[s].pc = "assign" /\ roles[Admin] # 0
  /\ userRoles' = userRoles \cup {<<auth[s].user, roles[Admin]>>}
  /\ Bootstraps(s, "ready", auth[s].user)
  /\ UNCHANGED <<databaseVars, unnamed, adminId>>

AuthStep(s) == FindAdmin(s) \/ CreateAdmin(s) \/ LoseAdmin(s) \/ AssignAdmin(s)
=============================================================================
