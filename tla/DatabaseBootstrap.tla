-------------------------- MODULE DatabaseBootstrap --------------------------
(***************************************************************************)
(* Database(settings) brings a SQLite file up to date                      *)
(* (src/app/storage/database.py): every process does so when it starts, or *)
(* when its first request arrives, whatever the others are doing.          *)
(*                                                                         *)
(* CREATE and ALTER commit on their own, so that a step is one statement,  *)
(* or one connection where rows are written; a file may be new, or left by *)
(* an earlier version whose job table has fewer columns.                   *)
(***************************************************************************)
EXTENDS Naturals, Sequences

CONSTANTS Starters,       \* the processes
          Schema,         \* what _initialize_schema creates, in order
          Jobs,           \* the table _ensure_ingestion_columns adds columns to
          Columns,        \* those columns, in order
          Codes,          \* permissions that are seeded
          RoleNames,      \* roles that are seeded
          RoleMap         \* per role: the permissions it is seeded with

Objects == {Schema[i] : i \in 1..Len(Schema)}

ColumnNames == {Columns[i] : i \in 1..Len(Columns)}

ASSUME BootstrapAssumption == /\ Schema \in Seq(Objects) /\ Jobs \in Objects
                              /\ Columns \in Seq(ColumnNames) /\ Columns # <<>>
                              /\ RoleMap \in [RoleNames -> SUBSET Codes]

VARIABLES schema,          \* the tables and indexes there are
          columns,         \* the columns of "ingestion_jobs" an old file may lack
          indexed,         \* whether there is idx_ingestion_jobs_idempotency
          permissions,     \* per code, and
          roles,           \* per name: the id of its row, 0 for none
          rolePermissions, \* rows: a role, its id, a permission, its id
          made,            \* ids handed out: a uuid is never used twice
          build,           \* per process: how far its Database() has got
          lost             \* history, per process: what others made in its way

databaseVars == <<schema, columns, indexed, permissions, roles, rolePermissions, made, lost>>

Building == {"schema", "inspect", "alter", "index", "seed"}

Build == [pc : {"none", "open"} \cup Building, at : Nat]

NoBuild == [pc |-> "none", at |-> 1]

(***************************************************************************)
(* A new file, or one of an earlier version.                               *)
(***************************************************************************)
DatabaseInit ==
  /\ \/ schema = {} /\ columns = {}
     \/ schema = {Jobs} /\ columns \in SUBSET ColumnNames
  /\ indexed = FALSE
  /\ permissions = [c \in Codes |-> 0] /\ roles = [n \in RoleNames |-> 0]
  /\ rolePermissions = {} /\ made = 0
  /\ build = [s \in Starters |-> NoBuild]
  /\ lost = [s \in Starters |-> {}]

Builds(s, pc, at) == build' = [build EXCEPT ![s] = [pc |-> pc, at |-> at]]

BuildAt(s, pc) == build[s].pc = pc

BeginBuild(s) == BuildAt(s, "none") /\ Builds(s, "schema", 1)

-----------------------------------------------------------------------------
(* _initialize_schema: CREATE ... IF NOT EXISTS.                           *)

CreateObject(s) ==
  LET i == build[s].at IN
  /\ BuildAt(s, "schema")
  /\ schema' = schema \cup {Schema[i]}
  /\ columns' = IF Schema[i] = Jobs /\ Jobs \notin schema THEN ColumnNames ELSE columns
  /\ IF i < Len(Schema) THEN Builds(s, "schema", i + 1) ELSE Builds(s, "inspect", 1)
  /\ UNCHANGED <<indexed, permissions, roles, rolePermissions, made, lost>>

-----------------------------------------------------------------------------
(* _ensure_column reads the columns, and adds one that is not among them.  *)

NextColumn(s) == IF build[s].at < Len(Columns) THEN Builds(s, "inspect", build[s].at + 1)
                 ELSE Builds(s, "index", 1)

MutantInspect(s) ==                           \* PRAGMA tells of some column: enough
  /\ BuildAt(s, "inspect")
  /\ IF columns # {} THEN NextColumn(s) ELSE Builds(s, "alter", build[s].at)
  /\ UNCHANGED databaseVars

MutantAlwaysAlter(s) ==                       \* no look at the columns
  /\ BuildAt(s, "inspect")
  /\ Builds(s, "alter", build[s].at)
  /\ UNCHANGED databaseVars

InspectColumns(s) ==
  /\ BuildAt(s, "inspect")
  /\ IF Columns[build[s].at] \in columns THEN NextColumn(s)
     ELSE Builds(s, "alter", build[s].at)
  /\ UNCHANGED databaseVars

AddColumn(s) ==
  /\ BuildAt(s, "alter")
  /\ Columns[build[s].at] \notin columns
  /\ columns' = columns \cup {Columns[build[s].at]}
  /\ NextColumn(s)
  /\ UNCHANGED <<schema, indexed, permissions, roles, rolePermissions, made, lost>>

(***************************************************************************)
(* Another process has added it in between: "duplicate column name".       *)
(***************************************************************************)
LoseColumn(s) ==
  /\ BuildAt(s, "alter")
  /\ Columns[build[s].at] \in columns
  /\ lost' = [lost EXCEPT ![s] = @ \cup {Columns[build[s].at]}]
  /\ build' = [build EXCEPT ![s] = NoBuild]
  /\ UNCHANGED <<schema, columns, indexed, permissions, roles, rolePermissions, made>>

(***************************************************************************)
(* _ensure_post_migration_indexes                                          *)
(***************************************************************************)
CreateIndex(s) ==
  /\ BuildAt(s, "index")
  /\ indexed' = TRUE
  /\ Builds(s, "seed", 1)
  /\ UNCHANGED <<schema, columns, permissions, roles, rolePermissions, made, lost>>

-----------------------------------------------------------------------------
(* _seed_access_control_data, one transaction.                             *)

(***************************************************************************)
(* INSERT OR IGNORE with a new id for every row.                           *)
(***************************************************************************)
MutantInserted(table) ==                      \* INSERT OR REPLACE
  [name \in DOMAIN table |-> made + 1]

Inserted(table) == [name \in DOMAIN table |-> IF table[name] = 0 THEN made + 1 ELSE table[name]]

Mapped == {m \in RoleNames \X Codes : m[2] \in RoleMap[m[1]]}

MapRows == {<<m[1], roles'[m[1]], m[2], permissions'[m[2]]>> : m \in Mapped}

SeedAccess(s) ==
  /\ BuildAt(s, "seed")
  /\ permissions' = Inserted(permissions)
  /\ roles' = Inserted(roles)
  /\ rolePermissions' = rolePermissions \cup MapRows
  /\ made' = IF permissions' = permissions /\ roles' = roles THEN made ELSE made + 1
  /\ Builds(s, "open", 1)
  /\ UNCHANGED <<schema, columns, indexed, lost>>

-----------------------------------------------------------------------------
BuildStep(s) == \/ CreateObject(s)
                \/ InspectColumns(s) \/ AddColumn(s) \/ LoseColumn(s)
                \/ CreateIndex(s) \/ SeedAccess(s)
=============================================================================
