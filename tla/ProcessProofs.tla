---------------------------- MODULE ProcessProofs ----------------------------
(***************************************************************************)
(* Proofs that the invariants of ProcessProperties hold for any number of  *)
(* processes, any schema, any old file and any number of disruptions.      *)
(***************************************************************************)
EXTENDS ProcessProperties, TLAPS

-----------------------------------------------------------------------------
(* The constants.                                                          *)

LEMMA SchemaFacts ==
  /\ Len(Schema) \in Nat /\ Len(Schema) > 0 /\ \A i \in 1..Len(Schema) : Schema[i] \in Objects
  /\ Len(Columns) \in Nat /\ Len(Columns) > 0
  /\ \A i \in 1..Len(Columns) : Columns[i] \in ColumnNames
  /\ Jobs \in Objects
  <1>1. Schema \in Seq(Objects) /\ Columns \in Seq(ColumnNames) /\ Columns # <<>> /\ Jobs \in Objects
    BY BootstrapAssumption
  <1>2. Len(Schema) \in Nat /\ Len(Columns) \in Nat /\ Len(Columns) > 0
    BY <1>1
  <1>3. Len(Schema) > 0
    BY <1>1, <1>2 DEF Objects
  <1> QED
    BY <1>1, <1>2, <1>3 DEF Objects, ColumnNames

-----------------------------------------------------------------------------
(* Types.                                                                  *)

LEMMA BuildTyped ==
  ASSUME TypeOK, NEW s \in Starters, NEW pc \in {"none", "open"} \cup Building, NEW at \in Nat,
         Builds(s, pc, at)
  PROVE  build' \in [Starters -> Build]
  <1>1. [pc |-> pc, at |-> at] \in Build
    BY DEF Build
  <1> QED
    BY <1>1 DEF TypeOK, Builds

LEMMA NoBuildTyped == NoBuild \in Build
  BY DEF NoBuild, Build

LEMMA AtTyped ==
  ASSUME TypeOK, NEW s \in Starters
  PROVE  build[s].at \in Nat /\ build[s].pc \in {"none", "open"} \cup Building
  BY DEF TypeOK, Build

LEMMA NextColumnTyped ==
  ASSUME TypeOK, NEW s \in Starters, NextColumn(s)
  PROVE  build' \in [Starters -> Build]
  <1>1. {"inspect", "index"} \subseteq {"none", "open"} \cup Building
    BY DEF Building
  <1>2. build[s].at + 1 \in Nat /\ 1 \in Nat
    BY AtTyped
  <1> QED
    BY <1>1, <1>2, BuildTyped DEF NextColumn

DatabaseTyped ==
  /\ schema \subseteq Objects /\ columns \subseteq ColumnNames
  /\ indexed \in BOOLEAN
  /\ permissions \in [Codes -> Nat] /\ roles \in [RoleNames -> Nat]
  /\ rolePermissions \subseteq RoleNames \X Nat \X Codes \X Nat
  /\ made \in Nat
  /\ lost \in [Starters -> SUBSET (ColumnNames \cup {Admin})]

LEMMA InsertedTyped ==
  ASSUME NEW Names, NEW table \in [Names -> Nat], made \in Nat
  PROVE  /\ Inserted(table) \in [Names -> Nat]
         /\ \A x \in Names : Inserted(table)[x] = IF table[x] = 0 THEN made + 1 ELSE table[x]
         /\ \A x \in Names : Inserted(table)[x] > 0
  BY DEF Inserted

LEMMA MapRowsTyped ==
  ASSUME TypeOK, roles' \in [RoleNames -> Nat], permissions' \in [Codes -> Nat]
  PROVE  MapRows \subseteq RoleNames \X Nat \X Codes \X Nat
  BY DEF MapRows, Mapped

(***************************************************************************)
(* The steps of Database(), given the place in the schema they are at.     *)
(***************************************************************************)
LEMMA BuildStepTyped ==
  ASSUME TypeOK, BuiltSoFar, NEW s \in Starters, BuildStep(s)
  PROVE  DatabaseTyped' /\ build' \in [Starters -> Build]
  <1> USE SchemaFacts
  <1>1. build[s].at \in Nat
    BY AtTyped
  <1>2. CASE CreateObject(s)
    <2> DEFINE i == build[s].at
    <2>1. i \in 1..Len(Schema) /\ Schema[i] \in Objects
      BY <1>2 DEF CreateObject, BuildAt, BuiltSoFar
    <2>2. DatabaseTyped'
      BY <1>2, <2>1 DEF CreateObject, TypeOK, DatabaseTyped
    <2>3. {"schema", "inspect"} \subseteq {"none", "open"} \cup Building
      BY DEF Building
    <2>4. i + 1 \in Nat /\ 1 \in Nat
      BY <1>1
    <2>5. build' \in [Starters -> Build]
      BY <1>2, <2>3, <2>4, BuildTyped DEF CreateObject
    <2> QED
      BY <2>2, <2>5
  <1>3. CASE InspectColumns(s)
    <2>1. DatabaseTyped'
      BY <1>3 DEF InspectColumns, databaseVars, TypeOK, DatabaseTyped
    <2>2. "alter" \in {"none", "open"} \cup Building
      BY DEF Building
    <2> QED
      BY <1>1, <1>3, <2>1, <2>2, BuildTyped, NextColumnTyped DEF InspectColumns
  <1>4. CASE AddColumn(s)
    <2>1. Columns[build[s].at] \in ColumnNames
      BY <1>4 DEF AddColumn, BuildAt, BuiltSoFar
    <2>2. DatabaseTyped'
      BY <1>4, <2>1 DEF AddColumn, TypeOK, DatabaseTyped
    <2> QED
      BY <1>4, <2>2, NextColumnTyped DEF AddColumn
  <1>5. CASE LoseColumn(s)
    <2>1. Columns[build[s].at] \in ColumnNames
      BY <1>5 DEF LoseColumn, BuildAt, BuiltSoFar
    <2>2. lost' \in [Starters -> SUBSET (ColumnNames \cup {Admin})]
      BY <1>5, <2>1 DEF LoseColumn, TypeOK
    <2>3. DatabaseTyped'
      BY <1>5, <2>2 DEF LoseColumn, TypeOK, DatabaseTyped
    <2> QED
      BY <1>5, <2>3, NoBuildTyped DEF LoseColumn, TypeOK
  <1>6. CASE CreateIndex(s)
    <2>1. DatabaseTyped'
      BY <1>6 DEF CreateIndex, TypeOK, DatabaseTyped
    <2>2. "seed" \in {"none", "open"} \cup Building /\ 1 \in Nat
      BY DEF Building
    <2> QED
      BY <1>6, <2>1, <2>2, BuildTyped DEF CreateIndex
  <1>7. CASE SeedAccess(s)
    <2>1. permissions' \in [Codes -> Nat] /\ roles' \in [RoleNames -> Nat]
      BY <1>7, InsertedTyped DEF SeedAccess, TypeOK
    <2>4. rolePermissions' \subseteq RoleNames \X Nat \X Codes \X Nat
      <3>1. rolePermissions' = rolePermissions \cup MapRows
        BY <1>7 DEF SeedAccess
      <3>2. rolePermissions \subseteq RoleNames \X Nat \X Codes \X Nat
        BY DEF TypeOK
      <3> QED
        BY <2>1, <3>1, <3>2, MapRowsTyped
    <2>5. made' \in Nat
      BY <1>7 DEF SeedAccess, TypeOK
    <2>2. DatabaseTyped'
      BY <1>7, <2>1, <2>4, <2>5 DEF SeedAccess, TypeOK, DatabaseTyped
    <2>3. "open" \in {"none", "open"} \cup Building /\ 1 \in Nat
      OBVIOUS
    <2> QED
      BY <1>7, <2>2, <2>3, BuildTyped DEF SeedAccess
  <1> QED
    BY <1>2, <1>3, <1>4, <1>5, <1>6, <1>7 DEF BuildStep

AuthTyped == /\ unnamed \subseteq Starters
             /\ adminId \in Nat /\ userRoles \subseteq Nat \X Nat
             /\ auth \in [Starters -> Auth]

LEMMA AuthSet ==
  ASSUME TypeOK, NEW s \in Starters, NEW pc \in {"none", "create", "assign", "ready"},
         NEW user \in Nat, Bootstraps(s, pc, user)
  PROVE  auth' \in [Starters -> Auth]
  <1>1. [pc |-> pc, user |-> user] \in Auth
    BY DEF Auth
  <1> QED
    BY <1>1 DEF TypeOK, Bootstraps

LEMMA NoAuthTyped == NoAuth \in Auth
  BY DEF NoAuth, Auth

LEMMA AuthStepTyped ==
  ASSUME TypeOK, NEW s \in Starters, AuthStep(s)
  PROVE  DatabaseTyped' /\ AuthTyped'
  <1>1. auth[s].user \in Nat /\ roles[Admin] \in Nat /\ made + 1 \in Nat /\ 0 \in Nat
    BY AdminAssumption DEF TypeOK, Auth
  <1>2. CASE FindAdmin(s)
    <2>1. DatabaseTyped'
      BY <1>2 DEF FindAdmin, databaseVars, TypeOK, DatabaseTyped
    <2>2. PICK pc \in {"none", "create", "assign", "ready"}, user \in {0, adminId} :
            Bootstraps(s, pc, user)
      BY <1>2 DEF FindAdmin
    <2>3. auth' \in [Starters -> Auth]
      BY <2>2, AuthSet DEF TypeOK
    <2> QED
      BY <1>2, <2>1, <2>3 DEF FindAdmin, TypeOK, AuthTyped
  <1>3. CASE CreateAdmin(s)
    <2>1. DatabaseTyped'
      BY <1>1, <1>3 DEF CreateAdmin, TypeOK, DatabaseTyped
    <2>2. auth' \in [Starters -> Auth]
      BY <1>1, <1>3, AuthSet DEF CreateAdmin
    <2> QED
      BY <1>1, <1>3, <2>1, <2>2 DEF CreateAdmin, TypeOK, AuthTyped
  <1>4. CASE LoseAdmin(s)
    <2>1. lost' \in [Starters -> SUBSET (ColumnNames \cup {Admin})]
      BY <1>4 DEF LoseAdmin, TypeOK
    <2>2. DatabaseTyped'
      BY <1>4, <2>1 DEF LoseAdmin, TypeOK, DatabaseTyped
    <2> QED
      BY <1>4, <2>2, NoAuthTyped DEF LoseAdmin, TypeOK, AuthTyped
  <1>5. CASE AssignAdmin(s)
    <2>1. DatabaseTyped'
      BY <1>5 DEF AssignAdmin, databaseVars, TypeOK, DatabaseTyped
    <2>2. auth' \in [Starters -> Auth]
      BY <1>1, <1>5, AuthSet DEF AssignAdmin
    <2>3. userRoles' \subseteq Nat \X Nat
      BY <1>1, <1>5 DEF AssignAdmin, TypeOK
    <2> QED
      BY <1>5, <2>1, <2>2, <2>3 DEF AssignAdmin, TypeOK, AuthTyped
  <1> QED
    BY <1>2, <1>3, <1>4, <1>5 DEF AuthStep

WorkerTyped ==
  /\ loop \in [Embedded -> LoopPC] /\ taken \in [Embedded -> 0..MaxBatch]
  /\ stopEvent \in [Embedded -> BOOLEAN] /\ late \in [Embedded -> Nat]

LEMMA LoopStepTyped ==
  ASSUME TypeOK, NEW s \in Embedded,
         \/ LoopStep(s) \/ StartLoop(s) \/ LoopRaises(s) \/ SetEvent(s) \/ LoopGone(s)
  PROVE  WorkerTyped'
  <1>1. MaxBatch \in Nat \ {0} /\ 0 \in 0..MaxBatch
    BY WorkerAssumption
  <1>2. ASSUME NEW pc \in LoopPC, Moves(s, pc)
        PROVE  loop' \in [Embedded -> LoopPC]
    BY <1>2 DEF Moves, TypeOK
  <1>3. {"none", "check", "batch", "wait", "ended"} \subseteq LoopPC
    BY DEF LoopPC
  <1>4. CASE StartLoop(s)
    BY <1>2, <1>3, <1>4 DEF StartLoop, TypeOK, WorkerTyped
  <1>5. CASE CheckEvent(s)
    BY <1>1, <1>2, <1>3, <1>5 DEF CheckEvent, TypeOK, WorkerTyped
  <1>6. CASE TakeJob(s)
    <2>1. taken' \in [Embedded -> 0..MaxBatch]
      BY <1>1, <1>6 DEF TakeJob, TypeOK
    <2>2. late' \in [Embedded -> Nat]
      BY <1>6 DEF TakeJob, TypeOK
    <2> QED
      BY <1>6, <2>1, <2>2 DEF TakeJob, TypeOK, WorkerTyped
  <1>7. CASE EndBatch(s) \/ WakeUp(s) \/ LoopRaises(s)
    BY <1>2, <1>3, <1>7 DEF EndBatch, WakeUp, LoopRaises, TypeOK, WorkerTyped
  <1>8. CASE SetEvent(s)
    BY <1>8 DEF SetEvent, TypeOK, WorkerTyped
  <1>9. CASE LoopGone(s)
    BY <1>1, <1>2, <1>3, <1>9 DEF LoopGone, TypeOK, WorkerTyped
  <1> QED
    BY <1>4, <1>5, <1>6, <1>7, <1>8, <1>9 DEF LoopStep

ProcessTyped == /\ phase \in [Starters -> {"down", "up", "stopping"}]
                /\ disruptions \in 0..MaxDisruptions

LEMMA TypeParts ==
  TypeOK <=> DatabaseTyped /\ build \in [Starters -> Build] /\ AuthTyped /\ WorkerTyped /\ ProcessTyped
  BY DEF TypeOK, DatabaseTyped, AuthTyped, WorkerTyped, ProcessTyped

-----------------------------------------------------------------------------
(* The steps of a process, by what they touch.                             *)

Step(s) == Advance(s) \/ Exit(s) \/ Disrupt(s)

(***************************************************************************)
(* Every other step leaves the database alone; it may begin or drop what a *)
(* process has built.                                                      *)
(***************************************************************************)
Apart == UNCHANGED <<databaseVars, unnamed, adminId, userRoles>>

Dropped(s) == build' = [build EXCEPT ![s] = NoBuild]

Places(s) ==
  \/ build' = build /\ auth' = auth
  \/ build[s].pc # "open" /\ auth' = auth /\ (BeginBuild(s) \/ Dropped(s))
  \/ (build' = build \/ Dropped(s)) /\ auth' = [auth EXCEPT ![s] = NoAuth]

Threads(s) ==
  \/ UNCHANGED workerVars
  \/ s \in Embedded /\ (\/ LoopStep(s) \/ StartLoop(s) \/ LoopRaises(s) \/ LoopGone(s)
                        \/ SetEvent(s) /\ loop[s] # "none")

LEMMA GoneEffect ==
  ASSUME NEW s \in Starters, Gone(s)
  PROVE  Apart /\ Places(s) /\ Threads(s)
  BY DEF Gone, Apart, Places, Dropped, Threads

LEMMA OtherSteps ==
  ASSUME NEW s \in Starters, Step(s)
  PROVE  \/ BuildDatabase(s) \/ BuildAuth(s)
         \/ Apart /\ Places(s) /\ Threads(s)
  <1>1. CASE Launch(s) \/ FirstRequest(s)
    BY <1>1 DEF Launch, FirstRequest, authVars, Apart, Places, Threads, BeginBuild, BuildAt
  <1>2. CASE StartWorker(s) \/ Work(s)
    BY <1>2 DEF StartWorker, Work, authVars, Apart, Places, Threads
  <1>3. CASE Exit(s) \/ Crash(s)
    BY <1>3, GoneEffect DEF Exit, Crash
  <1>4. CASE Stop(s)
    BY <1>4 DEF Stop, authVars, Apart, Places, Threads
  <1>5. CASE BuildRaises(s)
    BY <1>5 DEF BuildRaises, authVars, Apart, Places, Dropped, Threads, Building
  <1>6. CASE AuthRaises(s)
    BY <1>6 DEF AuthRaises, Apart, Places, Threads
  <1>7. CASE WorkRaises(s)
    BY <1>7 DEF WorkRaises, authVars, Apart, Places, Threads
  <1> QED
    BY <1>1, <1>2, <1>3, <1>4, <1>5, <1>6, <1>7 DEF Step, Advance, Disrupt

LEMMA ProcessOfStep ==
  ASSUME TypeOK, NEW s \in Starters, Step(s)
  PROVE  ProcessTyped'
  <1>1. ASSUME NEW ph \in {"down", "up", "stopping"}, Turns(s, ph)
        PROVE  phase' \in [Starters -> {"down", "up", "stopping"}]
    BY <1>1 DEF Turns, TypeOK
  <1>2. ASSUME AfterFailure(s)
        PROVE  phase' \in [Starters -> {"down", "up", "stopping"}]
    BY <1>1, <1>2 DEF AfterFailure
  <1>3. phase' \in [Starters -> {"down", "up", "stopping"}]
    <2>1. UNCHANGED phase => phase' \in [Starters -> {"down", "up", "stopping"}]
      BY DEF TypeOK
    <2>2. Gone(s) => phase' \in [Starters -> {"down", "up", "stopping"}]
      BY <1>1 DEF Gone
    <2>3. BuildDatabase(s) => phase' \in [Starters -> {"down", "up", "stopping"}]
      BY <1>2, <2>1 DEF BuildDatabase
    <2> QED
      BY <1>1, <1>2, <2>1, <2>2, <2>3
         DEF Step, Advance, Disrupt, Launch, FirstRequest, StartWorker, BuildAuth, Work, Exit,
             Stop, BuildRaises, AuthRaises, WorkRaises, Crash
  <1>4. disruptions' \in 0..MaxDisruptions
    <2>1. MaxDisruptions \in Nat /\ disruptions \in 0..MaxDisruptions
      BY ProcessAssumption DEF TypeOK
    <2>2. CASE UNCHANGED disruptions
      BY <2>1, <2>2
    <2>3. CASE Disrupt(s)
      BY <2>1, <2>3 DEF Disrupt
    <2>4. Advance(s) \/ Exit(s) => UNCHANGED disruptions
      BY DEF Advance, Launch, FirstRequest, BuildDatabase, StartWorker, BuildAuth, Work, Exit
    <2> QED
      BY <2>2, <2>3, <2>4 DEF Step
  <1> QED
    BY <1>3, <1>4 DEF ProcessTyped

LEMMA TypeOfStep ==
  ASSUME TypeOK, BuiltSoFar, NEW s \in Starters, Step(s)
  PROVE  TypeOK'
  <1>1. ProcessTyped'
    BY ProcessOfStep
  <1>2. CASE BuildDatabase(s)
    <2>1. BuildStep(s) /\ UNCHANGED <<authVars, workerVars>>
      BY <1>2 DEF BuildDatabase
    <2>2. AuthTyped' /\ WorkerTyped'
      BY <2>1, TypeParts DEF AuthTyped, WorkerTyped, authVars, workerVars
    <2> QED
      BY <1>1, <2>1, <2>2, BuildStepTyped
         DEF DatabaseTyped, AuthTyped, WorkerTyped, ProcessTyped, TypeOK
  <1>3. CASE BuildAuth(s)
    <2>1. AuthStep(s) /\ UNCHANGED <<build, workerVars>>
      BY <1>3 DEF BuildAuth
    <2>2. WorkerTyped' /\ build' \in [Starters -> Build]
      BY <2>1, TypeParts DEF WorkerTyped, workerVars
    <2> QED
      BY <1>1, <2>1, <2>2, AuthStepTyped
         DEF DatabaseTyped, AuthTyped, WorkerTyped, ProcessTyped, TypeOK
  <1>4. CASE Apart /\ Places(s) /\ Threads(s)
    <2>1. DatabaseTyped'
      BY <1>4, TypeParts DEF Apart, databaseVars, DatabaseTyped
    <2>2. BeginBuild(s) => build' \in [Starters -> Build]
      <3>1. "schema" \in {"none", "open"} \cup Building /\ 1 \in Nat
        BY DEF Building
      <3> QED
        BY <3>1, BuildTyped DEF BeginBuild
    <2>3. build' \in [Starters -> Build]
      BY <1>4, <2>2, NoBuildTyped, TypeParts DEF Places, Dropped
    <2>4. AuthTyped'
      BY <1>4, NoAuthTyped, TypeParts DEF Apart, Places, AuthTyped
    <2>5. WorkerTyped'
      BY <1>4, LoopStepTyped, TypeParts DEF Threads, WorkerTyped, workerVars
    <2> QED
      BY <1>1, <2>1, <2>3, <2>4, <2>5
         DEF DatabaseTyped, AuthTyped, WorkerTyped, ProcessTyped, TypeOK
  <1> QED
    BY <1>2, <1>3, <1>4, OtherSteps

-----------------------------------------------------------------------------
(* The database only grows, and the settings stay.                         *)

Grown ==
  /\ schema \subseteq schema' /\ columns \subseteq columns'
  /\ indexed => indexed'
  /\ \A n \in RoleNames : roles[n] > 0 => roles'[n] = roles[n]
  /\ \A c \in Codes : permissions[c] > 0 => permissions'[c] = permissions[c]
  /\ rolePermissions \subseteq rolePermissions'
  /\ adminId > 0 => adminId' = adminId
  /\ userRoles \subseteq userRoles'
  /\ unnamed' = unnamed

LEMMA GrownOfStep ==
  ASSUME TypeOK, NEW s \in Starters, Step(s)
  PROVE  Grown
  <1>1. CASE CreateObject(s) /\ UNCHANGED authVars
    BY <1>1 DEF CreateObject, TypeOK, Grown, authVars
  <1>2. CASE InspectColumns(s) /\ UNCHANGED authVars
    BY <1>2 DEF InspectColumns, databaseVars, Grown, authVars
  <1>3. CASE (AddColumn(s) \/ LoseColumn(s) \/ CreateIndex(s)) /\ UNCHANGED authVars
    BY <1>3 DEF AddColumn, LoseColumn, CreateIndex, Grown, authVars
  <1>4. CASE SeedAccess(s) /\ UNCHANGED authVars
    <2>1. permissions' = Inserted(permissions) /\ roles' = Inserted(roles)
      BY <1>4 DEF SeedAccess
    <2>2. /\ \A n \in RoleNames : roles[n] > 0 => roles'[n] = roles[n]
          /\ \A c \in Codes : permissions[c] > 0 => permissions'[c] = permissions[c]
      BY <2>1 DEF Inserted, TypeOK
    <2>3. rolePermissions \subseteq rolePermissions'
      BY <1>4 DEF SeedAccess
    <2> QED
      BY <1>4, <2>2, <2>3 DEF SeedAccess, Grown, authVars
  <1>5. CASE AuthStep(s)
    BY <1>5 DEF AuthStep, FindAdmin, CreateAdmin, LoseAdmin, AssignAdmin, databaseVars, Grown
  <1>6. CASE Apart
    BY <1>6 DEF Apart, databaseVars, Grown
  <1>7. BuildDatabase(s) => BuildStep(s) /\ UNCHANGED authVars
    BY DEF BuildDatabase
  <1>8. BuildAuth(s) => AuthStep(s)
    BY DEF BuildAuth
  <1> QED
    BY <1>1, <1>2, <1>3, <1>4, <1>5, <1>6, <1>7, <1>8, OtherSteps DEF BuildStep

(***************************************************************************)
(* Rows refer to rows by the ids these have.                               *)
(***************************************************************************)
RowMapped(row, rs, ps) == /\ row[2] = rs[row[1]] /\ row[2] > 0
                          /\ row[4] = ps[row[3]] /\ row[4] > 0
                          /\ row[3] \in RoleMap[row[1]]

AssignedRow(row, id, rs) == row[1] = id /\ id > 0 /\ row[2] = rs[Admin] /\ rs[Admin] > 0

LEMMA RowsEach ==
  RowsMapped <=> /\ \A row \in rolePermissions : RowMapped(row, roles, permissions)
                 /\ \A row \in userRoles : AssignedRow(row, adminId, roles)
  BY DEF RowsMapped, RowMapped, AssignedRow

LEMMA RowsOfStep ==
  ASSUME TypeOK, RowsMapped, Bootstrapped, NEW s \in Starters, Step(s)
  PROVE  RowsMapped'
  <1>1. Grown
    BY GrownOfStep
  <1>2. ASSUME NEW row \in rolePermissions
        PROVE  RowMapped(row, roles', permissions')
    <2>1. row[1] \in RoleNames /\ row[3] \in Codes /\ RowMapped(row, roles, permissions)
      BY <1>2, RowsEach DEF TypeOK
    <2> QED
      BY <1>1, <2>1 DEF Grown, RowMapped
  <1>3. ASSUME NEW row \in userRoles
        PROVE  AssignedRow(row, adminId', roles')
    <2>1. AssignedRow(row, adminId, roles) /\ Admin \in RoleNames
      BY <1>3, RowsEach, AdminAssumption
    <2> QED
      BY <1>1, <2>1 DEF Grown, AssignedRow
  <1>4. \A row \in rolePermissions' : RowMapped(row, roles', permissions')
    <2>1. CASE rolePermissions' = rolePermissions
      BY <1>2, <2>1
    <2>2. CASE SeedAccess(s)
      <3>1. /\ rolePermissions' = rolePermissions \cup MapRows
            /\ roles' = Inserted(roles) /\ permissions' = Inserted(permissions)
        BY <2>2 DEF SeedAccess
      <3>2. /\ \A n \in RoleNames : roles'[n] > 0
            /\ \A c \in Codes : permissions'[c] > 0
        BY <3>1, InsertedTyped DEF TypeOK
      <3>3. ASSUME NEW m \in Mapped
            PROVE  RowMapped(<<m[1], roles'[m[1]], m[2], permissions'[m[2]]>>, roles', permissions')
        <4>1. m[1] \in RoleNames /\ m[2] \in Codes /\ m[2] \in RoleMap[m[1]]
          BY <3>3 DEF Mapped
        <4> QED
          BY <3>2, <4>1 DEF RowMapped
      <3>4. \A row \in MapRows : RowMapped(row, roles', permissions')
        BY <3>3 DEF MapRows
      <3> QED
        BY <1>2, <3>1, <3>4
    <2>3. SeedAccess(s) \/ rolePermissions' = rolePermissions
      BY OtherSteps
         DEF BuildDatabase, BuildStep, CreateObject, InspectColumns, AddColumn, LoseColumn,
             CreateIndex, BuildAuth, AuthStep, FindAdmin, CreateAdmin, LoseAdmin, AssignAdmin,
             Apart, databaseVars
    <2> QED
      BY <2>1, <2>2, <2>3
  <1>5. \A row \in userRoles' : AssignedRow(row, adminId', roles')
    <2>1. CASE userRoles' = userRoles
      BY <1>3, <2>1
    <2>2. CASE AssignAdmin(s)
      <3>1. /\ userRoles' = userRoles \cup {<<auth[s].user, roles[Admin]>>}
            /\ auth[s].pc = "assign" /\ UNCHANGED <<adminId, roles>> /\ roles[Admin] # 0
        BY <2>2 DEF AssignAdmin, databaseVars
      <3> s \notin unnamed /\ auth[s].user = adminId /\ adminId > 0
        BY <3>1 DEF Bootstrapped
      <3>2. roles[Admin] > 0
        BY <3>1, AdminAssumption DEF TypeOK
      <3>3. AssignedRow(<<auth[s].user, roles[Admin]>>, adminId', roles')
        BY <3>1, <3>2 DEF AssignedRow
      <3> QED
        BY <1>3, <3>1, <3>3
    <2>3. AssignAdmin(s) \/ userRoles' = userRoles
      BY OtherSteps
         DEF BuildDatabase, authVars, BuildAuth, AuthStep, FindAdmin, CreateAdmin, LoseAdmin, Apart
    <2> QED
      BY <2>1, <2>2, <2>3
  <1> QED
    BY <1>4, <1>5 DEF RowsMapped, RowMapped, AssignedRow

-----------------------------------------------------------------------------
(* What a process has behind it.                                           *)

BuiltOf(b) ==
  /\ b.pc = "schema" =>
       b.at \in 1..Len(Schema) /\ \A i \in 1..(b.at - 1) : Schema[i] \in schema
  /\ b.pc \in {"inspect", "alter"} =>
       /\ schema = Objects
       /\ b.at \in 1..Len(Columns) /\ \A i \in 1..(b.at - 1) : Columns[i] \in columns
  /\ b.pc \in {"index", "seed"} => schema = Objects /\ columns = ColumnNames
  /\ b.pc = "seed" => indexed
  /\ b.pc = "open" => Complete

LEMMA BuiltEach == BuiltSoFar <=> \A s \in Starters : BuiltOf(build[s])
  BY DEF BuiltSoFar, BuiltOf, BuildAt

(***************************************************************************)
(* Seeded roles stay seeded: their rows keep their ids, and no row gives   *)
(* them more.                                                              *)
(***************************************************************************)
LEMMA SeededStays ==
  ASSUME TypeOK, RowsMapped', Grown, Seeded
  PROVE  Seeded'
  <1>1. \A c \in Codes : permissions'[c] = permissions[c] /\ permissions[c] > 0
    BY DEF Grown, Seeded
  <1>2. ASSUME NEW n \in RoleNames
        PROVE  roles'[n] > 0 /\ GrantsOf(n)' = RoleMap[n]
    <2>1. roles'[n] = roles[n] /\ roles[n] > 0 /\ GrantsOf(n) = RoleMap[n]
      BY DEF Grown, Seeded
    <2>2. RoleMap[n] \subseteq GrantsOf(n)'
      BY <1>1, <2>1 DEF GrantsOf, Grown
    <2>3. ASSUME NEW c \in Codes, <<n, roles'[n], c, permissions'[c]>> \in rolePermissions'
          PROVE  c \in RoleMap[n]
      BY <2>3 DEF RowsMapped
    <2> QED
      BY <2>1, <2>2, <2>3 DEF GrantsOf
  <1> QED
    BY <1>1, <1>2 DEF Seeded

LEMMA BuiltStays ==
  ASSUME TypeOK, TypeOK', RowsMapped', Grown, NEW b, BuiltOf(b)
  PROVE  BuiltOf(b)'
  <1>1. schema \subseteq schema' /\ schema' \subseteq Objects
    BY DEF Grown, TypeOK
  <1>2. columns \subseteq columns' /\ columns' \subseteq ColumnNames
    BY DEF Grown, TypeOK
  <1>3. indexed => indexed'
    BY DEF Grown
  <1>4. b.pc = "open" => Complete'
    BY <1>1, <1>2, <1>3, SeededStays DEF BuiltOf, Complete
  <1>5. b.pc = "schema" => \A i \in 1..(b.at - 1) : Schema[i] \in schema'
    BY <1>1 DEF BuiltOf
  <1>6. b.pc \in {"inspect", "alter"} =>
          schema' = Objects /\ \A i \in 1..(b.at - 1) : Columns[i] \in columns'
    BY <1>1, <1>2 DEF BuiltOf
  <1>7. b.pc \in {"index", "seed"} => schema' = Objects /\ columns' = ColumnNames
    BY <1>1, <1>2 DEF BuiltOf
  <1> QED
    BY <1>3, <1>4, <1>5, <1>6, <1>7 DEF BuiltOf

LEMMA NextColumnBuilt ==
  ASSUME TypeOK, NEW s \in Starters, build[s].at \in 1..Len(Columns),
         schema' = Objects, columns' \subseteq ColumnNames,
         \A i \in 1..build[s].at : Columns[i] \in columns', NextColumn(s),
         NEW b, b = build'[s]
  PROVE  BuiltOf(b)'
  <1> DEFINE i == build[s].at
  <1>1. CASE i < Len(Columns)
    <2>1. b = [pc |-> "inspect", at |-> i + 1]
      BY <1>1 DEF NextColumn, Builds, TypeOK
    <2>2. i + 1 \in 1..Len(Columns) /\ (i + 1) - 1 = i
      BY <1>1, SchemaFacts
    <2> QED
      BY <2>1, <2>2 DEF BuiltOf
  <1>2. CASE ~(i < Len(Columns))
    <2>1. b = [pc |-> "index", at |-> 1]
      BY <1>2 DEF NextColumn, Builds, TypeOK
    <2>2. i = Len(Columns)
      BY <1>2, SchemaFacts
    <2>3. ASSUME NEW c \in ColumnNames
          PROVE  c \in columns'
      BY <2>2 DEF ColumnNames
    <2>4. columns' = ColumnNames /\ schema' = Objects
      BY <2>3
    <2>5. b.pc = "index"
      BY <2>1
    <2> QED
      BY <2>4, <2>5 DEF BuiltOf
  <1> QED
    BY <1>1, <1>2

LEMMA BuiltOfBuildStep ==
  ASSUME TypeOK, TypeOK', BuiltSoFar, RowsMapped', NEW s \in Starters, BuildStep(s),
         NEW b, b = build'[s]
  PROVE  BuiltOf(b)'
  <1> DEFINE i == build[s].at
  <1>1. BuiltOf(build[s])
    BY BuiltEach
  <1>2. CASE CreateObject(s)
    <2>1. /\ i \in 1..Len(Schema) /\ \A j \in 1..(i - 1) : Schema[j] \in schema
          /\ schema' = schema \cup {Schema[i]}
      BY <1>1, <1>2 DEF CreateObject, BuildAt, BuiltOf
    <2>2. \A j \in 1..i : Schema[j] \in schema'
      BY <2>1
    <2>3. CASE i < Len(Schema)
      <3>1. b = [pc |-> "schema", at |-> i + 1]
        BY <1>2, <2>3 DEF CreateObject, Builds, TypeOK
      <3>2. i + 1 \in 1..Len(Schema) /\ (i + 1) - 1 = i
        BY <2>1, <2>3, SchemaFacts
      <3> QED
        BY <2>2, <3>1, <3>2 DEF BuiltOf
    <2>4. CASE ~(i < Len(Schema))
      <3>1. b = [pc |-> "inspect", at |-> 1]
        BY <1>2, <2>4 DEF CreateObject, Builds, TypeOK
      <3>2. i = Len(Schema)
        BY <2>1, <2>4, SchemaFacts
      <3>3. schema' = Objects
        BY <2>2, <3>2 DEF Objects, TypeOK
      <3>4. 1 \in 1..Len(Columns) /\ 1..(1 - 1) = {}
        BY SchemaFacts
      <3> QED
        BY <3>1, <3>3, <3>4 DEF BuiltOf
    <2> QED
      BY <2>3, <2>4
  <1>3. CASE InspectColumns(s)
    <2>1. /\ schema' = Objects /\ columns' = columns /\ i \in 1..Len(Columns)
          /\ \A j \in 1..(i - 1) : Columns[j] \in columns
      BY <1>1, <1>3 DEF InspectColumns, BuildAt, BuiltOf, databaseVars
    <2>2. CASE Columns[i] \in columns
      <3>1. \A j \in 1..i : Columns[j] \in columns'
        BY <2>1, <2>2
      <3>2. columns' \subseteq ColumnNames /\ NextColumn(s)
        BY <1>3, <2>2 DEF TypeOK, InspectColumns
      <3> QED
        BY <2>1, <3>1, <3>2, NextColumnBuilt
    <2>3. CASE Columns[i] \notin columns
      <3>1. b = [pc |-> "alter", at |-> i]
        BY <1>3, <2>3 DEF InspectColumns, Builds, TypeOK
      <3> QED
        BY <2>1, <3>1 DEF BuiltOf
    <2> QED
      BY <2>2, <2>3
  <1>4. CASE AddColumn(s)
    <2>1. /\ schema' = Objects /\ columns' = columns \cup {Columns[i]} /\ i \in 1..Len(Columns)
          /\ \A j \in 1..(i - 1) : Columns[j] \in columns
      BY <1>1, <1>4 DEF AddColumn, BuildAt, BuiltOf
    <2>2. \A j \in 1..i : Columns[j] \in columns'
      BY <2>1
    <2>3. columns' \subseteq ColumnNames /\ NextColumn(s)
      BY <1>4 DEF TypeOK, AddColumn
    <2> QED
      BY <2>1, <2>2, <2>3, NextColumnBuilt
  <1>5. CASE LoseColumn(s)
    <2>1. b.pc = "none"
      BY <1>5 DEF LoseColumn, NoBuild, TypeOK
    <2> QED
      BY <2>1 DEF BuiltOf
  <1>6. CASE CreateIndex(s)
    <2>1. /\ b.pc = "seed" /\ schema' = Objects /\ columns' = ColumnNames /\ indexed'
      BY <1>1, <1>6 DEF CreateIndex, Builds, BuildAt, BuiltOf, TypeOK
    <2> QED
      BY <2>1 DEF BuiltOf
  <1>7. CASE SeedAccess(s)
    <2>1. /\ b.pc = "open" /\ schema' = Objects /\ columns' = ColumnNames /\ indexed'
      BY <1>1, <1>7 DEF SeedAccess, Builds, BuildAt, BuiltOf, TypeOK
    <2>2. /\ \A n \in RoleNames : roles'[n] > 0
          /\ \A c \in Codes : permissions'[c] > 0
      BY <1>7, InsertedTyped DEF SeedAccess, TypeOK
    <2>3. ASSUME NEW n \in RoleNames
          PROVE  GrantsOf(n)' = RoleMap[n]
      <3>1. ASSUME NEW c \in RoleMap[n]
            PROVE  c \in Codes /\ <<n, roles'[n], c, permissions'[c]>> \in rolePermissions'
        <4>1. c \in Codes
          BY BootstrapAssumption
        <4>2. <<n, c>> \in Mapped
          BY <4>1 DEF Mapped
        <4>3. <<n, roles'[n], c, permissions'[c]>> \in MapRows
          BY <4>2 DEF MapRows
        <4> QED
          BY <1>7, <4>1, <4>3 DEF SeedAccess
      <3>2. ASSUME NEW c \in Codes, <<n, roles'[n], c, permissions'[c]>> \in rolePermissions'
            PROVE  c \in RoleMap[n]
        BY <3>2 DEF RowsMapped
      <3> QED
        BY <3>1, <3>2 DEF GrantsOf
    <2>4. Seeded'
      BY <2>2, <2>3 DEF Seeded
    <2> QED
      BY <2>1, <2>4 DEF BuiltOf, Complete
  <1> QED
    BY <1>2, <1>3, <1>4, <1>5, <1>6, <1>7 DEF BuildStep

(***************************************************************************)
(* A step of one process leaves what the others have built alone.          *)
(***************************************************************************)
LEMMA OwnPlaces ==
  ASSUME NEW s \in Starters, Step(s), NEW i \in Starters \ {s},
         build \in [Starters -> Build], auth \in [Starters -> Auth]
  PROVE  build'[i] = build[i] /\ auth'[i] = auth[i]
  <1>1. ASSUME NEW pc, NEW at, Builds(s, pc, at)
        PROVE  build'[i] = build[i]
    BY <1>1 DEF Builds
  <1>2. NextColumn(s) => build'[i] = build[i]
    BY <1>1 DEF NextColumn
  <1>3. Dropped(s) => build'[i] = build[i]
    BY DEF Dropped
  <1>4. BuildStep(s) => build'[i] = build[i]
    BY <1>1, <1>2, <1>3
       DEF BuildStep, CreateObject, InspectColumns, AddColumn, LoseColumn, CreateIndex,
           SeedAccess, Dropped
  <1>5. ASSUME NEW pc, NEW user, Bootstraps(s, pc, user)
        PROVE  auth'[i] = auth[i]
    BY <1>5 DEF Bootstraps
  <1>6. AuthStep(s) => auth'[i] = auth[i]
    BY <1>5 DEF AuthStep, FindAdmin, CreateAdmin, LoseAdmin, AssignAdmin
  <1>7. Places(s) => build'[i] = build[i] /\ auth'[i] = auth[i]
    BY <1>1, <1>3 DEF Places, BeginBuild
  <1> QED
    BY <1>4, <1>6, <1>7, OtherSteps DEF BuildDatabase, BuildAuth, authVars

LEMMA BuiltOfStep ==
  ASSUME TypeOK, TypeOK', RowsMapped', BuiltSoFar, NEW s \in Starters, Step(s)
  PROVE  BuiltSoFar'
  <1>1. Grown
    BY GrownOfStep
  <1>2. ASSUME NEW i \in Starters, build'[i] = build[i]
        PROVE  BuiltOf(build[i])'
    <2>1. PICK b : b = build[i]
      OBVIOUS
    <2>2. BuiltOf(b)'
      BY <1>1, <2>1, BuiltEach, BuiltStays
    <2> QED
      BY <1>2, <2>1, <2>2
  <1>3. ASSUME NEW b, b = build'[s]
        PROVE  BuiltOf(b)'
    <2>1. CASE BuildDatabase(s)
      BY <1>3, <2>1, BuiltOfBuildStep DEF BuildDatabase
    <2>2. CASE build'[s] = build[s]
      BY <1>1, <1>3, <2>2, BuiltEach, BuiltStays
    <2>3. CASE BeginBuild(s)
      <3>1. b = [pc |-> "schema", at |-> 1]
        BY <1>3, <2>3 DEF BeginBuild, Builds, TypeOK
      <3>2. 1 \in 1..Len(Schema) /\ 1..(1 - 1) = {}
        BY SchemaFacts
      <3> QED
        BY <3>1, <3>2 DEF BuiltOf
    <2>4. CASE Dropped(s)
      <3>1. b.pc = "none"
        BY <1>3, <2>4 DEF Dropped, NoBuild, TypeOK
      <3> QED
        BY <3>1 DEF BuiltOf
    <2>5. BuildAuth(s) => build'[s] = build[s]
      BY DEF BuildAuth
    <2> QED
      BY <2>1, <2>2, <2>3, <2>4, <2>5, OtherSteps DEF Places
  <1>4. ASSUME NEW i \in Starters \ {s}
        PROVE  build'[i] = build[i]
    BY OwnPlaces DEF TypeOK
  <1>5. \A i \in Starters : \A b : b = build'[i] => BuiltOf(b)'
    BY <1>2, <1>3, <1>4
  <1> QED
    BY <1>5 DEF BuiltSoFar, BuiltOf, BuildAt

-----------------------------------------------------------------------------
(* The administrator.                                                      *)

BootOf(i) ==
  /\ auth[i].pc # "none" => build[i].pc = "open"
  /\ i \in unnamed => auth[i].pc \in {"none", "ready"} /\ auth[i].user = 0
  /\ i \notin unnamed =>
       /\ auth[i].pc \in {"assign", "ready"} => auth[i].user = adminId /\ adminId > 0
       /\ auth[i].pc = "ready" => <<adminId, roles[Admin]>> \in userRoles

LEMMA BootEach == Bootstrapped <=> \A i \in Starters : BootOf(i)
  BY DEF Bootstrapped, BootOf, BuildAt

(***************************************************************************)
(* Neither the administrator nor the id of its role changes under a        *)
(* process that relies on them.                                            *)
(***************************************************************************)
LEMMA BootStays ==
  ASSUME TypeOK, Grown, BuiltSoFar, NEW i \in Starters, BootOf(i),
         build'[i] = build[i], auth'[i] = auth[i]
  PROVE  BootOf(i)'
  <1>1. Admin \in RoleNames
    BY AdminAssumption
  <1>2. auth[i].pc # "none" => roles[Admin] > 0
    BY <1>1 DEF BootOf, BuiltSoFar, Complete, Seeded, BuildAt
  <1>3. auth[i].pc # "none" => roles'[Admin] = roles[Admin]
    BY <1>1, <1>2 DEF Grown
  <1>4. i \notin unnamed /\ auth[i].pc \in {"assign", "ready"} => adminId' = adminId
    BY DEF Grown, BootOf
  <1> QED
    BY <1>3, <1>4 DEF Grown, BootOf

LEMMA BootOfAuth ==
  ASSUME TypeOK, Grown, NEW s \in Starters, BootOf(s), BuildAuth(s)
  PROVE  BootOf(s)'
  <1>1. build'[s].pc = "open" /\ AuthStep(s) /\ unnamed' = unnamed
    BY DEF BuildAuth, Serving, BuildAt, Grown
  <1>2. CASE FindAdmin(s)
    <2>1. adminId' = adminId /\ adminId \in Nat
      BY <1>2 DEF FindAdmin, TypeOK
    <2>2. CASE s \in unnamed
      <3>1. auth'[s] = [pc |-> "ready", user |-> 0]
        BY <1>2, <2>2 DEF FindAdmin, Bootstraps, TypeOK
      <3> QED
        BY <1>1, <2>2, <3>1 DEF BootOf
    <2>3. CASE s \notin unnamed
      <3>1. auth'[s] = IF adminId = 0 THEN [pc |-> "create", user |-> 0]
                       ELSE [pc |-> "assign", user |-> adminId]
        BY <1>2, <2>3 DEF FindAdmin, Bootstraps, TypeOK
      <3> QED
        BY <1>1, <2>1, <2>3, <3>1 DEF BootOf
    <2> QED
      BY <2>2, <2>3
  <1>3. CASE CreateAdmin(s)
    <2>1. auth'[s] = [pc |-> "assign", user |-> adminId'] /\ adminId' > 0
      BY <1>3 DEF CreateAdmin, Bootstraps, TypeOK
    <2>2. s \notin unnamed
      BY <1>3 DEF CreateAdmin, BootOf
    <2> QED
      BY <1>1, <2>1, <2>2 DEF BootOf
  <1>4. CASE LoseAdmin(s)
    <2>1. auth'[s] = [pc |-> "none", user |-> 0]
      BY <1>4 DEF LoseAdmin, NoAuth, TypeOK
    <2> QED
      BY <1>1, <2>1 DEF BootOf
  <1>5. CASE AssignAdmin(s)
    <2>1. /\ auth'[s] = [pc |-> "ready", user |-> auth[s].user]
          /\ UNCHANGED <<adminId, roles>>
          /\ <<auth[s].user, roles[Admin]>> \in userRoles'
      BY <1>5 DEF AssignAdmin, Bootstraps, TypeOK, databaseVars
    <2>2. s \notin unnamed /\ auth[s].user = adminId /\ adminId > 0
      BY <1>5 DEF AssignAdmin, BootOf
    <2> QED
      BY <1>1, <2>1, <2>2 DEF BootOf
  <1> QED
    BY <1>1, <1>2, <1>3, <1>4, <1>5 DEF AuthStep

LEMMA BootstrappedOfStep ==
  ASSUME TypeOK, BuiltSoFar, Bootstrapped, NEW s \in Starters, Step(s)
  PROVE  Bootstrapped'
  <1>1. Grown /\ BootOf(s) /\ unnamed' = unnamed
    BY GrownOfStep, BootEach DEF Grown
  <1>2. BootOf(s)'
    <2>1. CASE BuildDatabase(s)
      <3>1. auth[s].pc = "none" /\ auth' = auth
        BY <1>1, <2>1
           DEF BuildDatabase, authVars, BuildStep, CreateObject, InspectColumns, AddColumn,
               LoseColumn, CreateIndex, SeedAccess, BuildAt, BootOf
      <3> QED
        BY <1>1, <3>1 DEF BootOf
    <2>2. CASE BuildAuth(s)
      BY <1>1, <2>2, BootOfAuth
    <2>3. CASE build' = build /\ auth' = auth
      BY <1>1, <2>3, BootStays
    <2>4. CASE build[s].pc # "open" /\ auth' = auth
      BY <1>1, <2>4 DEF BootOf
    <2>5. CASE auth' = [auth EXCEPT ![s] = NoAuth]
      BY <1>1, <2>5 DEF NoAuth, TypeOK, BootOf
    <2> QED
      BY <2>1, <2>2, <2>3, <2>4, <2>5, OtherSteps DEF Places
  <1>3. ASSUME NEW i \in Starters \ {s}
        PROVE  BootOf(i)'
    <2>1. build'[i] = build[i] /\ auth'[i] = auth[i]
      BY OwnPlaces DEF TypeOK
    <2> QED
      BY <1>1, <2>1, BootEach, BootStays
  <1>4. Bootstrapped' <=> \A i \in Starters : BootOf(i)'
    BY DEF Bootstrapped, BootOf, BuildAt
  <1> QED
    BY <1>2, <1>3, <1>4

-----------------------------------------------------------------------------
(* Lost races.                                                             *)

LossOf(i) ==
  /\ lost[i] \subseteq columns \cup {Admin}
  /\ Admin \in lost[i] => adminId > 0
  /\ build[i].pc = "alter" => Columns[build[i].at] \notin lost[i]
  /\ auth[i].pc = "create" => Admin \notin lost[i]

LEMMA LossEach == Losses <=> \A i \in Starters : LossOf(i)
  BY DEF Losses, LossOf, BuildAt

(***************************************************************************)
(* A process that reads that a column is missing has never lost it.        *)
(***************************************************************************)
LEMMA LossStays ==
  ASSUME TypeOK, Losses, Grown, NEW i \in Starters,
         lost'[i] = lost[i],
         build'[i] = build[i] \/ build'[i].pc # "alter",
         auth'[i] = auth[i] \/ auth'[i].pc # "create"
  PROVE  LossOf(i)'
  <1>1. LossOf(i)
    BY LossEach
  <1>2. columns \subseteq columns' /\ (adminId > 0 => adminId' > 0)
    BY DEF Grown
  <1> QED
    BY <1>1, <1>2 DEF LossOf

LEMMA LossOfBuild ==
  ASSUME TypeOK, BuiltSoFar, Bootstrapped, Losses, Grown, NEW s \in Starters, BuildDatabase(s)
  PROVE  LossOf(s)'
  <1>1. /\ BuildStep(s) /\ auth' = auth /\ adminId' = adminId
        /\ LossOf(s)
    BY LossEach DEF BuildDatabase, authVars
  <1>2. auth[s].pc = "none"
    BY <1>1
       DEF Bootstrapped, BuildStep, CreateObject, InspectColumns, AddColumn, LoseColumn,
           CreateIndex, SeedAccess, BuildAt
  <1>3. auth'[s].pc # "create"
    BY <1>1, <1>2
  <1>4. NextColumn(s) => build'[s].pc # "alter"
    BY DEF NextColumn, Builds, TypeOK
  <1>5. CASE CreateObject(s) \/ AddColumn(s) \/ CreateIndex(s) \/ SeedAccess(s)
    <2>1. lost' = lost
      BY <1>5 DEF CreateObject, AddColumn, CreateIndex, SeedAccess
    <2>2. build'[s].pc # "alter"
      BY <1>4, <1>5 DEF CreateObject, AddColumn, CreateIndex, SeedAccess, Builds, TypeOK
    <2> QED
      BY <1>3, <2>1, <2>2, LossStays
  <1>6. CASE InspectColumns(s)
    <2>1. lost' = lost /\ columns' = columns
      BY <1>6 DEF InspectColumns, databaseVars
    <2>2. CASE Columns[build[s].at] \in columns
      BY <1>3, <1>4, <1>6, <2>1, <2>2, LossStays DEF InspectColumns
    <2>3. CASE Columns[build[s].at] \notin columns
      <3>1. build'[s] = [pc |-> "alter", at |-> build[s].at]
        BY <1>6, <2>3 DEF InspectColumns, Builds, TypeOK
      <3>2. Columns[build[s].at] \in ColumnNames
        BY <1>6, SchemaFacts DEF InspectColumns, BuildAt, BuiltSoFar
      <3>3. Columns[build[s].at] # Admin
        BY <3>2, AdminAssumption
      <3>4. Columns[build[s].at] \notin lost[s]
        BY <1>1, <2>3, <3>3 DEF LossOf
      <3> QED
        BY <1>1, <1>3, <2>1, <3>1, <3>4 DEF LossOf
    <2> QED
      BY <2>2, <2>3
  <1>7. CASE LoseColumn(s)
    <2>1. /\ lost'[s] = lost[s] \cup {Columns[build[s].at]} /\ columns' = columns
          /\ Columns[build[s].at] \in columns
      BY <1>7 DEF LoseColumn, TypeOK
    <2>2. build'[s].pc # "alter"
      BY <1>7 DEF LoseColumn, NoBuild, TypeOK
    <2>3. Columns[build[s].at] # Admin
      BY <2>1, AdminAssumption DEF TypeOK
    <2> QED
      BY <1>1, <1>3, <2>1, <2>2, <2>3 DEF LossOf
  <1> QED
    BY <1>1, <1>5, <1>6, <1>7 DEF BuildStep

LEMMA LossOfAuth ==
  ASSUME TypeOK, Losses, Grown, NEW s \in Starters, BuildAuth(s)
  PROVE  LossOf(s)'
  <1>1. AuthStep(s) /\ build' = build /\ BuildAt(s, "open") /\ LossOf(s)
    BY LossEach DEF BuildAuth, Serving
  <1>2. build'[s].pc # "alter"
    BY <1>1 DEF BuildAt
  <1>3. CASE FindAdmin(s)
    <2>1. lost' = lost /\ columns' = columns /\ adminId' = adminId
      BY <1>3 DEF FindAdmin, databaseVars
    <2>2. auth'[s].pc = "create" => adminId = 0
      BY <1>3 DEF FindAdmin, Bootstraps, TypeOK
    <2> QED
      BY <1>1, <1>2, <2>1, <2>2 DEF LossOf
  <1>4. CASE CreateAdmin(s) \/ AssignAdmin(s)
    <2>1. lost' = lost /\ auth'[s].pc # "create"
      BY <1>4 DEF CreateAdmin, AssignAdmin, Bootstraps, databaseVars, TypeOK
    <2> QED
      BY <1>2, <2>1, LossStays
  <1>5. CASE LoseAdmin(s)
    <2>1. /\ lost'[s] = lost[s] \cup {Admin} /\ columns' = columns
          /\ adminId' = adminId /\ adminId # 0
      BY <1>5 DEF LoseAdmin, TypeOK
    <2>2. auth'[s].pc # "create"
      BY <1>5 DEF LoseAdmin, NoAuth, TypeOK
    <2>3. adminId > 0
      BY <2>1 DEF TypeOK
    <2> QED
      BY <1>1, <1>2, <2>1, <2>2, <2>3 DEF LossOf
  <1> QED
    BY <1>1, <1>3, <1>4, <1>5 DEF AuthStep

LEMMA LossOfStep ==
  ASSUME TypeOK, BuiltSoFar, Bootstrapped, Losses, NEW s \in Starters, Step(s)
  PROVE  Losses'
  <1>1. Grown
    BY GrownOfStep
  <1>2. ASSUME NEW i \in Starters \ {s}
        PROVE  LossOf(i)'
    <2>1. lost'[i] = lost[i]
      BY OtherSteps
         DEF BuildDatabase, BuildStep, CreateObject, InspectColumns, AddColumn, LoseColumn,
             CreateIndex, SeedAccess, BuildAuth, AuthStep, FindAdmin, CreateAdmin, LoseAdmin,
             AssignAdmin, Apart, databaseVars, TypeOK
    <2>2. build'[i] = build[i] /\ auth'[i] = auth[i]
      BY OwnPlaces DEF TypeOK
    <2> QED
      BY <1>1, <2>1, <2>2, LossStays
  <1>3. LossOf(s)'
    <2>1. CASE Apart /\ Places(s)
      <3>1. lost' = lost
        BY <2>1 DEF Apart, databaseVars
      <3>2. build'[s] = build[s] \/ build'[s].pc # "alter"
        BY <2>1 DEF Places, BeginBuild, Builds, Dropped, NoBuild, TypeOK
      <3>3. auth'[s] = auth[s] \/ auth'[s].pc # "create"
        BY <2>1 DEF Places, NoAuth, TypeOK
      <3> QED
        BY <1>1, <3>1, <3>2, <3>3, LossStays
    <2> QED
      BY <1>1, <2>1, OtherSteps, LossOfBuild, LossOfAuth
  <1> QED
    BY <1>2, <1>3 DEF Losses, LossOf, BuildAt

-----------------------------------------------------------------------------
(* The loop.                                                               *)

LEMMA LateOfStep ==
  ASSUME TypeOK, LateJobs, NEW s \in Starters, Step(s)
  PROVE  LateJobs'
  <1>1. CASE UNCHANGED workerVars
    BY <1>1 DEF LateJobs, workerVars
  <1>2. ASSUME s \in Embedded,
               \/ LoopStep(s) \/ StartLoop(s) \/ LoopRaises(s) \/ LoopGone(s)
               \/ SetEvent(s) /\ loop[s] # "none"
        PROVE  LateJobs'
    <2>1. ASSUME NEW i \in Embedded \ {s}
          PROVE  /\ loop'[i] = loop[i] /\ taken'[i] = taken[i]
                 /\ stopEvent'[i] = stopEvent[i] /\ late'[i] = late[i]
      BY <1>2
         DEF LoopStep, CheckEvent, TakeJob, EndBatch, WakeUp, StartLoop, LoopRaises, LoopGone,
             SetEvent, Moves, TypeOK
    <2>2. /\ ~stopEvent[s] \/ loop[s] = "none" => late[s] = 0
          /\ loop[s] = "batch" => late[s] <= taken[s]
          /\ late[s] <= MaxBatch
          /\ late[s] \in Nat /\ taken[s] \in 0..MaxBatch /\ MaxBatch \in Nat
          /\ stopEvent[s] \in BOOLEAN
      BY <1>2, WorkerAssumption DEF LateJobs, TypeOK
    <2>3. /\ ~stopEvent'[s] \/ loop'[s] = "none" => late'[s] = 0
          /\ loop'[s] = "batch" => late'[s] <= taken'[s]
          /\ late'[s] <= MaxBatch
      <3>1. CASE CheckEvent(s)
        <4>1. /\ loop'[s] = IF stopEvent[s] THEN "ended" ELSE "batch"
              /\ taken'[s] = 0 /\ stopEvent' = stopEvent /\ late' = late
          BY <1>2, <3>1 DEF CheckEvent, Moves, TypeOK
        <4> QED
          BY <2>2, <4>1
      <3>2. CASE TakeJob(s)
        <4>1. /\ loop[s] = "batch" /\ loop' = loop /\ stopEvent' = stopEvent
              /\ taken[s] < MaxBatch /\ taken'[s] = taken[s] + 1
              /\ late'[s] = IF stopEvent[s] THEN late[s] + 1 ELSE late[s]
          BY <1>2, <3>2 DEF TakeJob, TypeOK
        <4> QED
          BY <2>2, <4>1
      <3>3. CASE EndBatch(s) \/ WakeUp(s) \/ LoopRaises(s)
        <4>1. /\ loop'[s] \in {"wait", "check", "ended"} /\ loop[s] # "none"
              /\ stopEvent' = stopEvent /\ late' = late
          BY <1>2, <3>3 DEF EndBatch, WakeUp, LoopRaises, Moves, TypeOK
        <4> QED
          BY <2>2, <4>1
      <3>4. CASE StartLoop(s)
        <4>1. loop[s] = "none" /\ loop'[s] = "check" /\ late' = late
          BY <1>2, <3>4 DEF StartLoop, Moves, TypeOK
        <4> QED
          BY <2>2, <4>1
      <3>5. CASE LoopGone(s)
        <4>1. loop'[s] = "none" /\ late'[s] = 0
          BY <1>2, <3>5 DEF LoopGone, Moves, TypeOK
        <4> QED
          BY <2>2, <4>1
      <3>6. CASE SetEvent(s) /\ loop[s] # "none"
        <4>1. stopEvent'[s] = TRUE /\ loop' = loop /\ taken' = taken /\ late' = late
          BY <1>2, <3>6 DEF SetEvent, TypeOK
        <4> QED
          BY <2>2, <3>6, <4>1
      <3> QED
        BY <1>2, <3>1, <3>2, <3>3, <3>4, <3>5, <3>6 DEF LoopStep
    <2> QED
      BY <2>1, <2>3 DEF LateJobs
  <1>3. BuildDatabase(s) \/ BuildAuth(s) => UNCHANGED workerVars
    BY DEF BuildDatabase, BuildAuth
  <1> QED
    BY <1>1, <1>2, <1>3, OtherSteps DEF Threads

-----------------------------------------------------------------------------
(* The invariant.                                                          *)

LEMMA InitIInv == Init => IInv
  <1> SUFFICES ASSUME Init
               PROVE  IInv
    OBVIOUS
  <1> USE DEF Init, DatabaseInit, AuthInit, WorkerInit
  <1>1. TypeOK
    <2>1. NoBuild \in Build /\ NoAuth \in Auth /\ "none" \in LoopPC
      BY NoBuildTyped, NoAuthTyped DEF LoopPC
    <2>2. MaxBatch \in Nat /\ MaxDisruptions \in Nat /\ Jobs \in Objects
      BY WorkerAssumption, ProcessAssumption, BootstrapAssumption
    <2>3. /\ schema \subseteq Objects /\ columns \subseteq ColumnNames /\ indexed \in BOOLEAN
          /\ permissions \in [Codes -> Nat] /\ roles \in [RoleNames -> Nat]
          /\ rolePermissions \subseteq RoleNames \X Nat \X Codes \X Nat /\ made \in Nat
      BY <2>2
    <2>4. /\ build \in [Starters -> Build] /\ auth \in [Starters -> Auth]
          /\ lost \in [Starters -> SUBSET (ColumnNames \cup {Admin})]
          /\ unnamed \subseteq Starters
          /\ adminId \in Nat /\ userRoles \subseteq Nat \X Nat
      BY <2>1, AdminAssumption
    <2>5. /\ loop \in [Embedded -> LoopPC] /\ taken \in [Embedded -> 0..MaxBatch]
          /\ stopEvent \in [Embedded -> BOOLEAN] /\ late \in [Embedded -> Nat]
          /\ phase \in [Starters -> {"down", "up", "stopping"}]
          /\ disruptions \in 0..MaxDisruptions
      BY <2>1, <2>2
    <2> QED
      BY <2>3, <2>4, <2>5 DEF TypeOK
  <1>2. BuiltSoFar
    BY DEF BuiltSoFar, NoBuild, BuildAt
  <1>3. RowsMapped
    BY DEF RowsMapped
  <1>4. Bootstrapped
    BY DEF Bootstrapped, NoAuth
  <1>5. Losses
    BY DEF Losses, NoBuild, NoAuth, BuildAt
  <1>6. LateJobs
    <2>1. \A s \in Embedded : late[s] = 0 /\ loop[s] = "none"
      OBVIOUS
    <2>2. 0 <= MaxBatch
      BY WorkerAssumption
    <2> QED
      BY <2>1, <2>2 DEF LateJobs
  <1> QED
    BY <1>1, <1>2, <1>3, <1>4, <1>5, <1>6 DEF IInv

LEMMA NextIInv ==
  ASSUME IInv, [Next]_vars
  PROVE  IInv'
  <1>1. CASE UNCHANGED vars
    BY <1>1
       DEF IInv, TypeOK, BuiltSoFar, RowsMapped, Bootstrapped, Losses, LateJobs, Complete,
           Seeded, GrantsOf, BuildAt, vars, databaseVars, authVars, workerVars
  <1>2. CASE Next
    <2>1. PICK s \in Starters : Step(s)
      BY <1>2 DEF Next, Step
    <2>2. TypeOK'
      BY <2>1, TypeOfStep DEF IInv
    <2>3. RowsMapped'
      BY <2>1, RowsOfStep DEF IInv
    <2>4. BuiltSoFar'
      BY <2>1, <2>2, <2>3, BuiltOfStep DEF IInv
    <2>5. Bootstrapped'
      BY <2>1, BootstrappedOfStep DEF IInv
    <2>6. Losses' /\ LateJobs'
      BY <2>1, LossOfStep, LateOfStep DEF IInv
    <2> QED
      BY <2>2, <2>3, <2>4, <2>5, <2>6 DEF IInv
  <1> QED
    BY <1>1, <1>2

(***************************************************************************)
(* The inductive invariant holds, for any number of processes, any schema, *)
(* any old file and any disruptions.                                       *)
(***************************************************************************)
THEOREM ProcessSafety == Spec => []IInv
  <1>1. IInv /\ [Next]_vars => IInv'
    BY NextIInv
  <1> QED
    BY <1>1, InitIInv, PTL DEF Spec

(***************************************************************************)
(* A process that has its database has all of it: database.py may be run   *)
(* by any number of processes at the same time and interrupted anywhere.   *)
(***************************************************************************)
THEOREM CompleteWhenOpen == Spec => []ReadyComplete
  <1>1. IInv => ReadyComplete
    BY DEF IInv, BuiltSoFar, ReadyComplete, BuildAt
  <1> QED
    BY <1>1, ProcessSafety, PTL

(***************************************************************************)
(* A server that names an administrator, and authenticates, has one who    *)
(* may do everything, whatever servers that name none do at the same time  *)
(* (auth/service.py 115-128).                                              *)
(***************************************************************************)
THEOREM AdminInPlace == Spec => []AuthComplete
  <1>1. ASSUME IInv, NEW s \in Servers \ unnamed, auth[s].pc = "ready"
        PROVE  /\ adminId > 0
               /\ <<adminId, roles[Admin]>> \in userRoles /\ GrantsOf(Admin) = Codes
    <2>1. s \in Starters
      BY ProcessAssumption
    <2>2. build[s].pc = "open" /\ adminId > 0 /\ <<adminId, roles[Admin]>> \in userRoles
      BY <1>1, <2>1 DEF IInv, Bootstrapped, BuildAt
    <2>3. Seeded
      BY <1>1, <2>1, <2>2 DEF IInv, BuiltSoFar, Complete
    <2> QED
      BY <2>2, <2>3, AdminAssumption DEF Seeded
  <1>2. IInv => AuthComplete
    BY <1>1, AdminAssumption DEF AuthComplete
  <1> QED
    BY <1>2, ProcessSafety, PTL

(***************************************************************************)
(* No row of the access tables refers to a row that is not there, although *)
(* SQLite does not enforce their foreign keys (database.py 282-352).       *)
(***************************************************************************)
THEOREM ReferencesHold == Spec => []NoDangling
  <1>1. IInv => NoDangling
    BY AdminAssumption DEF IInv, RowsMapped, NoDangling
  <1> QED
    BY <1>1, ProcessSafety, PTL

(***************************************************************************)
(* A worker that is told to stop begins no more than one batch of jobs     *)
(* (worker.py 39-49).                                                      *)
(***************************************************************************)
THEOREM OneBatchMore == Spec => []StopBounded
  <1>1. IInv => StopBounded
    BY DEF IInv, LateJobs, StopBounded
  <1> QED
    BY <1>1, ProcessSafety, PTL

(***************************************************************************)
(* No process loses the same race twice, so that of any number of          *)
(* processes that start together each gets through after a bounded number  *)
(* of failures (database.py 253-270, auth/service.py 115-128).             *)
(***************************************************************************)
THEOREM LostOnce == Spec => NeverTwice
  <1>1. ASSUME IInv
        PROVE  \A s \in Starters : /\ LoseColumn(s) => Columns[build[s].at] \notin lost[s]
                                   /\ LoseAdmin(s) => Admin \notin lost[s]
    BY <1>1 DEF IInv, Losses, LoseColumn, LoseAdmin, BuildAt
  <1> QED
    BY <1>1, ProcessSafety, PTL DEF Spec, NeverTwice

(***************************************************************************)
(* What was once complete stays so, and the administrator stays in office, *)
(* whatever starts, fails and dies afterwards (database.py 282-352, auth/  *)
(* service.py 115-128).                                                    *)
(***************************************************************************)
THEOREM BootstrapLasts == Spec => NothingUndone
  <1>1. ASSUME IInv, IInv', Next
        PROVE  /\ Complete => Complete'
               /\ Administered => Administered' /\ adminId' = adminId
    <2>1. PICK s \in Starters : Step(s)
      BY <1>1 DEF Next, Step
    <2>2. Grown
      BY <1>1, <2>1, GrownOfStep DEF IInv
    <2>3. Seeded => Seeded'
      BY <1>1, <2>2, SeededStays DEF IInv
    <2>4. Complete => Complete'
      <3>1. schema' \subseteq Objects /\ columns' \subseteq ColumnNames
        BY <1>1 DEF IInv, TypeOK
      <3> QED
        BY <2>2, <2>3, <3>1 DEF Complete, Grown
    <2>5. ASSUME Administered
          PROVE  Administered' /\ adminId' = adminId
      <3>1. Seeded' /\ adminId' = adminId /\ adminId > 0
        BY <2>2, <2>3, <2>5 DEF Administered, Grown
      <3>2. roles'[Admin] = roles[Admin]
        BY <2>2, <2>5, AdminAssumption DEF Administered, Seeded, Grown
      <3>3. <<adminId', roles'[Admin]>> \in userRoles'
        BY <2>2, <2>5, <3>1, <3>2 DEF Administered, Grown
      <3>4. GrantsOf(Admin)' = Codes
        BY <3>1, AdminAssumption DEF Seeded
      <3> QED
        BY <3>1, <3>3, <3>4 DEF Administered
    <2> QED
      BY <2>4, <2>5
  <1>2. ASSUME IInv, [Next]_vars
        PROVE  [/\ Complete => Complete'
                /\ Administered => Administered' /\ adminId' = adminId]_vars
    BY <1>1, <1>2, NextIInv
  <1> QED
    BY <1>2, ProcessSafety, PTL DEF Spec, NothingUndone

(***************************************************************************)
(* However far the seed of the access tables has got, by whichever         *)
(* processes, no role grants what it should not: a start that was          *)
(* interrupted leaves fewer rights, never more (database.py 300-352).      *)
(***************************************************************************)
LeastPrivilege == \A n \in RoleNames : GrantsOf(n) \subseteq RoleMap[n]

THEOREM NeverMoreRights == Spec => []LeastPrivilege
  <1>1. IInv => LeastPrivilege
    BY DEF IInv, RowsMapped, LeastPrivilege, GrantsOf
  <1> QED
    BY <1>1, ProcessSafety, PTL
=============================================================================
