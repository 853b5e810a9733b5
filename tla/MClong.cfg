SPECIFICATION Spec
CONSTANTS
  r1 = r1
  r2 = r2
  u1 = u1
  k1 = k1
  s1 = s1
  None = None
  System = System
  Requests = {r1, r2}
  Questions = {r1, r2}
  TokenIds = {r1, r2}
  KeyIds <- KeyRows
  OldKeys = {k1}
  Named = {s1}
  MaxHistory = 1
  MaxPrompt = 1
  Users = {u1}
  ExpMinutes = 1
  MaxTime = 2
  RoleChoices <- StartRoles
  SettingsChoices <- LiveServer
  MaxDocs = 1
  Faults <- NoFaults
  Offers <- OnlyChat
INVARIANTS
  ContextContinues
CHECK_DEADLOCK FALSE
