SPECIFICATION Spec
CONSTANTS
  Account = {a1, a2}
  Device = {d1, d2}
  UserCode = {u1, u2}
  Poll = {p1, p2}
  Decision = {b1, b2}
  Refresh = {}
  Bearer = {}
  PatCreation = {}
  IdempotencyKey = {}
  DeviceLifetime = 2
  PollInterval = 1
  AccessLifetime = 1
  SessionIdle = 2
  SessionAbsolute = 3
  PatLifetime = 2
  Retention = 3
  LastTick = 2
  CallTime = 1
  GrantBy = 0
  CodeAttempts = 2
  MaxErrors = 1
SYMMETRY AuthSymmetry
CHECK_DEADLOCK FALSE
INVARIANTS
  TypeOK
  OneSessionPerGrant
PROPERTIES
  DecisionsAreFinal
  AgreesWithMemory
