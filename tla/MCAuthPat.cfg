SPECIFICATION Spec
CONSTANTS
  Account = {a}
  Device = {}
  UserCode = {}
  Poll = {}
  Decision = {}
  Refresh = {}
  Bearer = {c1}
  PatCreation = {t1, t2, t3}
  IdempotencyKey = {k}
  DeviceLifetime = 2
  PollInterval = 1
  AccessLifetime = 1
  SessionIdle = 2
  SessionAbsolute = 3
  PatLifetime = 2
  Retention = 3
  LastTick = 3
  CallTime = 1
  GrantBy = 0
  CodeAttempts = 2
  MaxErrors = 1
SYMMETRY AuthSymmetry
CHECK_DEADLOCK FALSE
INVARIANTS
  KeyMintsOnce
  ReplayIsOfTheSameRequest
PROPERTIES
  AgreesWithMemory
