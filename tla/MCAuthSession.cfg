SPECIFICATION Spec
CONSTANTS
  Account = {a}
  Device = {d1}
  UserCode = {u1}
  Poll = {p1}
  Decision = {b1}
  Refresh = {r1, r2, r3}
  Bearer = {c1}
  PatCreation = {}
  IdempotencyKey = {}
  DeviceLifetime = 2
  PollInterval = 1
  AccessLifetime = 1
  SessionIdle = 2
  SessionAbsolute = 3
  PatLifetime = 2
  Retention = 3
  LastTick = 3
  CallTime = 1
  GrantBy = 0
  CodeAttempts = 2
  MaxErrors = 1
SYMMETRY AuthSymmetry
CHECK_DEADLOCK FALSE
INVARIANTS
  RefreshTokensFormAChain
  EndedSessionsHoldNothing
  ReuseEndsTheSession
  NoAdmissionOnceRevoked
PROPERTIES
  AgreesWithMemory
