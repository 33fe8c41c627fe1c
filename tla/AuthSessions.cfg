SPECIFICATION HSpec
CONSTANTS
  None = None
  User = {u1}
  Seeded = {u1}
  Worker = {w1, w2}
  Device = {d1}
  SessionId = {s1, s2, s3}
  ResetToken = {t1}
  MaxFailed = 2
  LockTicks = 1
  ResetTicks = 0
  SessionTicks = 0
  JwtTicks = 0
  AccessTicks = 0
  AgeCap = 1
  Smtp = FALSE
  Endpoints = {"login", "refresh", "logout", "admin", "crash"}
SYMMETRY Symmetry
VIEW View
INVARIANTS ParentRevoked OneSuccessorPerThread SessionHasDevice LoginAuditedFirst
PROPERTIES ImplementsLedger DeactivationDrains LoggedOutIsFinal
