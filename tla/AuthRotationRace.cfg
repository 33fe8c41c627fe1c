SPECIFICATION Spec
CONSTANTS
  None = None
  User = {u1}
  Seeded = {u1}
  Device = {d1}
  Worker = {w1, w2}
  SessionId = {s1, s2, s3}
  ResetToken = {t1}
  MaxFailed = 2
  LockTicks = 1
  ResetTicks = 0
  SessionTicks = 0
  JwtTicks = 0
  AccessTicks = 0
  AgeCap = 1
  Smtp = FALSE
  Endpoints = {"login", "refresh"}
INVARIANTS OneSuccessor
