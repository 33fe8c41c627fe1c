SPECIFICATION HSpec
CONSTANTS
  None = None
  User = {u1}
  Seeded = {}
  Device = {d1}
  Worker = {w1, w2}
  SessionId = {s1}
  ResetToken = {t1, t2}
  MaxFailed = 2
  LockTicks = 2
  ResetTicks = 0
  SessionTicks = 0
  JwtTicks = 0
  AccessTicks = 0
  AgeCap = 1
  Smtp = FALSE
  Endpoints = {"register", "verify", "login", "mistype", "forgot", "reset"}
VIEW AccountView
INVARIANTS TypeOK LockMatchesCounter LockAfterMaxFailed RedeemedIsDead
PROPERTIES LockRunsOut
