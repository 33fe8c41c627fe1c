SPECIFICATION HSpec
CONSTANTS
  None = None
  h1 = h1
  h2 = h2
  h3 = h3
  m1 = m1
  m2 = m2
  a1 = a1
  a2 = a2
  dom = dom
  Event <- MCEvent
  Window <- MCWindow
  Threshold <- MCThreshold
  SuspiciousPorts = {4444}
  BruteForcePorts = {22}
  Private = {h1}
  AgeCap = 2
  MaxEvents = 3
  DbFails = TRUE
INVARIANTS TypeOK CountsRecent WindowIsRecent AlarmKept
