SPECIFICATION Spec
CONSTANTS
  None = None
  c1 = c1
  c2 = c2
  s1 = s1
  s2 = s2
  i1 = i1
  Caller = {c1,c2}
  Sniffer = {s1,s2}
  Interface = {i1}
  MaxPackets = 1
  MaxAlerts = 1
  SniffFails = TRUE
  DbFails = TRUE
INVARIANTS TypeOK StatusIsTrue OneMorePacket PacketsCounted AlertsNotOvercounted
PROPERTIES StopDrains
