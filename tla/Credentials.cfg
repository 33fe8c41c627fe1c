SPECIFICATION Spec
CONSTANTS
  None = None
  web = web
  mail = mail
  unknown = unknown
  form = form
  other = other
  h1 = h1
  h2 = h2
  Sniffer = {t1, t2}
  Reader = {r1}
  Packet <- MCPacket
  Name <- MCName
  Service = {web, mail}
  ServiceOf <- MCServiceOf
  CredentialField <- MCCredentialField
  Limit = 2
  PageLimit <- MCPageLimit
  MaxRecorded = 5
SYMMETRY Symmetry
INVARIANTS TypeOK Bounded KeepsLimit Latest NewestFirst
