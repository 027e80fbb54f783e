\* Two connections of one address that may have one, two clients of PostgreSQL.
CONSTANTS
  a1 = a1
  a2 = a2
  here = here
  mine = mine
  yours = yours
  Conns = {a1, a2}
  Ips = {here}
  IpOf <- Shared
  MaxPerIp = 1
  StaleBeats = 3
  Sessions = {s1, s2}
  Channels = {mine, yours}
  MayHear <- Hear
  MaxSubscriptions = 1
  MaxHttp = 1
SPECIFICATION FairSpec
INVARIANTS TypeOK ClientsMatchSockets OneListener
PROPERTIES SlotsComeBack ListensAgain ShutdownCompletes
\* The process exits.
CHECK_DEADLOCK FALSE
