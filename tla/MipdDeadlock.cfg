SPECIFICATION Spec
CONSTANTS
  Own = {10}
  Neighbour = {20}
  Remote = {40}
  Broadcast = 255
  TTL = 1
  Backlog = 5
  SockCap = 1
  MaxPackages = 4
  MaxTables = 0
  MaxRouters = 1
  MaxApps = 0
INVARIANTS
  NoMutualBlock
CHECK_DEADLOCK FALSE
