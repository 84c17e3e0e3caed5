SPECIFICATION FairSpec
CONSTANTS
  Own = {10}
  Neighbour = {20}
  Remote = {40}
  Broadcast = 255
  TTL = 1
  Backlog = 5
  SockCap = 1
  MaxPackages = 2
  MaxTables = 2
  MaxRouters = 1
  MaxApps = 1
PROPERTIES
  QueuedLeaves
  ImplementsService
CHECK_DEADLOCK FALSE
