SPECIFICATION Spec
CONSTANTS
  Own = {10}
  Neighbour = {20}
  Remote = {40}
  Broadcast = 255
  TTL = 1
  Backlog = 5
  SockCap = 2
  MaxPackages = 2
  MaxTables = 0
  MaxRouters = 2
  MaxApps = 1
INVARIANTS
  TypeOK
  QueueCovers
  AnswersInOrder
  SentOnce
  RouterServed
PROPERTIES
  RoutedUnlessStale
CHECK_DEADLOCK FALSE
