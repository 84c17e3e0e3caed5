SPECIFICATION FairSpec
CONSTANTS
  App = {a1, a2}
  Request <- MCRequest
  Batch = 2
  Window = 2
  Width = 6
  SizeField = 1
  PortWidth = 3
  Args <- MCArgs
  ClientStruct = 16
  Piece = 20
  MaxEvents = 5
  SockCap = 1
  MaxWrites = 2
  MaxNews = 2
  MaxEnds = 1
INVARIANTS
  TypeOK
  ConnectionPerSocket
  ListSound
  UnfinishedJobSends
PROPERTIES
  WindowsMoveForward
  OffersAgain
  RequestsAreRead
CHECK_DEADLOCK FALSE
