SPECIFICATION FairSpec
CONSTANTS
  Host <- LineHost
  Hop <- LineHop
  Dest <- LineDest
  Iface <- LineIface
  Neighbours <- LineNeighbours
  Args <- LineArgs
  InitArp <- LineArp
  Dist <- LineDist
  Toward <- LineToward
  Broadcast = 255
  MaxAge = 2
  RecvEntries = 1
  MaxEntries = 3
  Modulus = 5
  FlakyArp = {}
  Lossy = FALSE
  Prompt = TRUE
  BroadcastFreq = 0
  PollTimeout = 1
  Late = 1
  Cap = 3
  MaxStops = 1
PROPERTIES
  Converges
  ForgetsTheDead
  RouteToNeighbourKept
CHECK_DEADLOCK FALSE
