SPECIFICATION Spec
CONSTANTS
  Host <- PairHost
  Hop <- PairHop
  Dest <- PairDest
  Iface <- PairIface
  Neighbours <- PairNeighbours
  Args <- PairArgs
  InitArp <- PairArp
  Dist <- PairDist
  Toward <- PairToward
  Broadcast = 255
  MaxAge = 5
  RecvEntries = 2
  MaxEntries = 3
  Modulus = 5
  FlakyArp = {}
  Lossy = FALSE
  Prompt = TRUE
  BroadcastFreq = 2
  PollTimeout = 5
  Late = 0
  Cap = 3
  MaxStops = 0
PROPERTIES
  RouteToNeighbourKept
CHECK_DEADLOCK FALSE
