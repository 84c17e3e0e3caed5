SPECIFICATION Spec
CONSTANTS
  Host <- PairHost
  Hop <- FullHop
  Dest <- FullHop
  Iface <- PairIface
  Neighbours <- PairNeighbours
  Args <- PairArgs
  InitArp <- FullArp
  Dist <- FullDist
  Toward <- FullToward
  Broadcast = 255
  MaxAge = 0
  RecvEntries = 1
  MaxEntries = 3
  Modulus = 4
  FlakyArp = {}
  Lossy = TRUE
  Prompt = TRUE
  BroadcastFreq = 0
  PollTimeout = 1
  Late = 0
  Cap = 2
  MaxStops = 1
INVARIANTS
  LocalRoutesKept
CHECK_DEADLOCK FALSE
