SPECIFICATION Spec
CONSTANTS
  Host <- SharedHost
  Hop <- SharedHop
  Dest <- SharedDest
  Iface <- SharedIface
  Neighbours <- SharedNeighbours
  Args <- SharedArgs
  InitArp <- SharedArp
  Dist <- SharedDist
  Toward <- SharedToward
  Broadcast = 255
  MaxAge = 0
  RecvEntries = 1
  MaxEntries = 3
  Modulus = 5
  FlakyArp = {}
  Lossy = FALSE
  Prompt = FALSE
  BroadcastFreq = 0
  PollTimeout = 0
  Late = 0
  Cap = 1
  MaxStops = 0
INVARIANTS
  SplitHorizon
CHECK_DEADLOCK FALSE
