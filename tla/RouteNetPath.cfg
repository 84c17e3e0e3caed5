SPECIFICATION Spec
CONSTANTS
  Host <- LineHost
  Hop <- LineHop
  Dest <- LineDest
  Iface <- LineIface
  Neighbours <- LineNeighbours
  Args <- LineArgs
  InitArp <- LineArp
  Dist <- LineDist
  Toward <- LineToward
  Broadcast = 255
  MaxAge = 0
  RecvEntries = 1
  MaxEntries = 3
  Modulus = 4
  FlakyArp = {}
  Lossy = TRUE
  Prompt = FALSE
  BroadcastFreq = 0
  PollTimeout = 0
  Late = 0
  Cap = 1
  MaxStops = 1
INVARIANTS
  SplitHorizon
  FollowsThePath
CHECK_DEADLOCK FALSE
