SPECIFICATION FairSpec
CONSTANTS
  A = A
  B = B
  ab = ab
  ba = ba
  Host <- PairHost
  NIC <- PairNIC
  Args <- PairArgs
  Address <- PairAddress
  Word = 4
  MaxWords = 374
  Struct = 26
  RecvMax = 188
  Prefix = 3
  MinMessage = 16
  MaxData = 1496
  MaxMessage = 1500
  IfaceBuffer = 10
  App = {A}
  Server = {B}
  Pong = 4
  Message <- PairMessage
  Freq = 2
  Timeout = 1
  Late = 1
  MaxEvents = 5
  MaxStarts = 3
  MaxChances = 1
INVARIANTS
  TypeOK
  OneEntryPerAddress
  FrontArrives
PROPERTIES
  LiveNeighbourKept
  CachesConverge
