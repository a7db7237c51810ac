CONSTANTS
  w1 = w1
  w2 = w2
  Workers = {w1, w2}
  Configs <- MCConfigs
  MaxJobId = 2
  Names = {n1, n2}
  TableEnds <- Ends
  MaxKey = 2
  NoName = NoName
  Garbage = Garbage
  NoService = NoService
  Channels = {"A"}
  NumDefs = 2
  MaxTuples = 2
  Endpoints = {1, 2}
  MaxServers = 2
  Packets = {p1, p2}
  ReusesFailed = FALSE
  NoPacket = NoPacket
SPECIFICATION MCSpec
INVARIANTS InSequence AnsweredOnce JobsAreKept SymbolsAreSafe ServicesAreKnown
  CommandsAreSound InstancesAreSound
PROPERTIES EveryoneIsServed
CHECK_DEADLOCK FALSE
