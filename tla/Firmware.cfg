CONSTANTS
  Cpus = {"SysM3", "AppM3", "DSP"}
  Nodes <- MCNodes
  MaxLocks = 1
  MaxPosts = 1
  NoNode = NoNode
  Depth = 2
  Mail <- MCMail
  MaxMail = 3
  Workers = {"AC", "VS"}
  MaxAsks = 2
  Clients = {"t1", "t2"}
  MaxRequests = 3
  Cores = {0, 1}
  Time = 2
  BootTime = 3
  TraceCores = {"c0", "c1"}
  BufSize = 5
  Reserved = 2
  LineSize = 2
  MaxChars = 6
  ClockPeriod = 12
  Payloads <- HdmiPayloads
  Delta = 1
  Latency = 1
  HostStopsFirst = TRUE
  MaxPayloads = 4
  Modules = {"a", "b", "c"}
  Roots = {"a"}
  Graphs <- MCGraphs
  Exports <- MCExports
  Imports <- MCImports
  MaxHandle = 3
  NoName = NoName
  AddressSpace = 5
  SegmentSizes <- MCSegmentSizes
  ArrayLength = 2
  Bounds = {6, 7, 8, 9, 12, 14, 15, 16, 20, 22, 23, 24, 25, 30, 31}
  Segments = 2
  MaxEntries = 3
  DsbtModules = {1, 2, 3}
  DsbtSizes = {2, 3}
  MemoryStart = 1
  MemorySize = 6
  RequestSizes = {1, 2}
  Alignments = {1, 2}
  MaxPackets = 5
  Executables <- MCExecutables
  Tables <- MCTables
  Tags <- MCTags
  SectionPages = 2
  Supersection = 8
  MaxMemEntries = 2
  HeaderSize = 1024
  ResourceSize = 76
  MaxDebugHandle = 4
  MaxNested = 2
  MaxRecordSegments = 1
  RecordSegments = {8}
SPECIFICATION FwSpec
INVARIANTS MailIsSound PowerIsSound OffloadIsSound RequestsAreSound TimersAreSound TraceIsSound
  ToolsAreSound
PROPERTIES NobodyIsForgotten
CHECK_DEADLOCK FALSE
