\* Every part may stop for good: a thread that waits for a call that the
\* bounds allow no more.
CONSTANTS
  Message <- MCMessage
  Waiter = {w1, w2, w3}
  Signaller = {s1, s2}
  AutoReset = TRUE
  MaxSets = 3
  MaxTimeouts = 2
  Box <- MCBox
  Location <- MCLocation
  Directory <- MCDirectory
  Recording = {"r1", "r2", "r3"}
  Trouble = {}
  Requester = {"a1", "a2"}
  Process = "proc"
  MaxCalls = 4
  MaxLosses = 2
  Programme <- MCProgramme
  MaxOpens = 2
  MaxTables = 3
  FileSize = 2
  KeptFiles = 1
  MaxFiles = 3
  Tries = 2
  ReadSize = {2}
  MpChannel = {"c1", "c2"}
  BufferFile = {"f1", "f2"}
  MaxPlays = 6
  MaxLost = 1
  RecFileSize = 2
  MaxRecFiles = 3
  BlockSizes = {1, 3}
  ZeroAnswer = 2
  MaxReopens = 1
  Channel = {1}
  Entry = {1}
  FieldOrder <- MCFieldOrder
  TagId = {1, 3}
  MaxChanges = 2
  MaxOutages = 1
  Caller = {"a1", "a2"}
  DvbChannel = {1, 2}
  MaxCommands = 3
  MaxSwitches = 3
  MaxListChanges = 3
  MaxSchedules = 1
  MaxStreams = 2
  MaxEventLosses = 1
  VnsiChannel = {"c1", "c2"}
  StreamLists <- MCStreamLists
  MaxEntries = 2
  MaxOpenings = 2
  MaxSent = 3
  ArgusChannel = {"c1", "c2"}
  MaxTunes = 4
  MaxRecordings = 1
SPECIFICATION StructuresSpec
INVARIANT PositionsStored
CHECK_DEADLOCK FALSE
