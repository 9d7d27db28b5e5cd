SPECIFICATION FairSpec
CONSTANTS
  Sender = {s1, s2}
  FragMaxPayload = 2
  FragHeaderSize = 1
  RadioMaxPayload = 3
  MaxFrameSize = 5
  MaxFragments = 3
  MaxFragId = 2
  MaxReassemblyEntries = 2
  FragTimeout = 2
  CleanupPeriod = 2
  Stall = 1
  RestartSec = 0
  FrameLens = {1, 5}
  Foreign <- MCForeign
  MaxFrames = 3
CHECK_DEADLOCK FALSE
INVARIANTS
  TypeOK
  UniqueIds
  BufferMatchesMask
  NeverFull
  LifetimeBound
PROPERTIES
  FirstCopyWins
  Drains
