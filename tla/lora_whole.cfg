SPECIFICATION Spec
CONSTANTS
  Sender = {s1}
  FragMaxPayload = 2
  FragHeaderSize = 1
  RadioMaxPayload = 2
  MaxFrameSize = 5
  MaxFragments = 3
  MaxFragId = 2
  MaxReassemblyEntries = 2
  FragTimeout = 2
  CleanupPeriod = 2
  Stall = 1
  RestartSec = 2
  FrameLens = {1, 3, 5}
  Foreign <- NoForeign
  MaxFrames = 2
CHECK_DEADLOCK FALSE
PROPERTIES FramesGoOutWhole
