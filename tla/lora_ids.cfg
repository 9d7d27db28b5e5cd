SPECIFICATION IdSpec
CONSTANTS
  Sender = {s1, s2}
  FragMaxPayload = 2
  FragHeaderSize = 1
  RadioMaxPayload = 3
  MaxFrameSize = 5
  MaxFragments = 3
  MaxFragId = 2
  MaxReassemblyEntries = 2
  FragTimeout = 1
  CleanupPeriod = 1
  Stall = 1
  RestartSec = 2
  FrameLens = {1, 3}
  Foreign <- MCForeign
  MaxFrames = 3
CHECK_DEADLOCK FALSE
SYMMETRY MCSymmetry
PROPERTIES
  AloneIsWhole
  SingleFragmentDelivered
