SPECIFICATION FairSpec
CONSTANTS
  Worker = {w1, w2}
  Default = d
  AutoAp = ap
  Setting = {d, ap}
  Secret = {1, 2}
INVARIANTS
  TypeOK
  OneSecretPerProcess
  FileIsWhole
  MemoryIsOnDisk
PROPERTIES
  LockReleased
