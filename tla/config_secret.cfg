SPECIFICATION Spec
CONSTANTS
  Worker = {w1}
  Default = d
  AutoAp = ap
  Setting = {d, ap}
  Secret = {1, 2}
PROPERTIES
  PatchKeepsSecret
