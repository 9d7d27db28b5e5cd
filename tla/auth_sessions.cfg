SPECIFICATION Spec
CONSTANTS
  User = {u1, u2}
  Worker = {w1}
  BrowserLife = 2
  HandheldLife = 3
  RefreshWindow = 1
  MaxSessions = 2
SYMMETRY MCSymmetry
INVARIANTS
  TypeOK
  OneTokenPerLogin
  DeactivatedAreOut
PROPERTIES
  NeverValidAgain
  CleanupKeepsValid
