SPECIFICATION Spec
CONSTANTS
  Radio = {l, r1, r2}
  Local = l
  Batman = {b}
  Absent = Absent
  MaxReports = 3
CHECK_DEADLOCK FALSE
SYMMETRY MCSymmetry
INVARIANTS
  TypeOK
  KnownRadiosListed
  DanglingOnlyByRace
