SPECIFICATION Spec
CONSTANTS
  Radio = {l, r1}
  Local = l
  Batman = {b}
  Absent = Absent
  MaxReports = 2
CHECK_DEADLOCK FALSE
PROPERTIES MergePreservesRadios
