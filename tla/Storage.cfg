SPECIFICATION Spec
CONSTANTS
  Conn = {c1, c2}
  Name = {n1}
  None = None
  MaxCommits = 2
  MaxStarts = 1
SYMMETRY Symmetry
INVARIANTS TypeOK ReportHasFile
PROPERTIES OnlyRestoreTakesBack
CHECK_DEADLOCK FALSE
