SPECIFICATION Spec
CONSTANTS
  Conn = {c1, c2}
  Name = {n1}
  None = None
  MaxCommits = 2
  MaxStarts = 0
INVARIANTS ReadsAreCurrent
CHECK_DEADLOCK FALSE
