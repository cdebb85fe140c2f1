SPECIFICATION Spec
CONSTANTS
  Procs = {p1, p2, p3}
  Times = {1, 2}
  Blocks = 2
  MaxEdits = 2
  DiskMayFill = TRUE
  None = None
SYMMETRY ProcSymmetry
INVARIANTS StampTells
PROPERTIES ImportsWhatItOpened
