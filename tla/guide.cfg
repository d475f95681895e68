CONSTANTS
  Updaters = {u1, u2}
  Improvers = {m1}
  Tasks = {t1}
  NewTasks = {x1}
  Inodes = {i1, i2, i3, i4, i5}
  MaxUpdates = 3
  MaxFaults = 1
SPECIFICATION Spec
INVARIANT ConfirmedSurvive
PROPERTY ReportedIsWritten
SYMMETRY DiskSymmetry
CHECK_DEADLOCK FALSE
