\* A failed download, started again and retried.
SPECIFICATION Spec
CONSTANTS
  Works = {w1}
  NoWork = NoWork
  Workers = {t1, t2}
  Callers = {c1}
  Archives = 1
  MaxJobs = 2
  MaxCommands = 4
  MaxCrashes = 0
  MaxFailedSaves = 0
INVARIANTS
  OneUnfinishedJobPerWork
\* The launcher rests when the user does.
CHECK_DEADLOCK FALSE
