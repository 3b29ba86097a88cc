\* A cancellation that meets the start of its job.
SPECIFICATION Spec
CONSTANTS
  Works = {w1}
  NoWork = NoWork
  Workers = {t1, t2}
  Callers = {c1}
  Archives = 1
  MaxJobs = 1
  MaxCommands = 3
  MaxCrashes = 0
  MaxFailedSaves = 0
INVARIANTS
  CancelledIsNotRun
\* The launcher rests when the user does.
CHECK_DEADLOCK FALSE
