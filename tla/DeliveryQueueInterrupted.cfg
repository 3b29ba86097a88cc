\* A restart around the end of an installation.
SPECIFICATION Spec
CONSTANTS
  Works = {w1}
  NoWork = NoWork
  Workers = {t1, t2}
  Callers = {c1}
  Archives = 1
  MaxJobs = 1
  MaxCommands = 2
  MaxCrashes = 1
  MaxFailedSaves = 0
PROPERTIES
  InterruptedJobsContinue
\* The launcher rests when the user does.
CHECK_DEADLOCK FALSE
