\* A session-wide problem with a second job in the queue.
SPECIFICATION Spec
CONSTANTS
  Works = {w1, w2}
  NoWork = NoWork
  Workers = {t1, t2}
  Callers = {c1}
  Archives = 1
  MaxJobs = 2
  MaxCommands = 3
  MaxCrashes = 0
  MaxFailedSaves = 0
INVARIANTS
  SessionProblemStopsQueue
\* The launcher rests when the user does.
CHECK_DEADLOCK FALSE
