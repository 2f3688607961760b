SPECIFICATION LiveSpec
CONSTANTS
  Tasks = {t1, t2, t3}
  Workspaces = {w1}
  Calls = {"search", "codemap", "sync", "clearAll"}
  MaxRuns = 1
  Callers = {c1, c2}
  Projects = {p1}
  Slots = {s1, s2}
  None = None
  MaxProjects = 1
  QueryAttempts = 2
  MaxEdits = 0
PROPERTIES
  LockCallsAnswer
  CallsComeBack
