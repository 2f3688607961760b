SPECIFICATION ServiceSpec
CONSTANTS
  Callers = {c1, c2}
  Projects = {p1}
  AllProjects = {p1, p2, p3}
  Slots = {s1, s2, s3}
  None = None
  MaxProjects = 1
  QueryAttempts = 2
  MaxEdits = 2
SYMMETRY Symmetry
INVARIANTS
  SweepAlone
  AnswersCurrent
  LastAttemptUndisturbed
  RegistryHolds
