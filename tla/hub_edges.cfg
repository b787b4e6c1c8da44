SPECIFICATION Spec
CONSTANTS
  PromptReports = TRUE
  MaxGen = 3
  Fixes = {1}
  Reverifiers = {a1, a2}
  Requests = {q1, q2}
  MaxReverifies = 2
  DecisionBound = 1
  SweepBound = 1
  CrashBound = 1
  Nobody = no
  NoRequest = nr
  t1 = t1
  t2 = t2
  t3 = t3
  f1 = f1
  Slots = {s1, s2}
  Jobs = {t1, t2, t3}
  Files = {f1}
  Owns <- MCOwns
  Rank <- MCRank
  TokenBound = 2
  TroubleBound = 1
  NoSlot = ns
  NoJob = nj
  People = {p1}
  Sessions = {s1, s2}
  Codes = {c1}
  Callers = {q1, q2}
  Machines = {"attempt"}
  KeyBound = 3
  GenBound = 2
  ChangeBound = 2
  NoOne = nn
INVARIANTS
  EdgesTypesOK
PROPERTIES
  ReverifyIsSafe
  ExecutionIsSafe
  CredentialsAreSafe
CONSTRAINT
  OnCourse
SYMMETRY Symmetry
CHECK_DEADLOCK FALSE
