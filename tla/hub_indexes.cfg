SPECIFICATION Spec
CONSTANTS
  Sessions = {s1, s2, s3}
  NoSession = ns
  Handlers = {h1, h2}
  NoCall = nc
  GenerationBound = 5
  HubCrashBound = 1
  RestoreBound = 1
  Items = {i1}
  Polls = {h1, h2}
  NoPoll = np
  PageSize = 1
  StreamBound = 3
  AckBound = 1
  PlanTasks = {t1, t2}
  Readers = {h1, h2}
  NoReader = nr
  NoAggregate = na
  Tries = 2
  ChangeBound = 2
  FailureBound = 1
  Writers = {h1, h2}
  Restorers = {b1}
  Unowned = un
  Past = pa
  WriteBound = 2
  MishapBound = 2
  Jobs = {h1, h2}
  SlotCount = 2
  Cap = 2
  Transports = {"endpoints"}
  NoJob = nj
  NoRun = nn
  NoAnswer = nx
  TroubleBound = 1
INVARIANTS
  HubTypesOK
  InboxIsKept
  StatusIsCurrent
  SupervisorIsSafe
PROPERTIES
  SessionsAreOrdered
  RestoreIsSafe
SYMMETRY Symmetry
CHECK_DEADLOCK FALSE
