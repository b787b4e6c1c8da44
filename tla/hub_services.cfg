SPECIFICATION Spec
CONSTANTS
  Deliveries = {d1}
  Mergers = {h1, h2}
  NoJob = nj
  DegradeThreshold = 2
  TrunkBound = 3
  StrangerBound = 1
  Callers = {h1, h2}
  NoOp = no
  CommitBound = 2
  MishapBound = 2
  Nodes = {n1}
  AttemptBound = 2
  NodeBound = 1
  Works = {w1, w2}
  NoWork = nw
  Slots = 1
  DaemonBound = 1
  known = known
  plain = plain
  TaskNames = {known, fresh}
  Texts = {plain, crossing, bad}
  Garbled = {bad}
  Crossing = {crossing}
  Operators = {o1, o2}
  NoteBound = 2
  CommandBound = 2
  ChangeBound = 1
  NoText = NoText
  NoName = NoName
  NoCommand = NoCommand
  NoPost = NoPost
INVARIANTS
  ServicesTypesOK
  WorkspaceIsSafe
PROPERTIES
  DeliveriesAreSafe
  NodesAreSafe
  PlanFilesAreSafe
SYMMETRY Symmetry
CHECK_DEADLOCK FALSE
