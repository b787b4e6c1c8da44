SPECIFICATION Spec
CONSTANTS
  Plans = {p, q}
  PlanIds = {p1, p2}
  p1 = p1
  p2 = p2
  Names = {x}
  Submits = {t1, t2}
  ContentBound = 2
  RunBound = 1
  NoPlan = np
  NoSubmit = ns
  old = old
  late = late
  Tasks = {old, late}
  PlanOf <- MCPlanOf
  DependsOn <- MCDependsOn
  PlanDeciders = {d1}
  TaskDeciders = {d2}
  RoundBound = 1
  PreviewBound = 1
  LapseBound = 1
  NoOne = no
  NoDecision = nd
  NoReview = nr
  WakeTasks = {t1, t2}
  Bound = {a1, a2}
  Background = {a2}
  Clash = {{t1, t2}}
  ReservationBound = 2
  NoAgent = na
  NoReservation = ne
  NoCall = nc
INVARIANTS
  PlansTypesOK
PROPERTIES
  PlansAreSafe
  WakeIsSafe
CONSTRAINT InTime
SYMMETRY Symmetry
CHECK_DEADLOCK FALSE
