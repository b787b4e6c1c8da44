SPECIFICATION AllSpec
CONSTANTS
  base = base
  check = check
  tail = tail
  Tasks = {base, check, tail}
  DependsOn <- MCDependsOn
  Acceptance <- MCAcceptance
  NoQuestion = NoQuestion
  ClaimBound = 4
  QuestionBound = 2
  ResetBound = 1
  LossBound = 1
  e1 = e1
  c1 = c1
  i1 = i1
  Hooks = {k1}
  Events = {e1, c1, i1}
  SourceOf <- MCSource
  Manuals = {m1}
  MaxAttempts = 2
  EventBound = 2
  TimeBound = 1
  OwnerBound = 1
  CrashBound = 1
  NoEvent = ne
  Works = {w1}
  Nodes = {n1}
  TransitionBound = 2
  UpsetBound = 1
  d1 = d1
  d2 = d2
  pA = pA
  pB = pB
  k2 = k2
  s1 = s1
  s2 = s2
  Supervisors = {s1, s2}
  PmSlots = {k2}
  Plans = {pA, pB}
  Items = {d1, d2}
  PlanOf <- MCPlanOf
  SlotOf <- MCSlotOf
  Nobody = Nobody
  Dead = Dead
  NoChild = NoChild
  OpenBound = 1
  DeathBound = 1
INVARIANTS
  TypeOK
  NoWakeupIsLost
  DoorbellIsSafe
PROPERTIES
  QuestionsAreSafe
  ProjectIsServed
CHECK_DEADLOCK FALSE
