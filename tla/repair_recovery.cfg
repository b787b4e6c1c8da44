SPECIFICATION FairSpec
CONSTANTS
  Requests = {p1}
  Nobody = Nobody
  Gone = Gone
  MaxGen = 2
  Limits <- Interrupted
INVARIANTS
  StatusIsHonest
PROPERTIES
  RepairsMoveOn
CHECK_DEADLOCK FALSE
