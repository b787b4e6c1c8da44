SPECIFICATION RepairSpec
CONSTANTS
  Requests = {p1, p2}
  Nobody = Nobody
  Gone = Gone
  MaxGen = 2
  Limits <- Races
INVARIANTS
  TypeOK
PROPERTIES
  RepairsAreSafe
CONSTRAINT FewReconcile
SYMMETRY RepairSymmetry
CHECK_DEADLOCK FALSE
