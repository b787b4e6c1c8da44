SPECIFICATION Spec
CONSTANTS
  Tasks = {t1}
  Agents = {a1, a2}
  NoTask = NoTask
  NoAgent = NoAgent
  NoGrant = NoGrant
  NoMessage = NoMessage
  NoReset = NoReset
  MaxRetries = 1
  ClaimBound = 2
  SessionBound = 2
  RetryBound = 2
SYMMETRY Symmetry
INVARIANTS
  TypeOK
  OldClaimsAreFenced
  ViewsAgree
PROPERTIES
  ResultsAreSafe
  ImplementsAssignment
CHECK_DEADLOCK FALSE
