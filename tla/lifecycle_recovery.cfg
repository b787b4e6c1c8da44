SPECIFICATION FairSpec
CONSTANTS
  Tasks = {t1, t2}
  Agents = {a1}
  NoTask = NoTask
  NoAgent = NoAgent
  NoGrant = NoGrant
  NoMessage = NoMessage
  NoReset = NoReset
  MaxRetries = 1
  ClaimBound = 2
  SessionBound = 2
  RetryBound = 0
PROPERTY OfflineWorkIsRecovered
CHECK_DEADLOCK FALSE
