SPECIFICATION AllSpec
CONSTANTS
  dirTask = dirTask
  fileTask = fileTask
  Tasks = {dirTask, fileTask}
  Agents = {a1, a2}
  NoAgent = NoAgent
  NoAttempt = NoAttempt
  Free = Free
  Globs <- MCGlobs
  Overlaps <- MCOverlaps
  Within <- MCWithin
  Files <- MCFiles
  Priority <- FileFirst
  AttemptBound = 2
  SessionBound = 2
  Names = {v1, v2, v3}
  Facts <- MCFacts
  Letters = {"a", "/"}
  Other = "x"
  PatternLength = 2
  PathLength = 4
INVARIANTS
  OwnershipTypeOK
  PlansAreUnderstood
PROPERTIES
  FilesChangeHands
  WaitersGoOn
CHECK_DEADLOCK FALSE
