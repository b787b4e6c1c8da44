SPECIFICATION AllSpec
CONSTANTS
  Tasks = {t1, t2}
  NoTask = NoTask
  NoReservation = NoReservation
  NoClaim = NoClaim
  NoAnswer = NoAnswer
  Empty = Empty
  Refused = Refused
  Dropped = Dropped
  RequestBound = 2
  AttemptBound = 3
  path = path
  owner = owner
  url = url
  otherUrl = otherUrl
  main = main
  next = next
  LegacyPaths = {path, path2}
  Projects = {owner, owner2}
  Remotes = {url, otherUrl}
  Branches = {main, next}
  Operators = {c1, c2}
  Unset = Unset
  NoRow = NoRow
  NoCommand = NoCommand
  Nothing = Nothing
  TrailBound = 3
  ChangeBound = 1
SYMMETRY Symmetry
INVARIANTS
  ClaimsAndMappingTypesOK
  MappingIsSafe
PROPERTIES
  CallsAreOneClaim
CHECK_DEADLOCK FALSE
