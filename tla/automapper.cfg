SPECIFICATION Spec
CONSTANTS
  w1 = w1
  w2 = w2
  program = program
  regulation = regulation
  section = section
  objective = objective
  issue = issue
  assessment1 = assessment1
  assessment2 = assessment2
  audit1 = audit1
  audit2 = audit2
  snapshot = snapshot
  Workers = {w1, w2}
  Objects <- AllObjects
  Type <- TypeOf
  Rules <- SomeRules
  Posted <- PostedAll
  Denied <- SomeDenied
  StartPairs <- Starts
  CountLimit = 1
  MaxRequests = 2
  MaxRemovals = 1
  None = None
INVARIANTS
  TypeOK
  Closed
  AuditIsMapped
PROPERTY
  AutoIsImplied
CHECK_DEADLOCK FALSE
