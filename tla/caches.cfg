SPECIFICATION Spec
CONSTANTS
  w1 = w1
  w2 = w2
  u1 = u1
  u2 = u2
  task = task
  cycle = cycle
  assessment = assessment
  Workers = {w1, w2}
  Users = {u1, u2}
  Objects = {task, cycle, assessment}
  Supported <- Known
  Related <- Mappings
  Writes <- AllWrites
  MaxServed = 3
  Failures = TRUE
SYMMETRY Symmetry
INVARIANTS
  TypeOK
  FreshEntries
  FreshPermissions
CHECK_DEADLOCK FALSE
