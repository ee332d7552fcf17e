SPECIFICATION Spec
CONSTANTS
  w1 = w1
  w2 = w2
  u1 = u1
  u2 = u2
  task = task
  cycle = cycle
  assessment = assessment
  Workers = {w1, w2}
  Users = {u1, u2}
  Objects = {task, cycle, assessment}
  Supported <- Known
  Related <- Mappings
  Writes <- PeopleWrites
  MaxServed = 5
  Failures = FALSE
INVARIANT
  SafeToReturn
CHECK_DEADLOCK FALSE
