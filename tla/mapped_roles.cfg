SPECIFICATION Spec
CONSTANTS
  w1 = w1
  w2 = w2
  a1 = a1
  a2 = a2
  p1 = p1
  p2 = p2
  control = control
  regulation = regulation
  Workers = {w1, w2}
  Assessments = {a1, a2}
  People = {p1, p2}
  Objects <- Snapshots
  RelatedSnapshots <- Regulations
  Operations <- AllOperations
  MaxRequests = 5
INVARIANTS
  TypeOK
  RolesComplete
  RolesJustified
CHECK_DEADLOCK FALSE
