SPECIFICATION Spec
CONSTANTS
  w1 = w1
  w2 = w2
  Workers = {w1, w2}
  Operations <- AllOperations
  StartRows <- NewOrInReview
  MaxAccepted = 3
INVARIANT
  MappingSucceeds
CHECK_DEADLOCK FALSE
