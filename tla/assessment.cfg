SPECIFICATION Spec
CONSTANTS
  w1 = w1
  w2 = w2
  Workers = {w1, w2}
  Operations <- AllOperations
  StartRows <- NewOrInReview
  MaxAccepted = 3
INVARIANTS
  TypeOK
  DatesFollowStatus
  DoneIsComplete
  NewsIsQueued
PROPERTY
  NewsIsMailed
CHECK_DEADLOCK FALSE
