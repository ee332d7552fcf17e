SPECIFICATION Spec
CONSTANTS
  t1 = t1
  t2 = t2
  t3 = t3
  g1 = g1
  g2 = g2
  c1 = c1
  c2 = c2
  Requests = {r1, r2, r3}
  Tasks = {t1, t2, t3}
  Groups = {g1}
  Cycles = {c1}
  GroupOf <- OneGroup
  CycleOf <- OneCycle
  StartDay <- StartDays
  EndDay <- EndDays
  Template = {t1, t3}
  VerificationNeeded = FALSE
  Kinds = {"put", "post", "delete", "start"}
  Targets = {"Assigned", "Finished"}
  MaxServed = 5
  SharedTasks = FALSE
  Failures = TRUE
SYMMETRY RequestSymmetry
INVARIANTS
  TypeOK
  GroupsSettle
  StaleColumnsPending
  Bookkeeping
  DatesFollowStatus
  CycleShowsGroup
CHECK_DEADLOCK FALSE
