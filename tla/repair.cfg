SPECIFICATION FairSpec
CONSTANTS
  t1 = t1
  t2 = t2
  t3 = t3
  g1 = g1
  g2 = g2
  c1 = c1
  c2 = c2
  Requests = {r1, r2}
  Tasks = {t1, t2}
  Groups = {g1}
  Cycles = {c1}
  GroupOf <- OneGroup
  CycleOf <- OneCycle
  StartDay <- StartDays
  EndDay <- EndDays
  Template = {t1, t2}
  VerificationNeeded = FALSE
  Kinds = {"put", "delete", "start"}
  Targets = {"Assigned", "Finished"}
  MaxServed = 4
  SharedTasks = FALSE
  Failures = TRUE
PROPERTIES
  StaleGroupRepaired
CHECK_DEADLOCK FALSE
