SPECIFICATION Spec
CONSTANTS
  t1 = t1
  t2 = t2
  t3 = t3
  g1 = g1
  g2 = g2
  c1 = c1
  c2 = c2
  Requests = {r1}
  Tasks = {t1, t2, t3}
  Groups = {g1, g2}
  Cycles = {c1, c2}
  GroupOf <- TwoGroups
  CycleOf <- TwoCycles
  StartDay <- StartDays
  EndDay <- EndDays
  Template = {t1, t3}
  VerificationNeeded = TRUE
  Kinds = {"put", "post", "delete", "patch", "entry", "group", "cycle", "recur", "activate", "start", "cron"}
  Targets = {"Finished", "Declined"}
  MaxServed = 4
  SharedTasks = FALSE
  Failures = FALSE
PROPERTIES
  ImplementsTree
CHECK_DEADLOCK FALSE
