SPECIFICATION Spec
CONSTANTS
  t1 = t1
  t2 = t2
  t3 = t3
  g1 = g1
  g2 = g2
  c1 = c1
  c2 = c2
  Tasks = {t1, t2, t3}
  Groups = {g1, g2}
  Cycles = {c1}
  GroupOf <- TwoGroups
  CycleOf <- OneCycle
  StartDay <- StartDays
  EndDay <- EndDays
  Template = {t1, t3}
  VerificationNeeded = TRUE
  Kinds = {"put", "post", "delete", "patch", "recur", "activate", "start"}
INVARIANTS
  TypeOK
  GroupsFollowTasks
  CyclesFollowGroups
  CycleDoneIffTasksDone
  CurrentUnlessDone
  ActiveIffCurrent
