SPECIFICATION FairSpec
CONSTANTS
  TemplateTasks = {a, b}
  FirstYear = 2017
  FirstWeekday = 7
  Holidays <- GoogleHolidays2017
  RepeatEvery = 1
  StartDates = {30, 31, 58}
  FirstDay = 55
  LastDay <- LastDays
  WorkflowUnits = {"day", "week", "month"}
  Kinds = {"activate", "post", "task", "group", "delete", "recur", "end", "reopen"}
  MaxRequests = 3
  Overlap = FALSE
INVARIANTS
  TypeOK
  CyclesInOrder
  StartedWhenDue
  NextFollowsTasks
  DailyCountsWorkDays
PROPERTIES
  SessionsEnd
  DueCyclesStart
CHECK_DEADLOCK FALSE
