------------------------------- MODULE Calendar -------------------------------
(****************************************************************************)
(* The dates of recurring workflows: the work week, the holidays and the      *)
(* arithmetic of Workflow.calc_next_adjusted_date.  A date is the number of   *)
(* a day, day 1 being the 1st of January of FirstYear.                        *)
(****************************************************************************)
EXTENDS Integers

CONSTANTS
  FirstYear,      \* the year that days are counted from
  FirstWeekday,   \* isoweekday of day 1, 1 for Monday to 7 for Sunday
  Holidays,       \* the days of GoogleHolidays
  RepeatEvery     \* Workflow.repeat_every

ASSUME CalendarAssumption ==
  /\ FirstYear \in Nat
  /\ FirstWeekday \in 1..7
  /\ Holidays \subseteq Nat
  /\ RepeatEvery \in Nat \ {0}

Units == {"day", "week", "month"}
WorkWeekLen == 5

\* date.isoweekday
Weekday(d) == ((d + FirstWeekday - 2) % 7) + 1

IsWorkDay(d) == Weekday(d) <= WorkWeekLen /\ d \notin Holidays

\* Workflow.first_work_day: the last work day up to and including d.
FirstWorkDay[d \in Nat] ==
  IF d = 0 \/ IsWorkDay(d) THEN d ELSE FirstWorkDay[d - 1]

----------------------------------------------------------------------------
(* Months, counted from 0 for the January of FirstYear *)

LeapYear(y) == y % 4 = 0 /\ (y % 100 # 0 \/ y % 400 = 0)

MonthLength(m) ==
  CASE m % 12 = 1 -> IF LeapYear(FirstYear + (m \div 12)) THEN 29 ELSE 28
    [] m % 12 \in {3, 5, 8, 10} -> 30
    [] OTHER -> 31

\* The first day of a month.
MonthStart[m \in Nat] == IF m = 0 THEN 1 ELSE MonthStart[m - 1] + MonthLength(m - 1)

MonthOf(d) == CHOOSE m \in 0 .. (d \div 28) : MonthStart[m] <= d /\ d < MonthStart[m + 1]

LastOfMonth(m) == MonthStart[m + 1] - 1

\* date + relativedelta(months=n): the same day, or the last of a shorter month.
AddMonths(d, n) ==
  LET m == MonthOf(d) + n
      same == MonthStart[m] + (d - MonthStart[MonthOf(d)])
  IN IF same <= LastOfMonth(m) THEN same ELSE LastOfMonth(m)

----------------------------------------------------------------------------
(* Workflow.calc_next_adjusted_date for a recurring workflow *)

\* Mutant: the weekend is not jumped over.
DailyDateThroughWeekend(setup, repeater) == 
  setup + 7 * (repeater \div WorkWeekLen) + (repeater % WorkWeekLen)

\* The unit is a day: whole weeks, the days left over, and a weekend if these
\* reach it.
DailyDate(setup, repeater) ==
  LET weeks == repeater \div WorkWeekLen
      days == repeater % WorkWeekLen
      weekend == IF Weekday(setup) + days > WorkWeekLen THEN 2 ELSE 0
  IN setup + 7 * weeks + days + weekend

WeeklyDate(setup, repeater) == FirstWorkDay[setup + 7 * repeater]

\* A setup date that is the last of its month stays the last of the month.
MonthlyDate(setup, repeater) ==
  LET date == AddMonths(setup, repeater)
  IN FirstWorkDay[IF setup = LastOfMonth(MonthOf(setup)) THEN LastOfMonth(MonthOf(date))
                  ELSE date]

\* calc_next_adjusted_date, when repeat_multiplier is k.
AdjustedDate(unit, setup, k) ==
  CASE unit = "day"   -> DailyDate(setup, RepeatEvery * k)
    [] unit = "week"  -> WeeklyDate(setup, RepeatEvery * k)
    [] unit = "month" -> MonthlyDate(setup, RepeatEvery * k)
=============================================================================
