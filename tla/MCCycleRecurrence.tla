-------------------------- MODULE MCCycleRecurrence --------------------------
(* Instances of CycleRecurrence for TLC: from Friday 24 February 2017. *)
EXTENDS CycleRecurrence, TLC

\* Days of 2017 in GoogleHolidays: 1, 2 and 16 January, 20 February.
GoogleHolidays2017 == {1, 2, 16, 51}

\* A daily workflow is followed into the next week, a weekly one for two weeks,
\* and a monthly one until the end of February is past.
LastDays == [u \in Units |-> CASE u = "day" -> 60 [] u = "week" -> 66 [] u = "month" -> 60]
=============================================================================
