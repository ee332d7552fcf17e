--------------------------- MODULE CycleRecurrence ---------------------------
(****************************************************************************)
(* When the cycles of one recurring workflow start: the activation of the     *)
(* workflow, the daily cron job, cycles started by hand, and what edits of    *)
(* its task groups do to the date of the next cycle.                          *)
(*                                                                          *)
(* Building cycles is a loop in one transaction, so a session that builds has *)
(* a state of its own: the rows it loaded, the workflow as changed in memory, *)
(* and the cycles it will insert when it commits.                             *)
(****************************************************************************)
EXTENDS Calendar, Sequences, FiniteSets

CONSTANTS
  TemplateTasks,   \* TaskGroupTask ids, used and not yet used
  StartDates,      \* bound: the start dates users choose
  FirstDay,        \* the day the history begins
  LastDay,         \* bound: the day it ends, for each unit
  WorkflowUnits,   \* the units workflows are created with
  Kinds,           \* the kinds of request the clients send
  MaxRequests,     \* bound: requests ever sent
  Overlap          \* may requests be served while a session builds cycles?

ASSUME RecurrenceAssumption ==
  /\ StartDates \subseteq Nat \ {0}
  /\ FirstDay \in Nat \ {0}
  /\ LastDay \in [Units -> Nat]
  /\ WorkflowUnits \subseteq Units
  /\ MaxRequests \in Nat
  /\ Overlap \in BOOLEAN

VARIABLES
  today,      \* date.today()
  wf,         \* the row of the workflow
  start,      \* start_date of each template task, NoDay if there is no such task
  current,    \* has the workflow a current cycle?
  cycles,     \* start dates of the cycles the recurrence started, in this order
  session,    \* the session of the cron job and the one of a web request
  cronDay,    \* the day the cron job ran last
  requests    \* requests sent so far

vars == <<today, wf, start, current, cycles, session, cronDay, requests>>

----------------------------------------------------------------------------
NoDay == 0   \* None, for a date
Sessions == {"cron", "web"}
NoSession == [pc |-> "idle"]

Chosen(st) == {st[t] : t \in {u \in TemplateTasks : st[u] # NoDay}}
HasTasks(st) == Chosen(st) # {}

\* Workflow.min_task_start_date, of a workflow with tasks.
MinStart(st) == CHOOSE d \in Chosen(st) : \A e \in Chosen(st) : d <= e

\* start_end_date_validator
ValidStart(d) == wf.unit = "day" => Weekday(d) <= WorkWeekLen

\* The workflow's next_cycle_start_date under the multiplier it has.
NextDate(w, st) == AdjustedDate(w.unit, MinStart(st), w.multiplier)

Busy(s) == session[s].pc # "idle"
Serving == Overlap \/ \A s \in Sessions : ~Busy(s)

Request(kind) ==
  /\ kind \in Kinds
  /\ Serving
  /\ requests < MaxRequests
  /\ requests' = requests + 1

----------------------------------------------------------------------------
Init ==
  /\ today = FirstDay
  /\ \E unit \in WorkflowUnits :
       wf = [unit |-> unit, status |-> "Draft", recurrences |-> FALSE,
             multiplier |-> 0, next |-> NoDay]
  /\ start \in [TemplateTasks -> StartDates \cup {NoDay}]
  /\ HasTasks(start)
  /\ \A d \in Chosen(start) : ValidStart(d)
  /\ current = FALSE
  /\ cycles = <<>>
  /\ session = [s \in Sessions |-> NoSession]
  /\ cronDay = today
  /\ requests = 0

NextDay ==
  /\ today < LastDay[wf.unit]
  /\ today' = today + 1
  /\ UNCHANGED <<wf, start, current, cycles, session, cronDay, requests>>

----------------------------------------------------------------------------
(* Sessions that build cycles *)

\* The workflow after one more cycle was built for the tasks st.
Advance(w, st) ==
  LET next == [w EXCEPT !.multiplier = @ + 1]
  IN [next EXCEPT !.next = NextDate(next, st)]

Building(w, dates, posted) ==
  [pc |-> "building", loaded |-> wf, start |-> start, wf |-> w, dates |-> dates,
   posted |-> posted]

\* Mutant: the date of the first cycle is left open.
WithoutFirstDate(w) == w

\* build_cycles begins by setting the date of the first cycle.
WithFirstDate(w) == IF w.next = NoDay THEN [w EXCEPT !.next = NextDate(w, start)] ELSE w

\* PUT of a workflow from Draft to Active; without a task it fails.
Activate ==
  /\ Request("activate")
  /\ ~Busy("web")
  /\ wf.status = "Draft"
  /\ HasTasks(start)
  /\ session' = [session EXCEPT !["web"] =
       Building(WithFirstDate([wf EXCEPT !.status = "Active", !.recurrences = TRUE]), <<>>, FALSE)]
  /\ UNCHANGED <<today, wf, start, current, cycles, cronDay>>

\* POST cycles with autogenerate: the cycle of the request is built first.  A
\* workflow with neither a next date nor tasks makes it fail; one with a date
\* and no tasks leaves the cycle empty and the date as it is.
PostCycle ==
  /\ Request("post")
  /\ ~Busy("web")
  /\ wf.next # NoDay \/ HasTasks(start)
  /\ LET w == WithFirstDate([wf EXCEPT !.status = "Active"])
     IN session' = [session EXCEPT !["web"] =
          Building(IF HasTasks(start) THEN Advance(w, start) ELSE w, <<>>, TRUE)]
  /\ UNCHANGED <<today, wf, start, current, cycles, cronDay>>

\* Mutant: the query asks for Active workflows.
CronForActive ==
  /\ cronDay < today
  /\ ~Busy("cron")
  /\ Serving
  /\ cronDay' = today
  /\ session' = IF wf.status = "Active" /\ wf.recurrences /\ wf.next # NoDay /\ wf.next <= today
                THEN [session EXCEPT !["cron"] = Building(wf, <<>>, FALSE)]
                ELSE session
  /\ UNCHANGED <<today, wf, start, current, cycles, requests>>

\* start_recurring_cycles, once a day: the query selects the workflow or not.
Cron ==
  /\ cronDay < today
  /\ ~Busy("cron")
  /\ Serving
  /\ cronDay' = today
  /\ session' = IF wf.recurrences /\ wf.next # NoDay /\ wf.next <= today
                THEN [session EXCEPT !["cron"] = Building(wf, <<>>, FALSE)]
                ELSE session
  /\ UNCHANGED <<today, wf, start, current, cycles, requests>>

\* Mutant: the loop goes one day too far.
BuildAhead(s) ==
  LET b == session[s] IN
  /\ Busy(s)
  /\ b.wf.next <= today + 1
  /\ HasTasks(b.start)
  /\ session' = [session EXCEPT ![s].wf = Advance(b.wf, b.start),
                                ![s].dates = Append(@, NextDate(b.wf, b.start))]
  /\ UNCHANGED <<today, wf, start, current, cycles, cronDay, requests>>

\* One turn of the loop: a cycle for a date that has come.
Build(s) ==
  LET b == session[s] IN
  /\ Busy(s)
  /\ b.wf.next <= today
  /\ HasTasks(b.start)
  /\ session' = [session EXCEPT ![s].wf = Advance(b.wf, b.start),
                                ![s].dates = Append(@, NextDate(b.wf, b.start))]
  /\ UNCHANGED <<today, wf, start, current, cycles, cronDay, requests>>

\* The end of the loop and of the transaction: the columns that changed are
\* written.  Without tasks the cron job leaves the loop, but build_cycles turns
\* on for as long as the date is not in the future.
Commit(s) ==
  LET b == session[s] IN
  /\ Busy(s)
  /\ b.wf.next > today \/ (s = "cron" /\ ~HasTasks(b.start))
  /\ wf' = [k \in DOMAIN wf |-> IF b.wf[k] # b.loaded[k] THEN b.wf[k] ELSE wf[k]]
  /\ cycles' = cycles \o b.dates
  /\ current' = (current \/ b.posted \/ b.dates # <<>>)
  /\ session' = [session EXCEPT ![s] = NoSession]
  /\ UNCHANGED <<today, start, cronDay, requests>>

----------------------------------------------------------------------------
(* Edits of the template *)

\* Mutant: an occurrence of the day itself counts as one to come.
FirstFrom(w, st, day) ==
  LET date(k) == AdjustedDate(w.unit, MinStart(st), k)
  IN CHOOSE k \in 1 .. day + 1 : date(k) >= day /\ \A j \in 1 .. k - 1 : date(j) < day

\* The loop of the recalculation: the first multiplier whose date is after day.
FirstAfter(w, st, day) ==
  LET date(k) == AdjustedDate(w.unit, MinStart(st), k)
  IN CHOOSE k \in 1 .. day + 1 : date(k) > day /\ \A j \in 1 .. k - 1 : date(j) <= day

\* Mutant: the multiplier survives a new setup date.
RecalculatedKeepingMultiplier(w, st) ==
  IF w.status # "Active" THEN w
  ELSE IF ~HasTasks(st) THEN [w EXCEPT !.multiplier = 0, !.next = NoDay]
  ELSE IF MinStart(st) > today THEN [w EXCEPT !.next = MinStart(st)]
  ELSE LET k == FirstAfter(w, st, today)
       IN [w EXCEPT !.multiplier = k, !.next = AdjustedDate(w.unit, MinStart(st), k)]

\* Mutant: a workflow that loses its last task keeps its next date.
RecalculatedWithTasks(w, st) ==
  IF w.status # "Active" \/ ~HasTasks(st) THEN w
  ELSE IF MinStart(st) > today THEN [w EXCEPT !.multiplier = 0, !.next = MinStart(st)]
  ELSE LET k == FirstAfter(w, st, today)
       IN [w EXCEPT !.multiplier = k, !.next = AdjustedDate(w.unit, MinStart(st), k)]

\* calculate_new_next_cycle_start_date: an Active workflow restarts from the
\* setup date, as it is, or goes to the first occurrence after today.
Recalculated(w, st) ==
  IF w.status # "Active" THEN w
  ELSE IF ~HasTasks(st) THEN [w EXCEPT !.multiplier = 0, !.next = NoDay]
  ELSE IF MinStart(st) > today THEN [w EXCEPT !.multiplier = 0, !.next = MinStart(st)]
  ELSE LET k == FirstAfter(w, st, today)
       IN [w EXCEPT !.multiplier = k, !.next = AdjustedDate(w.unit, MinStart(st), k)]

\* POST, PUT or DELETE of a template task.
EditTask(t, d) ==
  /\ Request("task")
  /\ wf.status = "Inactive" => "inactive" \in Kinds
  /\ start[t] # d
  /\ d # NoDay => ValidStart(d)
  /\ d = NoDay => "delete" \in Kinds
  /\ start' = [start EXCEPT ![t] = d]
  /\ wf' = Recalculated(wf, start')
  /\ UNCHANGED <<today, current, cycles, session, cronDay>>

\* PUT of a task group, or POST or DELETE of one without tasks.
EditTaskGroup ==
  /\ Request("group")
  /\ wf' = Recalculated(wf, start)
  /\ UNCHANGED <<today, start, current, cycles, session, cronDay>>

----------------------------------------------------------------------------
(* Archiving, and the end of cycles *)

\* update_workflow_state
WorkflowState(w, anyCurrent) ==
  IF w.status = "Draft" THEN w
  ELSE [w EXCEPT !.status = IF anyCurrent THEN "Active" ELSE "Inactive"]

\* PUT of a workflow with recurrences.
PutRecurrences(b) ==
  /\ Request("recur")
  /\ wf.recurrences # b
  /\ wf' = IF b THEN [wf EXCEPT !.recurrences = TRUE]
           ELSE WorkflowState([wf EXCEPT !.recurrences = FALSE], current)
  /\ UNCHANGED <<today, start, current, cycles, session, cronDay>>

\* The last current cycle is ended or done, or an old one becomes current again.
PutCurrent(b) ==
  /\ Request(IF b THEN "reopen" ELSE "end")
  /\ current # b
  /\ b => cycles # <<>>
  /\ current' = b
  /\ wf' = WorkflowState(wf, b)
  /\ UNCHANGED <<today, start, cycles, session, cronDay>>

----------------------------------------------------------------------------
Next ==
  \/ NextDay \/ Cron \/ Activate \/ PostCycle \/ EditTaskGroup
  \/ \E s \in Sessions : Build(s) \/ Commit(s)
  \/ \E t \in TemplateTasks, d \in StartDates \cup {NoDay} : EditTask(t, d)
  \/ \E b \in BOOLEAN : PutRecurrences(b) \/ PutCurrent(b)

Spec == Init /\ [][Next]_vars

\* Time passes, App Engine calls the cron endpoint every day, and a session that
\* builds goes on; clients owe nothing.
FairSpec ==
  /\ Spec
  /\ WF_vars(NextDay)
  /\ WF_vars(Cron)
  /\ \A s \in Sessions : WF_vars(Build(s)) /\ WF_vars(Commit(s))

----------------------------------------------------------------------------
(* Properties.  Each holds for the kinds of request its comment names.        *)

\* The rows and the sessions have their types.
WorkflowRow == [unit : WorkflowUnits, status : {"Draft", "Active", "Inactive"},
                recurrences : BOOLEAN, multiplier : Nat, next : Nat]

TypeOK ==
  /\ today \in Nat
  /\ wf \in WorkflowRow
  /\ start \in [TemplateTasks -> StartDates \cup {NoDay}]
  /\ current \in BOOLEAN
  /\ cycles \in Seq(Nat \ {NoDay})
  /\ cronDay \in 0..today
  /\ requests \in 0..MaxRequests
  /\ \A s \in Sessions : Busy(s) =>
       /\ session[s].wf \in WorkflowRow /\ session[s].loaded \in WorkflowRow
       /\ session[s].dates \in Seq(Nat \ {NoDay})
       /\ session[s].wf.next # NoDay

\* Of the cycles that activation and the cron job start, no date gets two, and they
\* start in the order of their dates: what is edited, archived or missed moves the
\* next cycle, but never brings one of them back.  A cycle that a user starts by
\* hand is not recorded in cycles, and its date may still be started by the cron job.
\* (No overlap with a session that builds; kinds without "inactive".)
CyclesInOrder == \A i, j \in DOMAIN cycles : i < j => cycles[i] < cycles[j]

\* No cycle is started by itself before its first task starts.
StartedWhenDue == \A i \in DOMAIN cycles : cycles[i] <= today

\* The next cycle of an Active workflow is an occurrence of the tasks it has
\* now, whatever they were when the date was computed.
\* (No overlap; kinds without "reopen".)
NextFollowsTasks ==
  (\A s \in Sessions : ~Busy(s)) /\ wf.status = "Active" =>
    IF HasTasks(start)
    THEN wf.next = NextDate(wf, start) \/ (wf.multiplier = 0 /\ wf.next = MinStart(start))
    ELSE wf.next = NoDay

\* A daily workflow counts work days: its next cycle starts on one, and as many of
\* them lie between the setup date and the next cycle as the repetitions ask for.
DailyCountsWorkDays ==
  (\A s \in Sessions : ~Busy(s)) /\ wf.unit = "day" /\ wf.status = "Active" /\ HasTasks(start) =>
    /\ Weekday(wf.next) <= WorkWeekLen
    /\ Cardinality({d \in MinStart(start) .. wf.next - 1 : Weekday(d) <= WorkWeekLen})
         = RepeatEvery * wf.multiplier

\* Whoever starts cycles gets to the end of the loop.
SessionsEnd == \A s \in Sessions : Busy(s) ~> ~Busy(s)

\* A cycle whose date has come by the time the cron job runs is started, or its
\* date is moved.
Due == wf.recurrences /\ HasTasks(start) /\ wf.next # NoDay /\ wf.next <= today
DueCyclesStart == Due /\ cronDay < today ~> ~Due
=============================================================================
