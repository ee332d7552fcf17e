------------------------------ MODULE CycleRows ------------------------------
(****************************************************************************)
(* The rows of one workflow's cycle tree and the pure functions the handlers *)
(* of ggrc_workflows compute over them: tasks inside groups inside cycles.   *)
(*                                                                          *)
(* A "tree" is a record [task, group, cycle, wf]: the rows of the four       *)
(* tables that status propagation reads and writes.                         *)
(****************************************************************************)
EXTENDS Integers

CONSTANTS
  Tasks, Groups, Cycles,   \* ids, used and not yet used
  GroupOf,                 \* CycleTaskGroupObjectTask.cycle_task_group_id
  CycleOf,                 \* CycleTaskGroup.cycle_id
  StartDay, EndDay,        \* start_date and end_date of each task
  Template,                \* the tasks build_cycle creates; the others are POSTed
  VerificationNeeded       \* Workflow.is_verification_needed, copied to its cycles

ASSUME TreeShape ==
  /\ GroupOf \in [Tasks -> Groups]
  /\ CycleOf \in [Groups -> Cycles]
  /\ StartDay \in [Tasks -> Nat \ {0}]
  /\ EndDay \in [Tasks -> Nat \ {0}]
  /\ Template \subseteq Tasks
  /\ VerificationNeeded \in BOOLEAN

NoDay == 0   \* None, for a date

TasksOf(g) == {t \in Tasks : GroupOf[t] = g}
GroupsOf(c) == {g \in Groups : CycleOf[g] = c}
TasksIn(c) == {t \in Tasks : CycleOf[GroupOf[t]] = c}

----------------------------------------------------------------------------
(* Statuses *)

\* StatusValidatedMixin.valid_statuses for groups and cycles.
ParentStatuses ==
  {"Assigned", "InProgress", "Finished", "Deprecated"}
    \cup IF VerificationNeeded THEN {"Verified"} ELSE {}

\* The same for tasks, which can also be declined.
TaskStatuses ==
  ParentStatuses \cup IF VerificationNeeded THEN {"Declined"} ELSE {}

\* "Absent" is a row that is not inserted yet, "Deleted" one that is gone.
Live(row) == row.status \notin {"Absent", "Deleted"}

DoneStatus == IF VerificationNeeded THEN "Verified" ELSE "Finished"
IsDone(row) == row.status = DoneStatus

\* Mutant: Deprecated children count.
AggregateStatusOfAll(S) ==
  CASE S = {} -> "Deprecated"
    [] S # {} /\ S \cap {"Assigned", "InProgress", "Declined"} = {} ->
         IF S = {"Verified"} THEN "Verified" ELSE "Finished"
    [] S = {"Assigned"} -> "Assigned"
    [] OTHER -> "InProgress"

\* Mutant: whether the workflow needs verification is ignored.
AggregateStatusVerified(S) ==
  LET counted == S \ {"Deprecated"} IN
  CASE counted = {} -> "Deprecated"
    [] counted # {} /\ counted \cap {"Assigned", "InProgress", "Declined"} = {} -> "Verified"
    [] counted = {"Assigned"} -> "Assigned"
    [] OTHER -> "InProgress"

\* _update_parent_status: the status of a parent whose children have the
\* statuses S.  Deprecated children do not count.
AggregateStatus(S) ==
  LET counted == S \ {"Deprecated"} IN
  CASE counted = {} -> "Deprecated"
    [] counted # {} /\ counted \cap {"Assigned", "InProgress", "Declined"} = {} ->
         IF counted = {"Verified"} THEN "Verified" ELSE "Finished"
    [] counted = {"Assigned"} -> "Assigned"
    [] OTHER -> "InProgress"

\* Mutant: the dates of a reopened task are kept.
WithStatusKeepingDates(row, s) ==
  [status   |-> s,
   finished |-> row.finished \/ s \in {"Finished", "Verified"},
   verified |-> row.verified \/ s = "Verified"]

\* handle_cycle_task_status_change: what a status change does to the dates.
\* finished and verified say whether finished_date and verified_date are set.
WithStatus(row, s) ==
  IF s = row.status THEN row
  ELSE [status   |-> s,
        finished |-> s \in {"Finished", "Verified"},
        verified |-> s = "Verified"]

\* CycleTaskGroupObjectTask.bulk_update: the statuses a bulk move may start from.
BulkSources(s) ==
  CASE s = "Deprecated" -> {"Assigned", "InProgress", "Finished", "Verified", "Declined"}
    [] s = "InProgress" -> {"Assigned"}
    [] s = "Finished"   -> {"InProgress", "Declined"}
    [] s \in {"Verified", "Declined"} -> IF VerificationNeeded THEN {"Finished"} ELSE {}
    [] OTHER -> {}

\* status_order of update_cycle_task_child_state; Deprecated is not in it.
Rank == [s \in {"Assigned", "InProgress", "Declined", "Finished", "Verified"} |->
           CASE s = "Assigned"   -> 1
             [] s = "InProgress" -> 2
             [] s = "Declined"   -> 3
             [] s = "Finished"   -> 4
             [] OTHER            -> 5]

----------------------------------------------------------------------------
(* Dates *)

Earliest(S) ==
  IF \E d \in S : \A e \in S : d <= e
  THEN CHOOSE d \in S : \A e \in S : d <= e
  ELSE NoDay

Latest(S) ==
  IF \E d \in S : \A e \in S : d >= e
  THEN CHOOSE d \in S : \A e \in S : d >= e
  ELSE NoDay

----------------------------------------------------------------------------
(* What a parent row is computed to be from its children *)

\* The loop body of update_cycle_task_tree for one group.
GroupRow(task, g) ==
  LET live == {t \in TasksOf(g) : Live(task[t])} IN
  [status |-> AggregateStatus({task[t].status : t \in live}),
   start  |-> Earliest({StartDay[t] : t \in live}),
   end    |-> Latest({EndDay[t] : t \in live}),
   due    |-> Earliest({EndDay[t] : t \in {u \in live : ~IsDone(task[u])}})]

\* The loop body of update_cycle_task_group_parent_state for one cycle.
CycleRow(group, c) ==
  LET gs == GroupsOf(c) IN
  [status |-> AggregateStatus({group[g].status : g \in gs}),
   start  |-> Earliest({group[g].start : g \in gs} \ {NoDay}),
   end    |-> Latest({group[g].end : g \in gs} \ {NoDay}),
   due    |-> Earliest({group[g].due : g \in {h \in gs : ~IsDone(group[h])}} \ {NoDay})]

\* Cycle.is_done: done by status, or no task left.
CycleDone(row, task, c) ==
  IsDone(row) \/ \A t \in TasksIn(c) : ~Live(task[t])

\* Mutant: a workflow is ended but never made Active again.
WorkflowStateEndOnly(wf, anyCurrent) ==
  IF wf.status = "Draft" \/ anyCurrent THEN wf ELSE [wf EXCEPT !.status = "Inactive"]

\* update_workflow_state: a Draft workflow stays, any current cycle makes it Active.
WorkflowState(wf, anyCurrent) ==
  IF wf.status = "Draft" THEN wf
  ELSE [wf EXCEPT !.status = IF anyCurrent THEN "Active" ELSE "Inactive"]

\* The workflow after the PUT that activates it, by a session that loaded l.  If
\* the same PUT turns recurrences off, handle_workflow_put re-evaluates the
\* status and returns.
Archives(l, on) == l.wf.recurrences /\ ~on
Activated(l, on) ==
  LET wf == [status |-> "Active", recurrences |-> on] IN
  IF Archives(l, on) THEN WorkflowState(wf, \E c \in Cycles : l.cycle[c].current) ELSE wf

----------------------------------------------------------------------------
(* The unit of work of SQLAlchemy: an UPDATE sets only the columns whose     *)
(* value differs from the one the session loaded.                           *)
Flush(row, loaded, new) ==
  [k \in DOMAIN row |-> IF new[k] # loaded[k] THEN new[k] ELSE row[k]]

\* A task row saved with status s by a session that loaded `loaded`.
\* verified_date is a new timestamp, so it is written whenever it is assigned.
SaveTask(row, loaded, s) ==
  [Flush(row, loaded, WithStatus(loaded, s)) EXCEPT
     !.verified = @ \/ (s = "Verified" /\ s # loaded.status)]

----------------------------------------------------------------------------
(* update_cycle_task_tree, called with tasks of the groups gs by a session    *)
(* that loaded `l`, when the committed rows are `d`.                          *)
(*                                                                          *)
(* The SELECT ... FOR UPDATE reads return the rows of `d`, except that a row  *)
(* the session already holds is not refreshed: the tasks of `mine` keep the   *)
(* values of `l`, and so do the groups gs, their cycles and the workflow.     *)

\* Mutant: the tasks are read without FOR UPDATE, from the snapshot.
SeenTasksUnlocked(d, l, mine) == l.task

SeenTasks(d, l, mine) ==
  [t \in Tasks |-> IF t \in mine THEN l.task[t] ELSE d.task[t]]

\* Mutant: a group whose status stays is not touched.
SeenGroupsOnStatus(d, l, mine, gs) ==
  [g \in Groups |->
     LET row == GroupRow(SeenTasks(d, l, mine), g) IN
     IF g \notin gs THEN d.group[g]
     ELSE IF row.status = l.group[g].status THEN l.group[g] ELSE row]

SeenGroups(d, l, mine, gs) ==
  [g \in Groups |-> IF g \in gs THEN GroupRow(SeenTasks(d, l, mine), g) ELSE d.group[g]]

\* Mutant: only a group with a new status makes its cycle be recomputed.
SeenCyclesOnStatus(l, gs, group) ==
  [c \in Cycles |->
     IF \A g \in gs \cap GroupsOf(c) : group[g].status = l.group[g].status THEN l.cycle[c]
     ELSE LET row == CycleRow(group, c) IN
          [status |-> row.status, start |-> row.start, end |-> row.end, due |-> row.due,
           current |-> IF row.status = l.cycle[c].status THEN l.cycle[c].current
                       ELSE ~CycleDone(row, l.task, c)]]

\* Mutant: a cycle that is done ends, but one that is reopened stays ended.
SeenCyclesEndOnly(l, gs, group) ==
  [c \in Cycles |->
     IF \A g \in gs \cap GroupsOf(c) : group[g] = l.group[g] THEN l.cycle[c]
     ELSE LET row == CycleRow(group, c) IN
          [status |-> row.status, start |-> row.start, end |-> row.end, due |-> row.due,
           current |-> l.cycle[c].current /\ ~CycleDone(row, l.task, c)]]

\* The cycles after update_cycle_task_group_parent_state and, where the status
\* changes, handle_cycle_status_change: recomputed from the rows `group` when a
\* group of gs has changed, as loaded otherwise.
SeenCycles(l, gs, group) ==
  [c \in Cycles |->
     IF \A g \in gs \cap GroupsOf(c) : group[g] = l.group[g] THEN l.cycle[c]
     ELSE LET row == CycleRow(group, c) IN
          [status |-> row.status, start |-> row.start, end |-> row.end, due |-> row.due,
           current |-> IF row.status = l.cycle[c].status THEN l.cycle[c].current
                       ELSE ~CycleDone(row, l.task, c)]]

\* The workflow's status is evaluated once, after the first of the moved cycles
\* and before is_current of the others is assigned; a dictionary's order says
\* which cycle is the first.
SeenWorkflows(l, cycle) ==
  LET moved == {c \in Cycles : cycle[c].status # l.cycle[c].status}
      after(first) == \E c \in Cycles : IF c = first THEN cycle[c].current
                                                    ELSE l.cycle[c].current
  IN IF moved = {} THEN {l.wf} ELSE {WorkflowState(l.wf, after(first)) : first \in moved}

\* Mutant: saving a group saves its tasks again, as loaded.
OutcomesWithTasks(d, l, gs, group, cycle) ==
  {[task  |-> [t \in Tasks |-> IF GroupOf[t] \in gs THEN l.task[t] ELSE d.task[t]],
    group |-> [g \in Groups |-> IF g \in gs THEN Flush(d.group[g], l.group[g], group[g])
                                            ELSE d.group[g]],
    cycle |-> [c \in Cycles |-> Flush(d.cycle[c], l.cycle[c], cycle[c])],
    wf    |-> Flush(d.wf, l.wf, wf)] : wf \in SeenWorkflows(l, cycle)}

\* The rows after the flush of the groups gs, the cycles and the workflow.
Outcomes(d, l, gs, group, cycle) ==
  {[task  |-> d.task,
    group |-> [g \in Groups |-> IF g \in gs THEN Flush(d.group[g], l.group[g], group[g])
                                            ELSE d.group[g]],
    cycle |-> [c \in Cycles |-> Flush(d.cycle[c], l.cycle[c], cycle[c])],
    wf    |-> Flush(d.wf, l.wf, wf)] : wf \in SeenWorkflows(l, cycle)}

\* The possible results of update_cycle_task_tree.
Propagations(d, l, mine, gs) ==
  UNION {Outcomes(d, l, gs, group, cycle) :
           group \in {SeenGroups(d, l, mine, gs)},
           cycle \in {SeenCycles(l, gs, SeenGroups(d, l, mine, gs))}}

----------------------------------------------------------------------------
(* build_cycle: the groups and the tasks of new current cycles, all Assigned,  *)
(* a group without tasks included, and the dates from update_cycle_dates.      *)

CanBuild(c) == TasksIn(c) \cap Template # {}

\* No task group of the workflow is empty.
GroupsPopulated == \A g \in Groups : TasksOf(g) \cap Template # {}

\* The cycles of cs, built in one transaction; with cs empty, d itself.
BuildCycles(d, cs) ==
  LET task == [t \in Tasks |->
                 IF t \in Template /\ CycleOf[GroupOf[t]] \in cs
                 THEN [status |-> "Assigned", finished |-> FALSE, verified |-> FALSE]
                 ELSE d.task[t]]
      group == [g \in Groups |->
                  IF CycleOf[g] \in cs
                  THEN [GroupRow(task, g) EXCEPT !.status = "Assigned"]
                  ELSE d.group[g]]
      built(c) == LET row == CycleRow(group, c) IN
                  [status |-> "Assigned", start |-> row.start, end |-> row.end,
                   due |-> row.due, current |-> TRUE]
  IN [task |-> task, group |-> group, wf |-> d.wf,
      cycle |-> [c \in Cycles |-> IF c \in cs THEN built(c) ELSE d.cycle[c]]]

\* Cycles that are not there yet and have a task to build.
Buildable(d, cs) == \A c \in cs : d.cycle[c].status = "Absent" /\ CanBuild(c)

----------------------------------------------------------------------------
(* Row types, and the tree before the first cycle *)

TaskRowType == [status : TaskStatuses \cup {"Absent", "Deleted"},
                finished : BOOLEAN, verified : BOOLEAN]
GroupRowType == [status : ParentStatuses \cup {"Absent"}, start : Nat, end : Nat, due : Nat]
CycleRowType == [status : ParentStatuses \cup {"Absent"}, start : Nat, end : Nat, due : Nat,
                 current : BOOLEAN]
WorkflowRowType == [status : {"Draft", "Active", "Inactive"}, recurrences : BOOLEAN]

TreeType == [task  : [Tasks -> TaskRowType],  group : [Groups -> GroupRowType],
             cycle : [Cycles -> CycleRowType], wf : WorkflowRowType]

EmptyTree(recurrences) ==
  [task  |-> [t \in Tasks |-> [status |-> "Absent", finished |-> FALSE, verified |-> FALSE]],
   group |-> [g \in Groups |-> [status |-> "Absent", start |-> NoDay, end |-> NoDay, due |-> NoDay]],
   cycle |-> [c \in Cycles |-> [status |-> "Absent", start |-> NoDay, end |-> NoDay,
                                due |-> NoDay, current |-> FALSE]],
   wf    |-> [status |-> "Draft", recurrences |-> recurrences]]
=============================================================================
