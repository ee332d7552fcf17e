------------------------------ MODULE CycleTree ------------------------------
(****************************************************************************)
(* What the workflow handlers promise when requests do not overlap: every     *)
(* request of the REST service is one atomic step, from the rows it finds to  *)
(* the rows its handlers, its after-commit handlers included, leave behind.   *)
(****************************************************************************)
EXTENDS CycleRows

CONSTANT Kinds   \* the kinds of request the environment sends
AllKinds == {"put", "post", "delete", "patch", "entry", "group", "cycle", "recur",
             "activate", "start", "cron"}
ASSUME KindsAssumption == Kinds \subseteq AllKinds

VARIABLE db

Init == \E recurrences \in BOOLEAN : db = EmptyTree(recurrences)

Exists(c) == db.cycle[c].status # "Absent"

\* Mutant: what the session loaded before the commit is not expired.
PropagatedUnexpired(d, t) == Propagations(d, db, {t}, {GroupOf[t]})

\* A request that writes the tasks first and then propagates: put, post, delete.
Propagated(d, t) == Propagations(d, d, {t}, {GroupOf[t]})

\* PUT cycle_task_group_object_tasks/<t> with a status.
PutTask(t, s) ==
  /\ "put" \in Kinds
  /\ Live(db.task[t])
  /\ db' \in Propagated([db EXCEPT !.task[t] = SaveTask(@, @, s)], t)

\* Mutant: a task is POSTed into a group that is not there.
PostTaskAnywhere(t, s) ==
  /\ "post" \in Kinds
  /\ t \notin Template
  /\ db.task[t].status = "Absent"
  /\ db' \in Propagated([db EXCEPT !.task[t] = SaveTask(@, @, s)], t)

\* POST cycle_task_group_object_tasks, into an existing cycle.
PostTask(t, s) ==
  /\ "post" \in Kinds
  /\ t \notin Template
  /\ db.task[t].status = "Absent"
  /\ Exists(CycleOf[GroupOf[t]])
  /\ db' \in Propagated([db EXCEPT !.task[t] = SaveTask(@, @, s)], t)

\* DELETE cycle_task_group_object_tasks/<t>.
DeleteTask(t) ==
  /\ "delete" \in Kinds
  /\ Live(db.task[t])
  /\ db' \in Propagated([db EXCEPT !.task[t] =
                         [status |-> "Deleted", finished |-> FALSE, verified |-> FALSE]], t)

\* PATCH cycle_task_group_object_tasks: tasks ts to one status, some skipped.
PatchTasks(ts, s) ==
  /\ "patch" \in Kinds
  /\ LET mine == {t \in ts : db.task[t].status \in BulkSources(s)}
         moved == [db EXCEPT !.task = [t \in Tasks |-> IF t \in mine THEN SaveTask(@[t], @[t], s)
                                                       ELSE @[t]]]
     IN /\ mine # {}
        /\ db' \in Propagations(moved, moved, mine, {GroupOf[t] : t \in mine})

\* POST cycle_task_entries with is_declining_review = '1': the status alone
\* changes, no signal is sent and nothing is propagated.
PostDecliningEntry(t) ==
  /\ "entry" \in Kinds
  /\ Live(db.task[t])
  /\ "Declined" \in TaskStatuses
  /\ db' = [db EXCEPT !.task[t].status = "Declined"]

\* The children of a group after update_cycle_task_child_state.
ChildrenOfPut(d, g, s) ==
  [t \in Tasks |-> IF t \in TasksOf(g) /\ Live(d.task[t]) /\ Rank[s] > Rank[d.task[t].status]
                   THEN WithStatus(d.task[t], s) ELSE d.task[t]]

\* A status, or a child's status, that status_order does not list is an error.
PutGroupFails(d, g, s) ==
  \E t \in TasksOf(g) : Live(d.task[t]) /\ "Deprecated" \in {s, d.task[t].status}

\* PUT cycle_task_groups/<g> with a status: downward only, nothing goes up.
PutGroup(g, s) ==
  /\ "group" \in Kinds
  /\ db.group[g].status \notin {"Absent", s}
  /\ ~PutGroupFails(db, g, s)
  /\ db' = [db EXCEPT !.group[g].status = s,
                      !.task = ChildrenOfPut(db, g, s)]

\* PUT cycles/<c> with is_current, as "End cycle" does.
PutCycle(c, b) ==
  /\ "cycle" \in Kinds
  /\ Exists(c)
  /\ db.cycle[c].current # b
  /\ db' = [db EXCEPT !.cycle[c].current = b,
                      !.wf = WorkflowState(@, \E o \in Cycles : IF o = c THEN b
                                                                ELSE db.cycle[o].current)]

\* Mutant: unarchiving makes the workflow Active.
PutRecurrencesReactivating(b) ==
  /\ "recur" \in Kinds
  /\ db.wf.recurrences # b
  /\ LET wf == [db.wf EXCEPT !.recurrences = b] IN
     db' = [db EXCEPT !.wf = WorkflowState(wf, b \/ \E o \in Cycles : db.cycle[o].current)]

\* PUT workflows/<id> with recurrences, as "Archive" and "Unarchive" do.
PutRecurrences(b) ==
  /\ "recur" \in Kinds
  /\ db.wf.recurrences # b
  /\ LET wf == [db.wf EXCEPT !.recurrences = b] IN
     db' = [db EXCEPT !.wf = IF b THEN wf
                             ELSE WorkflowState(wf, \E o \in Cycles : db.cycle[o].current)]

\* PUT workflows/<id> from Draft to Active, with recurrences.  A workflow whose
\* first occurrence lies in the future becomes Active without a cycle.
ActivateWorkflow(on, cs) ==
  /\ "activate" \in Kinds
  /\ db.wf.status = "Draft"
  /\ Archives(db, on) \/ Groups # {}
  /\ Archives(db, on) => cs = {}
  /\ Buildable(db, cs)
  /\ db' = [BuildCycles(db, cs) EXCEPT !.wf = Activated(db, on)]

\* POST cycles with autogenerate: activates the workflow too, and builds the
\* cycles that are due besides the one that is asked for.
StartCycles(cs) ==
  /\ "start" \in Kinds
  /\ cs # {} /\ Buildable(db, cs)
  /\ db' = [BuildCycles(db, cs) EXCEPT !.wf.status = "Active"]

\* start_recurring_cycles, for a workflow that has been activated or started once
\* (both set next_cycle_start_date) and whose cycles cs are due.
CronStartCycles(cs) ==
  /\ "cron" \in Kinds
  /\ db.wf.recurrences
  /\ db.wf.status # "Draft"
  /\ cs # {} /\ Buildable(db, cs)
  /\ db' = BuildCycles(db, cs)

Next ==
  \/ \E t \in Tasks, s \in TaskStatuses : PutTask(t, s) \/ PostTask(t, s)
  \/ \E t \in Tasks : DeleteTask(t) \/ PostDecliningEntry(t)
  \/ \E ts \in SUBSET Tasks, s \in TaskStatuses : PatchTasks(ts, s)
  \/ \E g \in Groups, s \in ParentStatuses : PutGroup(g, s)
  \/ \E c \in Cycles, b \in BOOLEAN : PutCycle(c, b)
  \/ \E b \in BOOLEAN : PutRecurrences(b)
  \/ \E on \in BOOLEAN, cs \in SUBSET Cycles : ActivateWorkflow(on, cs)
  \/ \E cs \in SUBSET Cycles : StartCycles(cs) \/ CronStartCycles(cs)

vars == <<db>>
Spec == Init /\ [][Next]_vars

----------------------------------------------------------------------------
(* Properties.  Each holds for the kinds of request its comment names.        *)

\* Every row has its columns' types, and a cycle exists with its groups.
TypeOK ==
  /\ db \in TreeType
  /\ \A g \in Groups : db.group[g].status = "Absent" <=> ~Exists(CycleOf[g])
  /\ \A t \in Tasks : Live(db.task[t]) => Exists(CycleOf[GroupOf[t]])

\* A group shows what update_cycle_task_tree computes from its tasks: the
\* aggregate status, the date range and the next due date.
\* (Kinds without "entry" and "group".)
GroupsFollowTasks ==
  \A g \in Groups : Exists(CycleOf[g]) => db.group[g] = GroupRow(db.task, g)

\* A cycle shows what update_cycle_task_group_parent_state computes from its
\* groups, although it is recomputed only when one of them changes.
\* (Kinds without "group".)
CyclesFollowGroups ==
  \A c \in Cycles : Exists(c) =>
    LET row == CycleRow(db.group, c) IN
    /\ db.cycle[c].status = row.status
    /\ db.cycle[c].start = row.start
    /\ db.cycle[c].end = row.end
    /\ db.cycle[c].due = row.due

\* End to end: a cycle is done exactly when it has tasks that count (live, not
\* Deprecated) and all of them are done.  (Kinds without "entry" and "group".)
CycleDoneIffTasksDone ==
  \A c \in Cycles : Exists(c) =>
    LET counted == {t \in TasksIn(c) : Live(db.task[t]) /\ db.task[t].status # "Deprecated"}
    IN IsDone(db.cycle[c]) <=> counted # {} /\ \A t \in counted : IsDone(db.task[t])

\* is_current is the negation of is_done in every cycle with a task that counts.
\* In a Deprecated cycle is_current depends on the path taken: a cycle whose last
\* task is deleted is not current, unless it was Deprecated already.
\* (Kinds without "cycle", "entry" and "group".)
CurrentUnlessDone ==
  \A c \in Cycles : Exists(c) /\ db.cycle[c].status # "Deprecated" =>
    db.cycle[c].current = ~IsDone(db.cycle[c])

\* Once a workflow has cycles, it is Active exactly while one of them is current:
\* the last one that ends, by its tasks or by a client, ends the workflow, and a
\* task that is reopened or added makes it Active again.  (Before its first cycle
\* an activated workflow is Active without one.)
\* (Kinds without "cron"; one cycle, or kinds without "patch".)
ActiveIffCurrent ==
  (\E c \in Cycles : Exists(c)) =>
    (db.wf.status = "Active" <=> \E c \in Cycles : db.cycle[c].current)

\* The half of it that survives the cron job: a workflow is not left Active when
\* its last current cycle ends.  (Kinds without "patch", or one cycle.)
InactiveUnlessCurrent ==
  db.wf.status = "Active" /\ (\E c \in Cycles : Exists(c)) =>
    \E c \in Cycles : db.cycle[c].current

\* End to end, and whatever requests are sent: a cycle spans its live tasks.
\* Entries and PUTs of groups leave statuses behind, but never the date range.
RangesSpanTasks ==
  \A c \in Cycles : Exists(c) =>
    LET live == {t \in TasksIn(c) : Live(db.task[t])} IN
    /\ db.cycle[c].start = Earliest({StartDay[t] : t \in live})
    /\ db.cycle[c].end = Latest({EndDay[t] : t \in live})
=============================================================================
