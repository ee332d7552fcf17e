--------------------------- MODULE CyclePropagation ---------------------------
(****************************************************************************)
(* The same requests as in CycleTree, served at once by several workers of    *)
(* the web application.  Each request is a sequence of database transactions  *)
(* under MySQL's REPEATABLE READ:                                            *)
(*                                                                          *)
(*   loaded    its first transaction has its snapshot: every plain SELECT of  *)
(*             the request sees the rows of that moment;                      *)
(*   written   it has committed the task (PUT, POST, DELETE of a task), which *)
(*             also expires what the session held;                           *)
(*   reloaded  the transaction of the after-commit handler has its snapshot;  *)
(*             then handle_cycle_object_status propagates and commits.        *)
(*                                                                          *)
(* A transaction is one step, its commit.  The rows it locks with SELECT ...  *)
(* FOR UPDATE are read in that step, so they are the committed ones; what it  *)
(* read without locks comes from its snapshot.  Waiting for a lock is waiting *)
(* for the step; being chosen as a deadlock victim is Rollback or Die.        *)
(****************************************************************************)
EXTENDS CycleRows

CONSTANTS
  Requests,      \* requests in service at the same time
  MaxServed,     \* bound: requests ever accepted
  Kinds,         \* the kinds of request the clients send, as in CycleTree
  Targets,       \* the task statuses they ask for
  SharedTasks,   \* may two requests in service be about the same task?
  Failures       \* may a worker fail between two steps?

ASSUME EnvironmentAssumption ==
  /\ MaxServed \in Nat
  /\ Targets \subseteq TaskStatuses
  /\ SharedTasks \in BOOLEAN
  /\ Failures \in BOOLEAN

VARIABLES
  db,      \* the committed rows
  pc,      \* the step each request has reached
  op,      \* what each request in service asks for
  snap,    \* the snapshot of its current transaction
  served,  \* requests accepted so far
  lost     \* groups whose propagation died and was not made up for since

vars == <<db, pc, op, snap, served, lost>>

----------------------------------------------------------------------------
(* Requests *)

TaskOps ==
  [kind : {"put", "post"} \cap Kinds, task : Tasks, status : Targets]
    \cup [kind : {"delete", "entry"} \cap Kinds, task : Tasks]

OtherOps ==
  [kind : {"patch"} \cap Kinds, tasks : SUBSET Tasks, status : Targets]
    \cup [kind : {"group"} \cap Kinds, group : Groups, status : Targets \cap ParentStatuses]
    \cup [kind : {"cycle"} \cap Kinds, cycle : Cycles, current : BOOLEAN]
    \cup [kind : {"recur"} \cap Kinds, on : BOOLEAN]
    \cup [kind : {"activate"} \cap Kinds, on : BOOLEAN, cycles : SUBSET Cycles]
    \cup [kind : {"start", "cron"} \cap Kinds, cycles : SUBSET Cycles]

Ops == TaskOps \cup OtherOps
NoOp == [kind |-> "none"]
NoSnap == EmptyTree(FALSE)

TasksOfOp(o) ==
  IF o.kind \in {"put", "post", "delete", "entry"} THEN {o.task}
  ELSE IF o.kind = "patch" THEN o.tasks ELSE {}

\* The cycles a request builds.
CyclesOfOp(o) == IF o.kind \in {"activate", "start", "cron"} THEN o.cycles ELSE {}

\* The tasks of a bulk move whose status, as loaded, lets them move.
BulkMine(l, o) == {t \in o.tasks : l.task[t].status \in BulkSources(o.status)}

\* What must exist, and not exist yet, for the request to get past its load.
Acceptable(o) ==
  CASE o.kind \in {"put", "delete", "entry"} -> Live(db.task[o.task])
    [] o.kind = "post" -> /\ o.task \notin Template
                          /\ db.task[o.task].status = "Absent"
                          /\ db.cycle[CycleOf[GroupOf[o.task]]].status # "Absent"
    [] o.kind = "patch" -> /\ \A t \in o.tasks : db.task[t].status # "Absent"
                           /\ BulkMine(db, o) # {}
    [] o.kind = "group" -> db.group[o.group].status \notin {"Absent", o.status}
    [] o.kind = "cycle" -> /\ db.cycle[o.cycle].status # "Absent"
                           /\ db.cycle[o.cycle].current # o.current
    [] o.kind = "recur" -> db.wf.recurrences # o.on
    [] o.kind = "activate" -> /\ db.wf.status = "Draft"
                              /\ Archives(db, o.on) \/ Groups # {}
                              /\ Archives(db, o.on) => o.cycles = {}
                              /\ Buildable(db, o.cycles)
    [] o.kind = "start" -> o.cycles # {} /\ Buildable(db, o.cycles)
    [] o.kind = "cron"  -> /\ o.cycles # {} /\ Buildable(db, o.cycles)
                           /\ db.wf.recurrences /\ db.wf.status # "Draft"
    [] OTHER -> FALSE

\* Two requests never insert the same row.  Unless SharedTasks, two requests in
\* service are not about the same task either.
Compatible(o, p) ==
  /\ (~SharedTasks \/ {o.kind, p.kind} = {"post"}) => TasksOfOp(o) \cap TasksOfOp(p) = {}
  /\ CyclesOfOp(o) \cap CyclesOfOp(p) = {}

\* The requests that still owe group g its propagation.
Owes(r, g) == pc[r] \in {"written", "reloaded"} /\ GroupOf[op[r].task] = g

----------------------------------------------------------------------------
(* Steps every request has *)

Init ==
  /\ \E recurrences \in BOOLEAN : db = EmptyTree(recurrences)
  /\ pc = [r \in Requests |-> "idle"]
  /\ op = [r \in Requests |-> NoOp]
  /\ snap = [r \in Requests |-> NoSnap]
  /\ served = 0
  /\ lost = {}

\* The request arrives, its first SELECT takes the snapshot and its If-Match
\* header matches what was loaded.
Begin(r) ==
  /\ pc[r] = "idle"
  /\ served < MaxServed
  /\ \E o \in Ops :
       /\ Acceptable(o)
       /\ \A q \in Requests : pc[q] # "idle" => Compatible(o, op[q])
       /\ op' = [op EXCEPT ![r] = o]
  /\ pc' = [pc EXCEPT ![r] = "loaded"]
  /\ snap' = [snap EXCEPT ![r] = db]
  /\ served' = served + 1
  /\ UNCHANGED <<db, lost>>

\* The request is over: the worker is free and its session is gone.
Finish(r) ==
  /\ pc' = [pc EXCEPT ![r] = "idle"]
  /\ op' = [op EXCEPT ![r] = NoOp]
  /\ snap' = [snap EXCEPT ![r] = NoSnap]
  /\ UNCHANGED served

Loaded(r, kind) == pc[r] = "loaded" /\ op[r].kind = kind

\* An UPDATE or INSERT that finds a row it needs gone raises StaleDataError.
RowsGone(r) == \E t \in TasksOfOp(op[r]) : db.task[t].status = "Deleted"

\* The first transaction fails: nothing of the request has happened.
Rollback(r) ==
  /\ pc[r] = "loaded"
  /\ \/ Failures
     \/ RowsGone(r) /\ op[r].kind # "delete"
     \/ op[r].kind = "group" /\ \E t \in TasksOf(op[r].group) :
          Live(snap[r].task[t]) /\ "Deprecated" \in {op[r].status, snap[r].task[t].status}
     \/ op[r].kind = "entry" /\ "Declined" \notin TaskStatuses
  /\ Finish(r)
  /\ UNCHANGED <<db, lost>>

----------------------------------------------------------------------------
(* PUT, POST and DELETE of a task: commit, reload, propagate *)

WriteTask(r, row) ==
  /\ db' = [db EXCEPT !.task[op[r].task] = row]
  /\ pc' = [pc EXCEPT ![r] = "written"]
  /\ UNCHANGED <<op, snap, served, lost>>

CommitPut(r) ==
  /\ Loaded(r, "put")
  /\ ~RowsGone(r)
  /\ WriteTask(r, SaveTask(db.task[op[r].task], snap[r].task[op[r].task], op[r].status))

CommitPost(r) ==
  /\ Loaded(r, "post")
  /\ WriteTask(r, SaveTask(db.task[op[r].task], db.task[op[r].task], op[r].status))

CommitDelete(r) ==
  /\ Loaded(r, "delete")
  /\ WriteTask(r, [status |-> "Deleted", finished |-> FALSE, verified |-> FALSE])

\* Mutant: the session is not expired by the commit.
ReloadUnexpired(r) ==
  /\ pc[r] = "written"
  /\ op[r].kind = "delete" \/ ~RowsGone(r)
  /\ pc' = [pc EXCEPT ![r] = "reloaded"]
  /\ UNCHANGED <<db, op, snap, served, lost>>

\* The first SELECT after the commit.  A PUT or POST whose task was deleted
\* meanwhile fails here.
Reload(r) ==
  /\ pc[r] = "written"
  /\ op[r].kind = "delete" \/ ~RowsGone(r)
  /\ pc' = [pc EXCEPT ![r] = "reloaded"]
  /\ snap' = [snap EXCEPT ![r] = db]
  /\ UNCHANGED <<db, op, served, lost>>

\* handle_cycle_object_status: update_cycle_task_tree([obj]) and commit.
PropagateTask(r) ==
  LET g == GroupOf[op[r].task] IN
  /\ pc[r] = "reloaded"
  /\ db' \in Propagations(db, snap[r], {op[r].task}, {g})
  /\ lost' = IF snap[r].group[g] = db.group[g] THEN lost \ {g} ELSE lost
  /\ Finish(r)

\* The worker dies, or the propagation's transaction is rolled back: the task
\* stays as committed and nobody takes the propagation over.
Die(r) ==
  /\ pc[r] \in {"written", "reloaded"}
  /\ Failures \/ (pc[r] = "written" /\ op[r].kind # "delete" /\ RowsGone(r))
  /\ lost' = lost \cup {GroupOf[op[r].task]}
  /\ Finish(r)
  /\ UNCHANGED db

----------------------------------------------------------------------------
(* Requests of one transaction *)

\* CycleTaskResource.patch: bulk_update, propagate_status and commit.
CommitPatch(r) ==
  LET mine == BulkMine(snap[r], op[r])
      moved(tree) == [tree EXCEPT !.task = [t \in Tasks |->
                        IF t \in mine THEN SaveTask(tree.task[t], snap[r].task[t], op[r].status)
                        ELSE tree.task[t]]]
  IN /\ Loaded(r, "patch")
     /\ \A t \in mine : db.task[t].status # "Deleted"
     /\ db' \in Propagations(moved(db), moved(snap[r]), mine, {GroupOf[t] : t \in mine})
     /\ Finish(r)
     /\ UNCHANGED lost

\* handle_cycle_task_entry_post with is_declining_review = '1'.
CommitEntry(r) ==
  /\ Loaded(r, "entry")
  /\ ~RowsGone(r)
  /\ "Declined" \in TaskStatuses
  /\ db' = [db EXCEPT !.task[op[r].task].status =
              IF snap[r].task[op[r].task].status = "Declined" THEN @ ELSE "Declined"]
  /\ Finish(r)
  /\ UNCHANGED lost

\* handle_cycle_task_group_put: the status goes down to the children that are
\* behind it, in their loaded state.
CommitGroup(r) ==
  LET g == op[r].group
      s == op[r].status
      kids == {t \in TasksOf(g) : Live(snap[r].task[t])}
      behind == {t \in kids : Rank[s] > Rank[snap[r].task[t].status]}
  IN /\ Loaded(r, "group")
     /\ \A t \in kids : "Deprecated" \notin {s, snap[r].task[t].status}
     /\ \A t \in behind : db.task[t].status # "Deleted"
     /\ db' = [db EXCEPT
                 !.group[g].status = s,
                 !.task = [t \in Tasks |->
                             IF t \in behind THEN SaveTask(@[t], snap[r].task[t], s) ELSE @[t]]]
     /\ Finish(r)
     /\ UNCHANGED lost

\* handle_cycle_put, when is_current changes.
CommitCycle(r) ==
  LET c == op[r].cycle
      l == snap[r]
      wf == WorkflowState(l.wf, \E o \in Cycles : IF o = c THEN op[r].current
                                                  ELSE l.cycle[o].current)
  IN /\ Loaded(r, "cycle")
     /\ db' = [db EXCEPT !.cycle[c].current = op[r].current,
                         !.wf = Flush(@, l.wf, wf)]
     /\ Finish(r)
     /\ UNCHANGED lost

\* handle_workflow_put, when recurrences changes.
CommitRecurrences(r) ==
  LET l == snap[r]
      wf == [l.wf EXCEPT !.recurrences = op[r].on]
  IN /\ Loaded(r, "recur")
     /\ db' = [db EXCEPT !.wf = Flush(@, l.wf,
                 IF op[r].on THEN wf
                 ELSE WorkflowState(wf, \E o \in Cycles : l.cycle[o].current))]
     /\ Finish(r)
     /\ UNCHANGED lost

\* handle_workflow_put from Draft to Active.
CommitActivate(r) ==
  /\ Loaded(r, "activate")
  /\ db' = [BuildCycles(db, op[r].cycles) EXCEPT
              !.wf = Flush(db.wf, snap[r].wf, Activated(snap[r], op[r].on))]
  /\ Finish(r)
  /\ UNCHANGED lost

\* Mutant: a started cycle does not activate the workflow.
CommitStartQuietly(r) ==
  /\ Loaded(r, "start")
  /\ db' = BuildCycles(db, op[r].cycles)
  /\ Finish(r)
  /\ UNCHANGED lost

\* handle_cycle_post with autogenerate.
CommitStart(r) ==
  /\ Loaded(r, "start")
  /\ db' = [BuildCycles(db, op[r].cycles) EXCEPT
              !.wf = Flush(db.wf, snap[r].wf, [snap[r].wf EXCEPT !.status = "Active"])]
  /\ Finish(r)
  /\ UNCHANGED lost

\* start_recurring_cycles.
CommitCron(r) ==
  /\ Loaded(r, "cron")
  /\ db' = BuildCycles(db, op[r].cycles)
  /\ Finish(r)
  /\ UNCHANGED lost

----------------------------------------------------------------------------

Commit(r) ==
  \/ CommitPut(r) \/ CommitPost(r) \/ CommitDelete(r) \/ CommitPatch(r)
  \/ CommitEntry(r) \/ CommitGroup(r) \/ CommitCycle(r) \/ CommitRecurrences(r)
  \/ CommitActivate(r) \/ CommitStart(r) \/ CommitCron(r)

\* A worker that serves a request goes on until the request is over.
Work(r) == Commit(r) \/ Reload(r) \/ PropagateTask(r) \/ Rollback(r) \/ Die(r)

Next == \E r \in Requests : Begin(r) \/ Work(r)

Spec == Init /\ [][Next]_vars

\* The threads of the application server are scheduled fairly; clients owe nothing.
FairSpec == Spec /\ \A r \in Requests : WF_vars(Work(r))

----------------------------------------------------------------------------
(* Properties.  Each holds for the kinds of request its comment names.        *)

\* The committed rows and the snapshots have their columns' types, and only a
\* request about one task has a propagation of its own to do.
TypeOK ==
  /\ db \in TreeType
  /\ pc \in [Requests -> {"idle", "loaded", "written", "reloaded"}]
  /\ op \in [Requests -> Ops \cup {NoOp}]
  /\ snap \in [Requests -> TreeType]
  /\ served \in 0..MaxServed
  /\ lost \subseteq Groups
  /\ \A r \in Requests : pc[r] = "idle" <=> op[r] = NoOp
  /\ \A r \in Requests : pc[r] \in {"written", "reloaded"} =>
                           op[r].kind \in {"put", "post", "delete"}

Fresh(g) == db.group[g].status # "Absent" => db.group[g] = GroupRow(db.task, g)

\* Whatever the interleaving of requests on different tasks, a group that no
\* request still owes a propagation shows its tasks' aggregate, unless a worker
\* died with the last propagation.  (Kinds without "patch", "entry", "group".)
GroupsSettle ==
  \A g \in Groups : g \in lost \/ (\E r \in Requests : Owes(r, g)) \/ Fresh(g)

\* Why it is so: for each column of a stale group there is a request that will
\* still read the group, or that has read its present value, so that a
\* different value it computes is written.
PendingRepair(g, k) ==
  \E r \in Requests : /\ Owes(r, g)
                      /\ pc[r] = "written" \/ snap[r].group[g][k] = db.group[g][k]

StaleColumnsPending ==
  \A g \in Groups : g \notin lost /\ db.group[g].status # "Absent" =>
    \A k \in {"status", "start", "end", "due"} :
      db.group[g][k] = GroupRow(db.task, g)[k] \/ PendingRepair(g, k)

\* What the invariants above rest on.  A request is alone with the tasks and the
\* new cycles it is about; a row has its parents, and the rows of a cycle to be
\* started are not there yet; what a request has read of its own tasks is what
\* is committed.  (Kinds without "entry", "group"; no two requests on one task.)
Exclusive ==
  \A r, q \in Requests : r # q /\ pc[r] # "idle" /\ pc[q] # "idle" => Compatible(op[r], op[q])

CycleExists(c) == db.cycle[c].status # "Absent"

RowsExist ==
  /\ \A g \in Groups : db.group[g].status # "Absent" <=> CycleExists(CycleOf[g])
  /\ \A t \in Tasks : db.task[t].status # "Absent" => CycleExists(CycleOf[GroupOf[t]])
  /\ \A r \in Requests : \A t \in TasksOfOp(op[r]) : CycleExists(CycleOf[GroupOf[t]])
  /\ \A r \in Requests : \A c \in CyclesOfOp(op[r]) : ~CycleExists(c)

OwnRowsLoaded ==
  \A r \in Requests : pc[r] \in {"loaded", "reloaded"} =>
    \A t \in TasksOfOp(op[r]) : snap[r].task[t] = db.task[t]

Bookkeeping == Exclusive /\ RowsExist /\ OwnRowsLoaded

Quiescent == \A r \in Requests : pc[r] = "idle"

\* A cycle of one group shows that group's status and dates at every moment: a
\* propagation that leaves a column of the group to another one leaves the same
\* column of the cycle to it.  next_due_date is not kept so, because it is made
\* of two columns of the group, which two requests may have written; nor is any
\* column of a cycle of two groups.  (Kinds without "group".)
CycleShowsGroup ==
  \A c \in Cycles, g \in Groups : GroupsOf(c) = {g} =>
    \A k \in {"status", "start", "end"} : db.cycle[c][k] = db.group[g][k]

\* When nothing is in service, every cycle shows its groups.  This holds for one
\* request at a time (CyclesFollowGroups of CycleTree), not for overlapping ones.
CyclesSettle ==
  Quiescent /\ lost = {} =>
    \A c \in Cycles : db.cycle[c].status # "Absent" =>
      \A k \in {"status", "start", "end", "due"} :
        db.cycle[c][k] = CycleRow(db.group, c)[k]

\* When nothing is in service, the workflow is Active exactly if it has a
\* current cycle.
WorkflowSettles ==
  Quiescent /\ lost = {} /\ (\E c \in Cycles : CycleExists(c)) =>
    (db.wf.status = "Active" <=> \E c \in Cycles : db.cycle[c].current)

\* When nothing is in service, a cycle of one group that is in progress is
\* current, as a test of update_cycle_task_group_parent_state expects.  Like the
\* two above, this holds for one request at a time (CurrentUnlessDone of CycleTree),
\* not for overlapping ones.  (Kinds without "cycle".)
CurrentInProgress ==
  Quiescent /\ lost = {} =>
    \A c \in Cycles, g \in Groups :
      GroupsOf(c) = {g} /\ db.cycle[c].status = "InProgress" => db.cycle[c].current

\* finished_date and verified_date are set exactly in the statuses that the
\* column descriptions of CycleTaskGroupObjectTask allow them in.
\* (Kinds without "entry"; no two requests on the same task.)
DatesFollowStatus ==
  \A t \in Tasks : Live(db.task[t]) =>
    /\ db.task[t].finished <=> db.task[t].status \in {"Finished", "Verified"}
    /\ db.task[t].verified <=> db.task[t].status = "Verified"

\* A group that is out of date is brought up to date, as long as workers go on
\* with the requests they serve, or its last propagation dies.
\* (FairSpec; kinds as GroupsSettle.)
StaleGroupRepaired == \A g \in Groups : ~Fresh(g) ~> Fresh(g) \/ g \in lost

----------------------------------------------------------------------------
(* Requests that do not overlap implement CycleTree: the propagation a request *)
(* still owes is counted as done with the commit of its task.                 *)

Settled ==
  IF \E r \in Requests : pc[r] \in {"written", "reloaded"}
  THEN LET r == CHOOSE q \in Requests : pc[q] \in {"written", "reloaded"}
       IN CHOOSE tree \in Propagations(db, db, {op[r].task}, {GroupOf[op[r].task]}) : TRUE
  ELSE db

Tree == INSTANCE CycleTree WITH db <- Settled
ImplementsTree == Tree!Spec
=============================================================================
