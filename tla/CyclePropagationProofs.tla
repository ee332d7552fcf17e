------------------------ MODULE CyclePropagationProofs ------------------------
(****************************************************************************)
(* Proofs about CyclePropagation: rows keep their types, and, however requests *)
(* on different tasks interleave and fail, a group whose last propagation was  *)
(* not lost shows the aggregate of its tasks; a cycle of one group shows that   *)
(* group; and requests that do not overlap implement CycleTree.                *)
(****************************************************************************)
EXTENDS CyclePropagation, CycleRowsLemmas

----------------------------------------------------------------------------
(* Requests *)

\* The fields a request has, by its kind.
LEMMA OpFields ==
  ASSUME NEW o \in Ops
  PROVE  /\ o.kind \in {"put", "post", "delete", "entry"} => o.task \in Tasks
         /\ o.kind \in {"put", "post", "patch"} => o.status \in TaskStatuses
         /\ o.kind = "patch" => o.tasks \subseteq Tasks
         /\ o.kind = "group" => o.group \in Groups /\ o.status \in ParentStatuses \cap TaskStatuses
         /\ o.kind = "cycle" => o.cycle \in Cycles
         /\ o.kind \in {"activate", "start", "cron"} => o.cycles \in SUBSET Cycles
         /\ o.kind = "cycle" => o.current \in BOOLEAN
         /\ o.kind \in {"recur", "activate"} => o.on \in BOOLEAN
         /\ o.kind \in Kinds
         /\ o.kind # "none"
         /\ o # NoOp
<1>1. CASE o \in TaskOps
  BY <1>1, EnvironmentAssumption DEF TaskOps, NoOp
<1>2. CASE o \in OtherOps
  BY <1>2, EnvironmentAssumption DEF OtherOps, NoOp
<1> QED
  BY <1>1, <1>2 DEF Ops

LEMMA EmptyTreeType ==
  ASSUME NEW b \in BOOLEAN
  PROVE  EmptyTree(b) \in TreeType
BY DEF EmptyTree, TreeType, TaskRowType, GroupRowType, CycleRowType, WorkflowRowType, NoDay

----------------------------------------------------------------------------
(* Type correctness *)

\* The part of TypeOK about one step's new control state, shared by the steps
\* that end a request.
LEMMA FinishType ==
  ASSUME TypeOK, NEW r \in Requests, Finish(r)
  PROVE  /\ pc' \in [Requests -> {"idle", "loaded", "written", "reloaded"}]
         /\ op' \in [Requests -> Ops \cup {NoOp}]
         /\ snap' \in [Requests -> TreeType]
         /\ served' \in 0..MaxServed
         /\ \A q \in Requests : pc'[q] = "idle" <=> op'[q] = NoOp
         /\ \A q \in Requests : pc'[q] \in {"written", "reloaded"} =>
                                 op'[q].kind \in {"put", "post", "delete"}
BY EmptyTreeType DEF Finish, TypeOK, NoSnap

\* Replacing one task's row by a typed row keeps the tree's type.
LEMMA SetTaskType ==
  ASSUME NEW d \in TreeType, NEW t \in Tasks, NEW row \in TaskRowType
  PROVE  [d EXCEPT !.task[t] = row] \in TreeType
BY DEF TreeType

LEMMA WriteTaskType ==
  ASSUME TypeOK, NEW r \in Requests, pc[r] = "loaded",
         op[r].kind \in {"put", "post", "delete"},
         NEW row \in TaskRowType, WriteTask(r, row)
  PROVE  TypeOK'
<1>1. op[r] \in Ops
  BY OpFields DEF TypeOK
<1>2. op[r].task \in Tasks
  BY <1>1, OpFields
<1>3. db' \in TreeType
  BY <1>2, SetTaskType DEF WriteTask, TypeOK
<1> QED
  BY <1>3 DEF WriteTask, TypeOK

\* The three requests that build cycles.
CommitBuild(r) == CommitActivate(r) \/ CommitStart(r) \/ CommitCron(r)

\* They insert what BuildCycles says and differ in the workflow's row alone.
LEMMA BuildCommits ==
  ASSUME TypeOK, NEW r \in Requests, CommitBuild(r)
  PROVE  /\ pc[r] = "loaded" /\ op[r] \in Ops
         /\ op[r].kind \in {"activate", "start", "cron"}
         /\ op[r].cycles \in SUBSET Cycles
         /\ BuildCycles(db, op[r].cycles) \in TreeType
         /\ db'.task = BuildCycles(db, op[r].cycles).task
         /\ db'.group = BuildCycles(db, op[r].cycles).group
         /\ db'.cycle = BuildCycles(db, op[r].cycles).cycle
         /\ db' \in TreeType
         /\ Finish(r) /\ lost' = lost
<1>1. pc[r] = "loaded" /\ op[r].kind \in {"activate", "start", "cron"} /\ Finish(r) /\ lost' = lost
  BY DEF CommitBuild, CommitActivate, CommitStart, CommitCron, Loaded
<1>2. op[r] \in Ops
  BY <1>1 DEF TypeOK
<1>3. op[r].cycles \in SUBSET Cycles
  BY <1>1, <1>2, OpFields
<1> DEFINE x == BuildCycles(db, op[r].cycles)
<1>4. x \in TreeType
  BY <1>3, BuildCyclesType DEF TypeOK
<1>5. ASSUME NEW wf \in WorkflowRowType, db' = [x EXCEPT !.wf = Flush(db.wf, snap[r].wf, wf)]
      PROVE  db' \in TreeType /\ db'.task = x.task /\ db'.group = x.group /\ db'.cycle = x.cycle
  <2>1. Flush(db.wf, snap[r].wf, wf) \in WorkflowRowType
    BY FlushType, TreeFields DEF TypeOK
  <2> HIDE DEF x
  <2> QED
    BY <1>4, <1>5, <2>1 DEF TreeType
<1>6. CASE CommitActivate(r)
  <2>1. op[r].on \in BOOLEAN
    BY <1>2, <1>6, OpFields DEF CommitActivate, Loaded
  <2>2. Activated(snap[r], op[r].on) \in WorkflowRowType
    BY <2>1, ActivatedType DEF TypeOK
  <2>3. db' = [x EXCEPT !.wf = Flush(db.wf, snap[r].wf, Activated(snap[r], op[r].on))]
    BY <1>6 DEF CommitActivate
  <2> QED
    BY <1>1, <1>2, <1>3, <1>4, <1>5, <2>2, <2>3
<1>7. CASE CommitStart(r)
  <2>1. [snap[r].wf EXCEPT !.status = "Active"] \in WorkflowRowType
    BY TreeFields DEF TypeOK, WorkflowRowType
  <2>2. db' = [x EXCEPT !.wf = Flush(db.wf, snap[r].wf, [snap[r].wf EXCEPT !.status = "Active"])]
    BY <1>7 DEF CommitStart
  <2> QED
    BY <1>1, <1>2, <1>3, <1>4, <1>5, <2>1, <2>2
<1>8. CASE CommitCron(r)
  <2>1. db' = x
    BY <1>8 DEF CommitCron
  <2> QED
    BY <1>1, <1>2, <1>3, <1>4, <2>1
<1> QED
  BY <1>6, <1>7, <1>8 DEF CommitBuild

\* Every row keeps its columns' types, for every tree, any number of requests
\* and every kind of request.
THEOREM TypeCorrect == Spec => []TypeOK
<1>1. Init => TypeOK
  <2> SUFFICES ASSUME Init PROVE TypeOK
    OBVIOUS
  <2>1. db \in TreeType /\ NoSnap \in TreeType
    BY EmptyTreeType DEF Init, NoSnap
  <2> QED
    BY <2>1, EnvironmentAssumption DEF Init, TypeOK
<1>2. TypeOK /\ [Next]_vars => TypeOK'
  <2> SUFFICES ASSUME TypeOK, [Next]_vars PROVE TypeOK'
    OBVIOUS
  <2>1. CASE UNCHANGED vars
    BY <2>1 DEF vars, TypeOK
  <2>2. ASSUME NEW r \in Requests, Begin(r) PROVE TypeOK'
    <3>1. PICK o \in Ops : op' = [op EXCEPT ![r] = o]
      BY <2>2 DEF Begin
    <3>2. o # NoOp
      BY OpFields
    <3>3. served' \in 0..MaxServed
      BY <2>2, EnvironmentAssumption DEF Begin, TypeOK
    <3> QED
      BY <2>2, <3>1, <3>2, <3>3 DEF Begin, TypeOK
  <2>3. ASSUME NEW r \in Requests, Rollback(r) PROVE TypeOK'
    BY <2>3, FinishType DEF Rollback, TypeOK
  <2>4. ASSUME NEW r \in Requests, Die(r) PROVE TypeOK'
    <3>1. op[r] \in Ops /\ op[r].task \in Tasks
      BY <2>4, OpFields DEF Die, TypeOK
    <3>2. GroupOf[op[r].task] \in Groups
      BY <3>1, TreeShape
    <3> QED
      BY <2>4, <3>2, FinishType DEF Die, TypeOK
  <2>5. ASSUME NEW r \in Requests, CommitPut(r) PROVE TypeOK'
    <3>1. op[r] \in Ops
      BY <2>5 DEF CommitPut, Loaded, TypeOK
    <3>2. op[r].task \in Tasks /\ op[r].status \in TaskStatuses
      BY <2>5, <3>1, OpFields DEF CommitPut, Loaded
    <3>3. db.task[op[r].task] \in TaskRowType /\ snap[r].task[op[r].task] \in TaskRowType
      BY <3>2, TreeFields DEF TypeOK
    <3> QED
      BY <2>5, <3>2, <3>3, SaveTaskType, WriteTaskType DEF CommitPut, Loaded
  <2>6. ASSUME NEW r \in Requests, CommitPost(r) PROVE TypeOK'
    <3>1. op[r] \in Ops
      BY <2>6 DEF CommitPost, Loaded, TypeOK
    <3>2. op[r].task \in Tasks /\ op[r].status \in TaskStatuses
      BY <2>6, <3>1, OpFields DEF CommitPost, Loaded
    <3>3. db.task[op[r].task] \in TaskRowType
      BY <3>2, TreeFields DEF TypeOK
    <3> QED
      BY <2>6, <3>2, <3>3, SaveTaskType, WriteTaskType DEF CommitPost, Loaded
  <2>7. ASSUME NEW r \in Requests, CommitDelete(r) PROVE TypeOK'
    <3>1. [status |-> "Deleted", finished |-> FALSE, verified |-> FALSE] \in TaskRowType
      BY DEF TaskRowType
    <3> QED
      BY <2>7, <3>1, WriteTaskType DEF CommitDelete, Loaded
  <2>8. ASSUME NEW r \in Requests, Reload(r) PROVE TypeOK'
    BY <2>8 DEF Reload, TypeOK
  <2>9. ASSUME NEW r \in Requests, PropagateTask(r) PROVE TypeOK'
    <3>1. db' \in TreeType
      BY <2>9, PropagationType DEF PropagateTask, TypeOK
    <3> QED
      BY <2>9, <3>1, FinishType DEF PropagateTask, TypeOK
  <2>10. ASSUME NEW r \in Requests, CommitPatch(r) PROVE TypeOK'
    <3> DEFINE mine == BulkMine(snap[r], op[r])
               moved(tree) == [tree EXCEPT !.task = [t \in Tasks |->
                                 IF t \in mine THEN SaveTask(tree.task[t], snap[r].task[t], op[r].status)
                                 ELSE tree.task[t]]]
    <3>1. op[r] \in Ops /\ op[r].kind = "patch"
      BY <2>10 DEF CommitPatch, Loaded, TypeOK
    <3>2. op[r].status \in TaskStatuses
      BY <3>1, OpFields
    <3>3. ASSUME NEW tree \in TreeType PROVE moved(tree) \in TreeType
      <4>1. \A t \in Tasks : SaveTask(tree.task[t], snap[r].task[t], op[r].status) \in TaskRowType
        BY <3>2, SaveTaskType, TreeFields DEF TypeOK
      <4>2. [t \in Tasks |-> IF t \in mine THEN SaveTask(tree.task[t], snap[r].task[t], op[r].status)
                            ELSE tree.task[t]] \in [Tasks -> TaskRowType]
        BY <4>1, TreeFields
      <4> QED
        BY <4>2 DEF TreeType
    <3>4. moved(db) \in TreeType /\ moved(snap[r]) \in TreeType
      BY <3>3 DEF TypeOK
    <3>5. db' \in Propagations(moved(db), moved(snap[r]), mine, {GroupOf[t] : t \in mine})
      BY <2>10 DEF CommitPatch
    <3> HIDE DEF moved, mine
    <3>6. db' \in TreeType
      BY <3>4, <3>5, PropagationType
    <3>7. Finish(r) /\ lost' = lost
      BY <2>10 DEF CommitPatch
    <3> QED
      BY <3>6, <3>7, FinishType DEF TypeOK
  <2>11. ASSUME NEW r \in Requests, CommitEntry(r) PROVE TypeOK'
    <3>1. op[r] \in Ops /\ op[r].kind = "entry"
      BY <2>11 DEF CommitEntry, Loaded, TypeOK
    <3>2. op[r].task \in Tasks
      BY <3>1, OpFields
    <3> DEFINE t == op[r].task
               s == IF snap[r].task[t].status = "Declined" THEN db.task[t].status ELSE "Declined"
    <3>3. db.task[t] \in TaskRowType /\ s \in TaskStatuses \cup {"Absent", "Deleted"}
      BY <2>11, <3>2, TreeFields DEF CommitEntry, TypeOK, TaskRowType
    <3>4. db' = [db EXCEPT !.task[t].status = s]
      BY <2>11 DEF CommitEntry
    <3> HIDE DEF t, s
    <3>5. [db.task[t] EXCEPT !.status = s] \in TaskRowType
      BY <3>3 DEF TaskRowType
    <3>6. db' = [db EXCEPT !.task[t] = [db.task[t] EXCEPT !.status = s]]
      BY <3>4
    <3>7. db' \in TreeType
      BY <3>2, <3>5, <3>6, SetTaskType DEF TypeOK, t
    <3> QED
      BY <2>11, <3>7, FinishType DEF CommitEntry, TypeOK
  <2>12. ASSUME NEW r \in Requests, CommitGroup(r) PROVE TypeOK'
    <3> DEFINE g == op[r].group
               s == op[r].status
               behind == {t \in {u \in TasksOf(g) : Live(snap[r].task[u])} :
                            Rank[s] > Rank[snap[r].task[t].status]}
               task == [t \in Tasks |->
                          IF t \in behind THEN SaveTask(db.task[t], snap[r].task[t], s) ELSE db.task[t]]
    <3>1. op[r] \in Ops /\ op[r].kind = "group"
      BY <2>12 DEF CommitGroup, Loaded, TypeOK
    <3>2. g \in Groups /\ s \in ParentStatuses /\ s \in TaskStatuses
      BY <3>1, OpFields
    <3>3. db' = [db EXCEPT !.group[g].status = s, !.task = task]
      BY <2>12 DEF CommitGroup
    <3>4. task \in [Tasks -> TaskRowType]
      BY <3>2, SaveTaskType, TreeFields DEF TypeOK
    <3> HIDE DEF task, g, s
    <3>5. [db.group EXCEPT ![g].status = s] \in [Groups -> GroupRowType]
      BY <3>2, TreeFields DEF TypeOK, GroupRowType
    <3>6. db' \in TreeType
      BY <3>3, <3>4, <3>5 DEF TypeOK, TreeType
    <3>7. Finish(r) /\ lost' = lost
      BY <2>12 DEF CommitGroup
    <3> QED
      BY <3>6, <3>7, FinishType DEF TypeOK
  <2>13. ASSUME NEW r \in Requests, CommitCycle(r) PROVE TypeOK'
    <3> DEFINE wf == WorkflowState(snap[r].wf, \E o \in Cycles : IF o = op[r].cycle THEN op[r].current
                                                             ELSE snap[r].cycle[o].current)
    <3>1. op[r].cycle \in Cycles /\ op[r].current \in BOOLEAN
      BY <2>13, OpFields DEF CommitCycle, Loaded, TypeOK
    <3>2. wf \in WorkflowRowType
      BY WorkflowStateType, TreeFields DEF TypeOK
    <3>3. db' = [db EXCEPT !.cycle[op[r].cycle].current = op[r].current,
                           !.wf = Flush(db.wf, snap[r].wf, wf)]
      BY <2>13 DEF CommitCycle
    <3> HIDE DEF wf
    <3>4. Flush(db.wf, snap[r].wf, wf) \in WorkflowRowType
      BY <3>2, FlushType, TreeFields DEF TypeOK
    <3> DEFINE c == op[r].cycle
               b == op[r].current
    <3>4a. db.cycle \in [Cycles -> CycleRowType] /\ db.cycle[c] \in CycleRowType
      BY <3>1, TreeFields DEF TypeOK
    <3> HIDE DEF c, b
    <3>4b. [db.cycle[c] EXCEPT !.current = b] \in CycleRowType
      BY <3>1, <3>4a DEF CycleRowType, b
    <3>5. [db.cycle EXCEPT ![c].current = b] \in [Cycles -> CycleRowType]
      BY <3>4a, <3>4b
    <3> USE DEF c, b
    <3>6. db' \in TreeType
      BY <3>3, <3>4, <3>5 DEF TypeOK, TreeType
    <3> QED
      BY <2>13, <3>6, FinishType DEF CommitCycle, TypeOK
  <2>14. ASSUME NEW r \in Requests, CommitRecurrences(r) PROVE TypeOK'
    <3> DEFINE wf == [snap[r].wf EXCEPT !.recurrences = op[r].on]
               new == IF op[r].on THEN wf
                      ELSE WorkflowState(wf, \E o \in Cycles : snap[r].cycle[o].current)
    <3>1. op[r].on \in BOOLEAN
      BY <2>14, OpFields DEF CommitRecurrences, Loaded, TypeOK
    <3>2. wf \in WorkflowRowType
      BY <3>1, TreeFields DEF TypeOK, WorkflowRowType
    <3>3. new \in WorkflowRowType
      BY <3>2, WorkflowStateType
    <3>4. db' = [db EXCEPT !.wf = Flush(db.wf, snap[r].wf, new)]
      BY <2>14 DEF CommitRecurrences
    <3> HIDE DEF new
    <3>5. Flush(db.wf, snap[r].wf, new) \in WorkflowRowType
      BY <3>3, FlushType, TreeFields DEF TypeOK
    <3>6. db' \in TreeType
      BY <3>4, <3>5 DEF TypeOK, TreeType
    <3> QED
      BY <2>14, <3>6, FinishType DEF CommitRecurrences, TypeOK
  <2>15. ASSUME NEW r \in Requests, CommitBuild(r) PROVE TypeOK'
    BY <2>15, BuildCommits, FinishType DEF TypeOK
  <2> QED
    BY <2>1, <2>2, <2>3, <2>4, <2>5, <2>6, <2>7, <2>8, <2>9, <2>10, <2>11, <2>12, <2>13,
       <2>14, <2>15 DEF Next, Work, Commit, CommitBuild
<1> QED
  BY <1>1, <1>2, PTL DEF Spec

----------------------------------------------------------------------------
(* Bookkeeping *)

\* Two requests in service are never about the same task, and only requests
\* that TasksOfOp knows of write tasks.
AloneWithTasks == ~SharedTasks /\ Kinds \cap {"entry", "group"} = {}

\* A step of request r's worker leaves the other requests alone, and r goes on
\* with what it is about or is over.
LEMMA StepControl ==
  ASSUME TypeOK, NEW r \in Requests, Work(r)
  PROVE  /\ pc[r] # "idle"
         /\ \A q \in Requests : q # r => pc'[q] = pc[q] /\ op'[q] = op[q] /\ snap'[q] = snap[q]
         /\ \/ pc'[r] = "idle" /\ op'[r] = NoOp
            \/ pc'[r] # "idle" /\ op'[r] = op[r]
<1>1. CASE Finish(r) /\ pc[r] # "idle"
  BY <1>1 DEF Finish, TypeOK
<1>2. CASE Reload(r)
  BY <1>2 DEF Reload, TypeOK
<1>3. ASSUME NEW row, WriteTask(r, row), pc[r] = "loaded"
      PROVE  /\ pc[r] # "idle"
             /\ \A q \in Requests : q # r => pc'[q] = pc[q] /\ op'[q] = op[q] /\ snap'[q] = snap[q]
             /\ pc'[r] # "idle" /\ op'[r] = op[r]
  BY <1>3 DEF WriteTask, TypeOK
<1>4. (Finish(r) /\ pc[r] # "idle") \/ Reload(r) \/ CommitPut(r) \/ CommitPost(r) \/ CommitDelete(r)
  BY DEF Work, Commit, PropagateTask, Rollback, Die, CommitPatch, CommitEntry, CommitGroup,
         CommitCycle, CommitRecurrences, CommitActivate, CommitStart, CommitCron, Loaded
<1> QED
  BY <1>1, <1>2, <1>3, <1>4 DEF CommitPut, CommitPost, CommitDelete, Loaded

LEMMA ExclusiveStep ==
  ASSUME TypeOK, Exclusive, [Next]_vars
  PROVE  Exclusive'
<1>1. CASE UNCHANGED vars
  BY <1>1 DEF vars, Exclusive
<1>2. ASSUME NEW r \in Requests, Work(r) PROVE Exclusive'
  BY <1>2, StepControl DEF Exclusive
<1>3. ASSUME NEW r \in Requests, Begin(r) PROVE Exclusive'
  <2>1. PICK o \in Ops : /\ \A q \in Requests : pc[q] # "idle" => Compatible(o, op[q])
                        /\ op' = [op EXCEPT ![r] = o]
    BY <1>3 DEF Begin
  <2>2. \A q \in Requests : Compatible(o, op[q]) => Compatible(op[q], o)
    BY DEF Compatible
  <2>3. /\ op'[r] = o
        /\ \A q \in Requests : q # r => pc'[q] = pc[q] /\ op'[q] = op[q]
    BY <1>3, <2>1 DEF Begin, TypeOK
  <2> QED
    BY <2>1, <2>2, <2>3 DEF Exclusive
<1> QED
  BY <1>1, <1>2, <1>3 DEF Next

\* RowsExist survives a step that inserts no group and no cycle, and no task
\* but one a request is about.
LEMMA RowsExistKept ==
  ASSUME TypeOK, RowsExist,
         \A g \in Groups : db'.group[g].status = "Absent" <=> db.group[g].status = "Absent",
         \A c \in Cycles : db'.cycle[c].status = "Absent" <=> db.cycle[c].status = "Absent",
         \A t \in Tasks : db'.task[t].status = "Absent" \/ db.task[t].status # "Absent"
                         \/ \E r \in Requests : t \in TasksOfOp(op[r]),
         \A r \in Requests : op'[r] = op[r] \/ op'[r] = NoOp
  PROVE  RowsExist'
<1>1. \A r \in Requests : TasksOfOp(op[r]) \subseteq Tasks
  <2> TAKE r \in Requests
  <2>1. CASE op[r] = NoOp
    BY <2>1 DEF TasksOfOp, NoOp
  <2>2. CASE op[r] \in Ops
    BY <2>2, OpFields DEF TasksOfOp
  <2> QED
    BY <2>1, <2>2 DEF TypeOK
<1>2. \A t \in Tasks : CycleOf[GroupOf[t]] \in Cycles
  BY TreeShape
<1>3. \A c \in Cycles : CycleExists(c)' <=> CycleExists(c)
  BY DEF CycleExists
<1>4. \A g \in Groups : db'.group[g].status # "Absent" <=> CycleExists(CycleOf[g])'
  BY <1>3, TreeShape DEF RowsExist
<1>5. \A t \in Tasks : db'.task[t].status # "Absent" => CycleExists(CycleOf[GroupOf[t]])'
  BY <1>2, <1>3 DEF RowsExist
<1>6. ASSUME NEW r \in Requests
      PROVE  /\ \A t \in TasksOfOp(op'[r]) : CycleExists(CycleOf[GroupOf[t]])'
             /\ \A c \in CyclesOfOp(op'[r]) : ~CycleExists(c)'
  <2>1. CASE op'[r] = NoOp
    BY <2>1 DEF TasksOfOp, CyclesOfOp, NoOp
  <2>2. CASE op'[r] = op[r] /\ op[r] \in Ops
    <3>1. ASSUME NEW t \in TasksOfOp(op'[r]) PROVE CycleExists(CycleOf[GroupOf[t]])'
      <4>1. t \in TasksOfOp(op[r])
        BY <2>2
      <4>2. CycleExists(CycleOf[GroupOf[t]]) /\ CycleOf[GroupOf[t]] \in Cycles
        BY <1>1, <1>2, <4>1 DEF RowsExist
      <4> QED
        BY <1>3, <4>2
    <3>2. \A c \in CyclesOfOp(op[r]) : c \in Cycles /\ ~CycleExists(c)
      BY <2>2, OpFields DEF RowsExist, CyclesOfOp
    <3>3. \A c \in CyclesOfOp(op'[r]) : ~CycleExists(c)'
      BY <1>3, <2>2, <3>2
    <3> QED
      BY <3>1, <3>3
  <2>3. op[r] \in Ops \/ op[r] = NoOp
    BY DEF TypeOK
  <2>4. op'[r] = op[r] \/ op'[r] = NoOp
    OBVIOUS
  <2> QED
    BY <2>1, <2>2, <2>3, <2>4
<1> QED
  BY <1>4, <1>5, <1>6 DEF RowsExist

\* OwnRowsLoaded survives a step of r that writes no other request's task.
LEMMA OwnRowsKept ==
  ASSUME TypeOK, OwnRowsLoaded, NEW r \in Requests, Work(r),
         pc'[r] = "reloaded" => snap'[r] = db',
         pc'[r] # "loaded",
         \A q \in Requests : q # r /\ pc[q] # "idle" =>
           \A t \in TasksOfOp(op[q]) : db'.task[t] = db.task[t]
  PROVE  OwnRowsLoaded'
BY StepControl DEF OwnRowsLoaded

\* No other request in service is about a task that r is about.
LEMMA OthersTasks ==
  ASSUME AloneWithTasks, Exclusive, NEW r \in Requests, pc[r] # "idle",
         NEW q \in Requests, q # r, pc[q] # "idle"
  PROVE  TasksOfOp(op[q]) \cap TasksOfOp(op[r]) = {}
BY DEF AloneWithTasks, Exclusive, Compatible

LEMMA WriteStep ==
  ASSUME AloneWithTasks, TypeOK, Bookkeeping, NEW r \in Requests, Work(r),
         pc[r] = "loaded", op[r].kind \in {"put", "post", "delete"},
         NEW row \in TaskRowType, WriteTask(r, row)
  PROVE  RowsExist' /\ OwnRowsLoaded'
<1> DEFINE t == op[r].task
<1>1. op[r] \in Ops /\ t \in Tasks /\ t \in TasksOfOp(op[r])
  BY OpFields DEF TypeOK, TasksOfOp
<1>2. /\ db'.group = db.group
      /\ db'.cycle = db.cycle
      /\ \A u \in Tasks : u # t => db'.task[u] = db.task[u]
  BY <1>1, TreeFields DEF WriteTask, TypeOK, TreeType
<1>3. op' = op /\ pc'[r] = "written"
  BY DEF WriteTask, TypeOK
<1>4. RowsExist'
  BY <1>1, <1>2, <1>3, RowsExistKept DEF Bookkeeping
<1>5. ASSUME NEW q \in Requests, q # r, pc[q] # "idle", NEW u \in TasksOfOp(op[q])
      PROVE  db'.task[u] = db.task[u]
  <2>1. u # t
    BY <1>1, <1>5, OthersTasks DEF Bookkeeping
  <2>2. op[q] \in Ops
    BY <1>5 DEF TypeOK
  <2>3. u \in Tasks
    BY <1>5, <2>2, OpFields DEF TasksOfOp
  <2> QED
    BY <1>2, <2>1, <2>3
<1>6. OwnRowsLoaded'
  BY <1>3, <1>5, OwnRowsKept DEF Bookkeeping
<1> QED
  BY <1>4, <1>6

\* Steps that change no task, and no row's existence.
LEMMA TaskFreeStep ==
  ASSUME TypeOK, Bookkeeping, NEW r \in Requests, Work(r),
         db'.task = db.task,
         \A g \in Groups : db'.group[g].status = "Absent" <=> db.group[g].status = "Absent",
         \A c \in Cycles : db'.cycle[c].status = "Absent" <=> db.cycle[c].status = "Absent",
         pc'[r] = "reloaded" => snap'[r] = db',
         pc'[r] # "loaded"
  PROVE  RowsExist' /\ OwnRowsLoaded'
<1>1. \A q \in Requests : op'[q] = op[q] \/ op'[q] = NoOp
  BY StepControl
<1>2. RowsExist'
  BY <1>1, RowsExistKept DEF Bookkeeping
<1>3. OwnRowsLoaded'
  BY OwnRowsKept DEF Bookkeeping
<1> QED
  BY <1>2, <1>3

LEMMA PropagateStep ==
  ASSUME TypeOK, Bookkeeping, NEW r \in Requests, PropagateTask(r)
  PROVE  /\ db'.task = db.task
         /\ \A g \in Groups : db'.group[g].status = "Absent" <=> db.group[g].status = "Absent"
         /\ \A c \in Cycles : db'.cycle[c].status = "Absent" <=> db.cycle[c].status = "Absent"
<1> DEFINE g == GroupOf[op[r].task]
<1>1. op[r] \in Ops /\ op[r].task \in Tasks /\ op[r].task \in TasksOfOp(op[r])
  BY OpFields DEF PropagateTask, TypeOK, TasksOfOp
<1>2. g \in Groups /\ db.group[g].status # "Absent" /\ db.cycle[CycleOf[g]].status # "Absent"
  BY <1>1, TreeShape DEF Bookkeeping, RowsExist, CycleExists
<1>3. db' \in Propagations(db, snap[r], {op[r].task}, {g})
  BY DEF PropagateTask
<1>4. db \in TreeType /\ snap[r] \in TreeType
  BY DEF TypeOK
<1> HIDE DEF g
<1>5. db'.task = db.task
  BY <1>3, <1>4, PropagationTasks
<1> QED
  BY <1>2, <1>3, <1>4, <1>5, PropagationInserts

LEMMA PatchStep ==
  ASSUME AloneWithTasks, TypeOK, Bookkeeping, NEW r \in Requests, CommitPatch(r)
  PROVE  RowsExist' /\ OwnRowsLoaded'
<1> DEFINE mine == BulkMine(snap[r], op[r])
           moved(tree) == [tree EXCEPT !.task = [t \in Tasks |->
                             IF t \in mine THEN SaveTask(tree.task[t], snap[r].task[t], op[r].status)
                             ELSE tree.task[t]]]
           gs == {GroupOf[t] : t \in mine}
<1>1. op[r] \in Ops /\ op[r].kind = "patch" /\ pc[r] = "loaded"
  BY DEF CommitPatch, Loaded, TypeOK
<1>2. op[r].status \in TaskStatuses /\ TasksOfOp(op[r]) = op[r].tasks /\ op[r].tasks \subseteq Tasks
  BY <1>1, OpFields DEF TasksOfOp
<1>3. mine \subseteq TasksOfOp(op[r])
  BY <1>2 DEF BulkMine
<1>4. ASSUME NEW tree \in TreeType
      PROVE  /\ moved(tree) \in TreeType
             /\ moved(tree).group = tree.group
             /\ moved(tree).cycle = tree.cycle
             /\ \A t \in Tasks : t \notin mine => moved(tree).task[t] = tree.task[t]
  <2>1. \A t \in Tasks : SaveTask(tree.task[t], snap[r].task[t], op[r].status) \in TaskRowType
    BY <1>2, SaveTaskType, TreeFields DEF TypeOK
  <2>2. [t \in Tasks |-> IF t \in mine THEN SaveTask(tree.task[t], snap[r].task[t], op[r].status)
                        ELSE tree.task[t]] \in [Tasks -> TaskRowType]
    BY <2>1, TreeFields
  <2> QED
    BY <2>2 DEF TreeType
<1>5. \A g \in gs : g \in Groups /\ db.group[g].status # "Absent" /\ db.cycle[CycleOf[g]].status # "Absent"
  BY <1>2, <1>3, TreeShape DEF Bookkeeping, RowsExist, CycleExists
<1>6. db' \in Propagations(moved(db), moved(snap[r]), mine, gs)
  BY DEF CommitPatch
<1>7. db \in TreeType /\ snap[r] \in TreeType
  BY DEF TypeOK
<1>8. /\ moved(db) \in TreeType /\ moved(snap[r]) \in TreeType
      /\ moved(db).group = db.group /\ moved(db).cycle = db.cycle
      /\ \A t \in Tasks : t \notin mine => moved(db).task[t] = db.task[t]
  BY <1>4, <1>7
<1> HIDE DEF gs, mine, moved
<1>9. db'.task = moved(db).task
  BY <1>6, <1>8, PropagationTasks
<1>10. /\ \A g \in Groups : db'.group[g].status = "Absent" <=> db.group[g].status = "Absent"
       /\ \A c \in Cycles : db'.cycle[c].status = "Absent" <=> db.cycle[c].status = "Absent"
  <2>1. \A g \in gs : /\ g \in Groups /\ moved(db).group[g].status # "Absent"
                     /\ moved(db).cycle[CycleOf[g]].status # "Absent"
    BY <1>5, <1>8
  <2>2. /\ \A g \in Groups : db'.group[g].status = "Absent" <=> moved(db).group[g].status = "Absent"
        /\ \A c \in Cycles : db'.cycle[c].status = "Absent" <=> moved(db).cycle[c].status = "Absent"
    BY <1>6, <1>8, <2>1, PropagationInserts
  <2> QED
    BY <1>8, <2>2
<1>11. Work(r) /\ pc'[r] = "idle"
  BY DEF Work, Commit, CommitPatch, Finish, TypeOK
<1>12. \A q \in Requests : op'[q] = op[q] \/ op'[q] = NoOp
  BY <1>11, StepControl
<1>13. RowsExist'
  <2>1. \A t \in Tasks : db'.task[t].status = "Absent" \/ db.task[t].status # "Absent"
                        \/ \E q \in Requests : t \in TasksOfOp(op[q])
    BY <1>3, <1>8, <1>9
  <2> QED
    BY <1>10, <1>12, <2>1, RowsExistKept DEF Bookkeeping
<1>14. ASSUME NEW q \in Requests, q # r, pc[q] # "idle", NEW u \in TasksOfOp(op[q])
       PROVE  db'.task[u] = db.task[u]
  <2>1. u \notin mine
    BY <1>1, <1>3, <1>14, OthersTasks DEF Bookkeeping
  <2>2. op[q] \in Ops
    BY <1>14 DEF TypeOK
  <2>3. u \in Tasks
    BY <1>14, <2>2, OpFields DEF TasksOfOp
  <2> QED
    BY <1>8, <1>9, <2>1, <2>3
<1>15. OwnRowsLoaded'
  BY <1>11, <1>14, OwnRowsKept DEF Bookkeeping
<1> QED
  BY <1>13, <1>15

LEMMA BuildStep ==
  ASSUME TypeOK, Bookkeeping, NEW r \in Requests, Work(r), CommitBuild(r)
  PROVE  RowsExist' /\ OwnRowsLoaded'
<1> DEFINE cs == op[r].cycles
           x == BuildCycles(db, cs)
<1>0. db \in TreeType /\ cs \in SUBSET Cycles /\ CyclesOfOp(op[r]) = cs
  BY BuildCommits DEF TypeOK, CyclesOfOp
<1>1. /\ \A c \in cs : ~CycleExists(c)
      /\ pc[r] = "loaded"
      /\ db'.task = x.task /\ db'.group = x.group /\ db'.cycle = x.cycle
  BY <1>0, BuildCommits DEF Bookkeeping, RowsExist
<1>3. /\ \A t \in Tasks : CycleOf[GroupOf[t]] \notin cs => db'.task[t] = db.task[t]
      /\ \A g \in Groups : IF CycleOf[g] \in cs THEN db'.group[g].status = "Assigned"
                                                ELSE db'.group[g] = db.group[g]
      /\ \A o \in Cycles : IF o \in cs THEN db'.cycle[o].status = "Assigned"
                                        ELSE db'.cycle[o] = db.cycle[o]
  <2>1. ASSUME NEW t \in Tasks, CycleOf[GroupOf[t]] \notin cs PROVE x.task[t] = db.task[t]
    BY <1>0, <2>1, BuildCyclesKeeps
  <2>2. ASSUME NEW g \in Groups
        PROVE  IF CycleOf[g] \in cs THEN x.group[g].status = "Assigned"
                                     ELSE x.group[g] = db.group[g]
    BY <1>0, BuildCyclesKeeps
  <2>3. ASSUME NEW o \in Cycles
        PROVE  IF o \in cs THEN x.cycle[o].status = "Assigned" ELSE x.cycle[o] = db.cycle[o]
    BY <1>0, BuildCyclesCycles
  <2> HIDE DEF x, cs
  <2> QED
    BY <1>1, <2>1, <2>2, <2>3
<1> HIDE DEF cs, x
<1>4. \A o \in Cycles : CycleExists(o)' <=> CycleExists(o) \/ o \in cs
  BY <1>3 DEF CycleExists
<1>5. /\ pc'[r] = "idle" /\ op'[r] = NoOp
      /\ \A q \in Requests : q # r => pc'[q] = pc[q] /\ op'[q] = op[q]
  BY BuildCommits DEF Finish, TypeOK
<1>6. \A q \in Requests : \A u \in TasksOfOp(op[q]) :
        u \in Tasks /\ CycleExists(CycleOf[GroupOf[u]]) /\ CycleOf[GroupOf[u]] \notin cs
  <2> TAKE q \in Requests
  <2> TAKE u \in TasksOfOp(op[q])
  <2>1. op[q] \in Ops
    BY DEF TypeOK, TasksOfOp, NoOp
  <2>2. u \in Tasks
    BY <2>1, OpFields DEF TasksOfOp
  <2> QED
    BY <1>1, <2>2 DEF Bookkeeping, RowsExist
<1>7. RowsExist'
  <2>1. \A g \in Groups : db'.group[g].status # "Absent" <=> CycleExists(CycleOf[g])'
    BY <1>3, <1>4, TreeShape DEF Bookkeeping, RowsExist
  <2>2. \A t \in Tasks : CycleOf[GroupOf[t]] \in Cycles
    BY TreeShape
  <2>3. \A t \in Tasks : db'.task[t].status # "Absent" => CycleExists(CycleOf[GroupOf[t]])'
    BY <1>3, <1>4, <2>2 DEF Bookkeeping, RowsExist
  <2>4. ASSUME NEW q \in Requests
        PROVE  /\ \A t \in TasksOfOp(op'[q]) : CycleExists(CycleOf[GroupOf[t]])'
               /\ \A c \in CyclesOfOp(op'[q]) : ~CycleExists(c)'
    <3>1. CASE q = r
      BY <1>5, <3>1 DEF TasksOfOp, CyclesOfOp, NoOp
    <3>2. CASE q # r
      <4>1. op'[q] = op[q]
        BY <1>5, <3>2
      <4>2. ASSUME NEW t \in TasksOfOp(op[q]) PROVE CycleExists(CycleOf[GroupOf[t]])'
        BY <1>4, <1>6, <2>2
      <4>3. ASSUME NEW c \in CyclesOfOp(op[q]) PROVE ~CycleExists(c)'
        <5>1. op[q] \in Ops /\ pc[q] # "idle"
          BY DEF TypeOK, CyclesOfOp, NoOp
        <5>2. c \notin cs
          BY <1>0, <1>1, <3>2, <5>1 DEF Bookkeeping, Exclusive, Compatible
        <5>3. c \in Cycles /\ ~CycleExists(c)
          BY <5>1, OpFields DEF CyclesOfOp, Bookkeeping, RowsExist
        <5> QED
          BY <1>4, <5>2, <5>3
      <4> QED
        BY <4>1, <4>2, <4>3
    <3> QED
      BY <3>1, <3>2
  <2> QED
    BY <2>1, <2>3, <2>4 DEF RowsExist
<1>8. OwnRowsLoaded'
  BY <1>3, <1>5, <1>6, OwnRowsKept DEF Bookkeeping
<1> QED
  BY <1>7, <1>8

LEMMA BookkeepingStep ==
  ASSUME AloneWithTasks, TypeOK, Bookkeeping, [Next]_vars
  PROVE  Bookkeeping'
<1>1. Exclusive'
  BY ExclusiveStep DEF Bookkeeping
<1>2. CASE UNCHANGED vars
  BY <1>2 DEF vars, Bookkeeping, Exclusive, RowsExist, CycleExists, OwnRowsLoaded
<1>3. ASSUME NEW r \in Requests, Begin(r) PROVE RowsExist' /\ OwnRowsLoaded'
  <2>1. PICK o \in Ops : Acceptable(o) /\ op' = [op EXCEPT ![r] = o]
    BY <1>3 DEF Begin
  <2>2. /\ db' = db
        /\ op'[r] = o /\ pc'[r] = "loaded" /\ snap'[r] = db
        /\ \A q \in Requests : q # r => pc'[q] = pc[q] /\ op'[q] = op[q] /\ snap'[q] = snap[q]
    BY <1>3, <2>1 DEF Begin, TypeOK
  <2>3. o.kind \notin {"entry", "group"} /\ o.kind \in Kinds
    BY OpFields DEF AloneWithTasks
  <2>4. \A t \in TasksOfOp(o) : CycleExists(CycleOf[GroupOf[t]])
    <3> TAKE t \in TasksOfOp(o)
    <3>1. CASE o.kind = "post"
      BY <2>1, <3>1 DEF Acceptable, TasksOfOp, CycleExists
    <3>2. CASE o.kind \in {"put", "delete"}
      <4>1. t \in Tasks /\ db.task[t].status # "Absent"
        BY <2>1, <3>2, OpFields DEF Acceptable, TasksOfOp, Live
      <4> QED
        BY <4>1 DEF Bookkeeping, RowsExist
    <3>3. CASE o.kind = "patch"
      <4>1. t \in Tasks /\ db.task[t].status # "Absent"
        BY <2>1, <3>3, OpFields DEF Acceptable, TasksOfOp
      <4> QED
        BY <4>1 DEF Bookkeeping, RowsExist
    <3> QED
      BY <2>3, <3>1, <3>2, <3>3 DEF TasksOfOp
  <2>5. \A c \in CyclesOfOp(o) : ~CycleExists(c)
    BY <2>1 DEF Acceptable, Buildable, CyclesOfOp, CycleExists
  <2>6. RowsExist'
    <3>1. /\ \A g \in Groups : db'.group[g].status # "Absent" <=> CycleExists(CycleOf[g])'
          /\ \A t \in Tasks : db'.task[t].status # "Absent" => CycleExists(CycleOf[GroupOf[t]])'
      BY <2>2 DEF Bookkeeping, RowsExist, CycleExists
    <3>2. ASSUME NEW q \in Requests
          PROVE  /\ \A t \in TasksOfOp(op'[q]) : CycleExists(CycleOf[GroupOf[t]])'
                 /\ \A c \in CyclesOfOp(op'[q]) : ~CycleExists(c)'
      BY <2>2, <2>4, <2>5 DEF Bookkeeping, RowsExist, CycleExists
    <3> QED
      BY <3>1, <3>2 DEF RowsExist
  <2>7. OwnRowsLoaded'
    BY <2>2 DEF Bookkeeping, OwnRowsLoaded
  <2> QED
    BY <2>6, <2>7
<1>4. ASSUME NEW r \in Requests, Work(r) PROVE RowsExist' /\ OwnRowsLoaded'
  <2>0. op[r].kind \notin {"entry", "group"}
    <3>1. op[r] \in Ops
      BY <1>4, StepControl DEF TypeOK
    <3> QED
      BY <3>1, OpFields DEF AloneWithTasks
  <2>1. CASE Rollback(r) \/ Die(r)
    BY <1>4, <2>1, TaskFreeStep DEF Rollback, Die, Finish, TypeOK
  <2>2. CASE Reload(r)
    BY <1>4, <2>2, TaskFreeStep DEF Reload, TypeOK
  <2>3. CASE PropagateTask(r)
    <3>1. pc'[r] = "idle"
      BY <2>3 DEF PropagateTask, Finish, TypeOK
    <3> QED
      BY <1>4, <2>3, <3>1, PropagateStep, TaskFreeStep
  <2>4. CASE CommitPut(r)
    <3>1. op[r] \in Ops /\ pc[r] = "loaded" /\ op[r].kind = "put"
      BY <2>4 DEF CommitPut, Loaded, TypeOK
    <3>2. op[r].task \in Tasks /\ op[r].status \in TaskStatuses
      BY <3>1, OpFields
    <3>3. SaveTask(db.task[op[r].task], snap[r].task[op[r].task], op[r].status) \in TaskRowType
      BY <3>2, SaveTaskType, TreeFields DEF TypeOK
    <3> QED
      BY <1>4, <2>4, <3>1, <3>3, WriteStep DEF CommitPut
  <2>5. CASE CommitPost(r)
    <3>1. op[r] \in Ops /\ pc[r] = "loaded" /\ op[r].kind = "post"
      BY <2>5 DEF CommitPost, Loaded, TypeOK
    <3>2. op[r].task \in Tasks /\ op[r].status \in TaskStatuses
      BY <3>1, OpFields
    <3>3. SaveTask(db.task[op[r].task], db.task[op[r].task], op[r].status) \in TaskRowType
      BY <3>2, SaveTaskType, TreeFields DEF TypeOK
    <3> QED
      BY <1>4, <2>5, <3>1, <3>3, WriteStep DEF CommitPost
  <2>6. CASE CommitDelete(r)
    <3>1. [status |-> "Deleted", finished |-> FALSE, verified |-> FALSE] \in TaskRowType
      BY DEF TaskRowType
    <3> QED
      BY <1>4, <2>6, <3>1, WriteStep DEF CommitDelete, Loaded
  <2>7. CASE CommitPatch(r)
    BY <2>7, PatchStep
  <2>8. CASE CommitCycle(r)
    <3>1. /\ db'.task = db.task
          /\ db'.group = db.group
          /\ \A c \in Cycles : db'.cycle[c].status = db.cycle[c].status
      <4>1. db.cycle \in [Cycles -> CycleRowType]
        BY TreeFields DEF TypeOK
      <4> QED
        BY <2>8, <4>1 DEF CommitCycle, TypeOK, TreeType, CycleRowType
    <3>2. pc'[r] = "idle"
      BY <2>8 DEF CommitCycle, Finish, TypeOK
    <3> QED
      BY <1>4, <3>1, <3>2, TaskFreeStep
  <2>9. CASE CommitRecurrences(r)
    <3>1. db'.task = db.task /\ db'.group = db.group /\ db'.cycle = db.cycle
      BY <2>9 DEF CommitRecurrences, TypeOK, TreeType
    <3>2. pc'[r] = "idle"
      BY <2>9 DEF CommitRecurrences, Finish, TypeOK
    <3> QED
      BY <1>4, <3>1, <3>2, TaskFreeStep
  <2>10. CASE CommitBuild(r)
    BY <1>4, <2>10, BuildStep
  <2>12. ~CommitEntry(r) /\ ~CommitGroup(r)
    BY <2>0 DEF CommitEntry, CommitGroup, Loaded
  <2> QED
    BY <1>4, <2>1, <2>2, <2>3, <2>4, <2>5, <2>6, <2>7, <2>8, <2>9, <2>10, <2>12
       DEF Work, Commit, CommitBuild
<1> QED
  BY <1>1, <1>2, <1>3, <1>4 DEF Next, Bookkeeping

\* Whatever the interleaving, a request is alone with its tasks, rows have their
\* parents, and what was read of a request's own tasks is what is committed.
THEOREM BookkeepingCorrect ==
  ASSUME AloneWithTasks
  PROVE  Spec => []Bookkeeping
<1>1. Init => Bookkeeping
  <2> SUFFICES ASSUME Init PROVE Bookkeeping
    OBVIOUS
  <2>1. /\ \A t \in Tasks : db.task[t].status = "Absent" /\ CycleOf[GroupOf[t]] \in Cycles
        /\ \A g \in Groups : db.group[g].status = "Absent" /\ CycleOf[g] \in Cycles
        /\ \A c \in Cycles : db.cycle[c].status = "Absent"
    BY TreeShape DEF Init, EmptyTree
  <2>2. \A r \in Requests : pc[r] = "idle" /\ TasksOfOp(op[r]) = {} /\ CyclesOfOp(op[r]) = {}
    BY DEF Init, NoOp, TasksOfOp, CyclesOfOp
  <2> QED
    BY <2>1, <2>2 DEF Bookkeeping, Exclusive, RowsExist, CycleExists, OwnRowsLoaded
<1>2. TypeOK /\ Bookkeeping /\ [Next]_vars => Bookkeeping'
  BY BookkeepingStep
<1> QED
  BY <1>1, <1>2, TypeCorrect, PTL DEF Spec

----------------------------------------------------------------------------
(* Groups settle *)

\* Only single-task requests write tasks and groups.
SingleTaskWriters == AloneWithTasks /\ "patch" \notin Kinds

\* A group is as up to date as before if neither its row nor its tasks change
\* and the requests that owe it a propagation are still there.
LEMMA ColumnKept ==
  ASSUME NEW g \in Groups, NEW k \in Columns,
         db.group[g][k] = GroupRow(db.task, g)[k] \/ PendingRepair(g, k),
         db'.group[g] = db.group[g],
         \A t \in TasksOf(g) : db'.task[t] = db.task[t],
         \A q \in Requests : Owes(q, g) =>
           pc'[q] = pc[q] /\ op'[q] = op[q] /\ snap'[q] = snap[q]
  PROVE  db'.group[g][k] = GroupRow(db'.task, g)[k] \/ PendingRepair(g, k)'
<1>1. GroupRow(db'.task, g) = GroupRow(db.task, g)
  BY GroupRowLocal
<1> QED
  BY <1>1 DEF PendingRepair, Owes

LEMMA WriteColumns ==
  ASSUME TypeOK, StaleColumnsPending, NEW r \in Requests, pc[r] = "loaded",
         op[r].kind \in {"put", "post", "delete"}, NEW row, WriteTask(r, row)
  PROVE  StaleColumnsPending'
<1> SUFFICES ASSUME NEW g \in Groups, g \notin lost, db.group[g].status # "Absent", NEW k \in Columns
             PROVE  db'.group[g][k] = GroupRow(db'.task, g)[k] \/ PendingRepair(g, k)'
  BY DEF StaleColumnsPending, WriteTask, TypeOK, TreeType, Columns
<1>1. op[r] \in Ops /\ op[r].task \in Tasks
  BY OpFields DEF TypeOK
<1>2. CASE GroupOf[op[r].task] = g
  BY <1>2 DEF PendingRepair, Owes, WriteTask, TypeOK
<1>3. CASE GroupOf[op[r].task] # g
  <2>1. \A t \in TasksOf(g) : db'.task[t] = db.task[t]
    BY <1>1, <1>3, TreeFields DEF WriteTask, TypeOK, TasksOf, TreeType
  <2>2. db'.group[g] = db.group[g]
    BY DEF WriteTask, TypeOK, TreeType
  <2>3. \A q \in Requests : Owes(q, g) =>
          pc'[q] = pc[q] /\ op'[q] = op[q] /\ snap'[q] = snap[q]
    BY DEF Owes, WriteTask, TypeOK
  <2>4. db.group[g][k] = GroupRow(db.task, g)[k] \/ PendingRepair(g, k)
    BY DEF StaleColumnsPending, Columns
  <2> QED
    BY <2>1, <2>2, <2>3, <2>4, ColumnKept
<1> QED
  BY <1>2, <1>3

\* What one propagation does to the group it is for: of each column, either the
\* value computed from the committed tasks is stored, or that value is the one
\* that was loaded and the column stays.
LEMMA PropagateColumns ==
  ASSUME TypeOK, Bookkeeping, NEW r \in Requests, PropagateTask(r),
         NEW g \in Groups, g = GroupOf[op[r].task]
  PROVE  /\ db'.task = db.task
         /\ \A h \in Groups : h # g => db'.group[h] = db.group[h]
         /\ db'.group[g] = Flush(db.group[g], snap[r].group[g], GroupRow(db.task, g))
         /\ snap[r].group[g] = db.group[g] => db'.group[g] = GroupRow(db.task, g)
<1>1. db' \in Propagations(db, snap[r], {op[r].task}, {g})
  BY DEF PropagateTask
<1>2. db \in TreeType /\ snap[r] \in TreeType
  BY DEF TypeOK
<1>3. db'.task = db.task
  BY <1>1, <1>2, PropagationTasks
<1>4. SeenTasks(db, snap[r], {op[r].task}) = db.task
  <2>1. op[r].task \in TasksOfOp(op[r]) /\ pc[r] = "reloaded"
    BY DEF PropagateTask, TypeOK, TasksOfOp
  <2>2. snap[r].task[op[r].task] = db.task[op[r].task]
    BY <2>1 DEF Bookkeeping, OwnRowsLoaded
  <2>3. db.task = [t \in Tasks |-> db.task[t]]
    BY <1>2, TreeFields
  <2> QED
    BY <2>2, <2>3 DEF SeenTasks
<1>5. \A h \in Groups : db'.group[h] =
        IF h \in {g} THEN Flush(db.group[h], snap[r].group[h],
                               GroupRow(SeenTasks(db, snap[r], {op[r].task}), h))
        ELSE db.group[h]
  BY <1>1, <1>2, PropagationGroups
<1>6. db'.group[g] = Flush(db.group[g], snap[r].group[g], GroupRow(db.task, g))
  BY <1>4, <1>5
<1>7. GroupRow(db.task, g) \in GroupRowType /\ db.group[g] \in GroupRowType
  BY <1>2, TreeFields, GroupRowTyped
<1> QED
  BY <1>3, <1>5, <1>6, <1>7, FlushLoadedGroup

LEMMA PropagateSettles ==
  ASSUME TypeOK, Bookkeeping, StaleColumnsPending, NEW r \in Requests, PropagateTask(r)
  PROVE  StaleColumnsPending'
<1> DEFINE g == GroupOf[op[r].task]
           l == snap[r].group[g]
           new == GroupRow(db.task, g)
<1>1. op[r] \in Ops /\ op[r].task \in Tasks /\ g \in Groups /\ pc[r] = "reloaded"
  BY OpFields, TreeShape DEF PropagateTask, TypeOK
<1>2. /\ db'.task = db.task
      /\ \A h \in Groups : h # g => db'.group[h] = db.group[h]
      /\ db'.group[g] = Flush(db.group[g], l, new)
      /\ l = db.group[g] => db'.group[g] = new
  BY <1>1, PropagateColumns
<1>3. \A q \in Requests : q # r => pc'[q] = pc[q] /\ op'[q] = op[q] /\ snap'[q] = snap[q]
  BY DEF PropagateTask, Finish, TypeOK
<1>4. lost' = IF l = db.group[g] THEN lost \ {g} ELSE lost
  BY DEF PropagateTask
<1>5. /\ db.group[g] \in GroupRowType /\ l \in GroupRowType /\ new \in GroupRowType
  BY <1>1, TreeFields, GroupRowTyped DEF TypeOK
<1>6. \A h \in Groups : db'.group[h].status # "Absent" => db.group[h].status # "Absent"
  BY PropagateStep
<1> SUFFICES ASSUME NEW h \in Groups, h \notin lost', db'.group[h].status # "Absent", NEW k \in Columns
             PROVE  db'.group[h][k] = GroupRow(db'.task, h)[k] \/ PendingRepair(h, k)'
  BY DEF StaleColumnsPending, Columns
<1>7. CASE h # g
  <2>1. \A q \in Requests : Owes(q, h) => q # r
    BY <1>7 DEF Owes
  <2>2. h \notin lost
    BY <1>4, <1>7
  <2>3. db.group[h][k] = GroupRow(db.task, h)[k] \/ PendingRepair(h, k)
    BY <1>6, <2>2 DEF StaleColumnsPending, Columns
  <2> QED
    BY <1>2, <1>3, <1>7, <2>1, <2>3, ColumnKept
<1>8. CASE h = g /\ l = db.group[g]
  BY <1>2, <1>8
<1>9. CASE h = g /\ l # db.group[g]
  <2>1. db.group[g][k] = new[k] \/ PendingRepair(g, k)
    BY <1>4, <1>6, <1>9 DEF StaleColumnsPending, Columns
  <2>2. CASE new[k] # l[k]
    BY <1>2, <1>5, <1>9, <2>2, FlushColumn
  <2>3. CASE new[k] = l[k]
    <3>1. db'.group[g][k] = db.group[g][k]
      BY <1>2, <1>5, <2>3, FlushColumn
    <3>2. CASE db.group[g][k] = new[k]
      BY <1>2, <1>9, <3>1, <3>2
    <3>3. ASSUME NEW q \in Requests, Owes(q, g),
                 pc[q] = "written" \/ snap[q].group[g][k] = db.group[g][k]
          PROVE  db'.group[h][k] = GroupRow(db'.task, h)[k] \/ PendingRepair(h, k)'
      <4>1. CASE q = r
        BY <1>1, <1>2, <1>9, <2>3, <3>1, <3>3, <4>1
      <4>2. CASE q # r
        BY <1>3, <1>9, <3>1, <3>3, <4>2 DEF PendingRepair, Owes
      <4> QED
        BY <4>1, <4>2
    <3> QED
      BY <2>1, <3>2, <3>3 DEF PendingRepair
  <2> QED
    BY <2>2, <2>3
<1> QED
  BY <1>7, <1>8, <1>9

LEMMA BuildSettles ==
  ASSUME GroupsPopulated, TypeOK, Bookkeeping, StaleColumnsPending,
         NEW r \in Requests, CommitBuild(r)
  PROVE  StaleColumnsPending'
<1> DEFINE cs == op[r].cycles
           x == BuildCycles(db, cs)
<1>0. db \in TreeType /\ cs \in SUBSET Cycles /\ CyclesOfOp(op[r]) = cs
  BY BuildCommits DEF TypeOK, CyclesOfOp
<1>1. /\ \A c \in cs : ~CycleExists(c)
      /\ pc[r] = "loaded" /\ Finish(r) /\ lost' = lost
      /\ db'.task = x.task /\ db'.group = x.group
  BY <1>0, BuildCommits DEF Bookkeeping, RowsExist
<1> SUFFICES ASSUME NEW g \in Groups, g \notin lost, db'.group[g].status # "Absent", NEW k \in Columns
             PROVE  db'.group[g][k] = GroupRow(db'.task, g)[k] \/ PendingRepair(g, k)'
  BY <1>1 DEF StaleColumnsPending, Columns
<1>3. CASE CycleOf[g] \in cs
  <2>2. \A t \in TasksOf(g) : ~Live(db.task[t])
    BY <1>1, <1>3 DEF TasksOf, Bookkeeping, RowsExist, Live
  <2>3. TasksOf(g) \cap Template # {}
    BY DEF GroupsPopulated
  <2>4. x.group[g] = GroupRow(x.task, g)
    BY <1>0, <1>3, <2>2, <2>3, BuildCyclesFresh
  <2> HIDE DEF x
  <2> QED
    BY <1>1, <2>4
<1>4. CASE CycleOf[g] \notin cs
  <2>1. x.group[g] = db.group[g]
    BY <1>0, <1>4, BuildCyclesKeeps
  <2>2. ASSUME NEW t \in TasksOf(g) PROVE x.task[t] = db.task[t]
    <3>1. t \in Tasks /\ CycleOf[GroupOf[t]] \notin cs
      BY <1>4 DEF TasksOf
    <3> QED
      BY <1>0, <3>1, BuildCyclesKeeps
  <2> HIDE DEF x, cs
  <2>3. db'.group[g] = db.group[g] /\ \A t \in TasksOf(g) : db'.task[t] = db.task[t]
    BY <1>1, <2>1, <2>2
  <2>4. \A q \in Requests : Owes(q, g) =>
          pc'[q] = pc[q] /\ op'[q] = op[q] /\ snap'[q] = snap[q]
    BY <1>1 DEF Owes, Finish, TypeOK
  <2>5. db.group[g][k] = GroupRow(db.task, g)[k] \/ PendingRepair(g, k)
    BY <2>3 DEF StaleColumnsPending, Columns
  <2> QED
    BY <2>3, <2>4, <2>5, ColumnKept
<1> QED
  BY <1>3, <1>4

\* Steps that touch neither tasks nor groups, and drop no propagation.
LEMMA QuietStep ==
  ASSUME StaleColumnsPending, lost' = lost, db'.task = db.task, db'.group = db.group,
         \A q \in Requests : pc[q] \in {"written", "reloaded"} =>
           pc'[q] = pc[q] /\ op'[q] = op[q] /\ snap'[q] = snap[q]
  PROVE  StaleColumnsPending'
<1> SUFFICES ASSUME NEW g \in Groups, g \notin lost, db.group[g].status # "Absent", NEW k \in Columns
             PROVE  db'.group[g][k] = GroupRow(db'.task, g)[k] \/ PendingRepair(g, k)'
  BY DEF StaleColumnsPending, Columns
<1>1. db.group[g][k] = GroupRow(db.task, g)[k] \/ PendingRepair(g, k)
  BY DEF StaleColumnsPending, Columns
<1> QED
  BY <1>1, ColumnKept DEF Owes

LEMMA StaleColumnsStep ==
  ASSUME SingleTaskWriters, GroupsPopulated, TypeOK, Bookkeeping, StaleColumnsPending, [Next]_vars
  PROVE  StaleColumnsPending'
<1>1. CASE UNCHANGED vars
  BY <1>1, QuietStep DEF vars
<1>2. ASSUME NEW r \in Requests, Begin(r) PROVE StaleColumnsPending'
  BY <1>2, QuietStep DEF Begin, TypeOK
<1>3. ASSUME NEW r \in Requests, Rollback(r) PROVE StaleColumnsPending'
  BY <1>3, QuietStep DEF Rollback, Finish, TypeOK
<1>4. ASSUME NEW r \in Requests, Die(r) PROVE StaleColumnsPending'
  <2> SUFFICES ASSUME NEW g \in Groups, g \notin lost', db.group[g].status # "Absent", NEW k \in Columns
               PROVE  db'.group[g][k] = GroupRow(db'.task, g)[k] \/ PendingRepair(g, k)'
    BY <1>4 DEF StaleColumnsPending, Columns, Die
  <2>1. g \notin lost /\ db' = db /\ ~Owes(r, g)
    BY <1>4 DEF Die, Owes
  <2>2. db.group[g][k] = GroupRow(db.task, g)[k] \/ PendingRepair(g, k)
    BY <2>1 DEF StaleColumnsPending, Columns
  <2>3. \A q \in Requests : Owes(q, g) =>
          pc'[q] = pc[q] /\ op'[q] = op[q] /\ snap'[q] = snap[q]
    BY <1>4, <2>1 DEF Die, Finish, TypeOK
  <2> QED
    BY <2>1, <2>2, <2>3, ColumnKept
<1>5. ASSUME NEW r \in Requests, CommitPut(r) \/ CommitPost(r) \/ CommitDelete(r)
      PROVE  StaleColumnsPending'
  BY <1>5, WriteColumns DEF CommitPut, CommitPost, CommitDelete, Loaded
<1>6. ASSUME NEW r \in Requests, Reload(r) PROVE StaleColumnsPending'
  <2> SUFFICES ASSUME NEW g \in Groups, g \notin lost, db.group[g].status # "Absent", NEW k \in Columns
               PROVE  db'.group[g][k] = GroupRow(db'.task, g)[k] \/ PendingRepair(g, k)'
    BY <1>6 DEF StaleColumnsPending, Columns, Reload
  <2>1. db.group[g][k] = GroupRow(db.task, g)[k] \/ PendingRepair(g, k)
    BY DEF StaleColumnsPending, Columns
  <2>2. ASSUME NEW q \in Requests, Owes(q, g),
               pc[q] = "written" \/ snap[q].group[g][k] = db.group[g][k]
        PROVE  PendingRepair(g, k)'
    BY <1>6, <2>2 DEF Reload, PendingRepair, Owes, TypeOK
  <2> QED
    BY <1>6, <2>1, <2>2 DEF PendingRepair, Reload
<1>7. ASSUME NEW r \in Requests, PropagateTask(r) PROVE StaleColumnsPending'
  BY <1>7, PropagateSettles
<1>8. ASSUME NEW r \in Requests, CommitCycle(r) PROVE StaleColumnsPending'
  <2>1. db'.task = db.task /\ db'.group = db.group
    BY <1>8 DEF CommitCycle, TypeOK, TreeType
  <2> QED
    BY <1>8, <2>1, QuietStep DEF CommitCycle, Loaded, Finish, TypeOK
<1>9. ASSUME NEW r \in Requests, CommitRecurrences(r) PROVE StaleColumnsPending'
  <2>1. db'.task = db.task /\ db'.group = db.group
    BY <1>9 DEF CommitRecurrences, TypeOK, TreeType
  <2> QED
    BY <1>9, <2>1, QuietStep DEF CommitRecurrences, Loaded, Finish, TypeOK
<1>10. ASSUME NEW r \in Requests, CommitBuild(r) PROVE StaleColumnsPending'
  BY <1>10, BuildSettles
<1>12. ASSUME NEW r \in Requests
       PROVE  ~CommitPatch(r) /\ ~CommitEntry(r) /\ ~CommitGroup(r)
  <2>1. op[r].kind \notin {"patch", "entry", "group"}
    BY OpFields DEF TypeOK, NoOp, SingleTaskWriters, AloneWithTasks
  <2> QED
    BY <2>1 DEF CommitPatch, CommitEntry, CommitGroup, Loaded
<1> QED
  BY <1>1, <1>2, <1>3, <1>4, <1>5, <1>6, <1>7, <1>8, <1>9, <1>10, <1>12
     DEF Next, Work, Commit, CommitBuild

\* For each column of a group that is out of date, some request in service will
\* still bring it up to date, unless the propagation that would have was lost.
THEOREM StaleColumnsArePending ==
  ASSUME SingleTaskWriters, GroupsPopulated
  PROVE  Spec => []StaleColumnsPending
<1>1. Init => StaleColumnsPending
  BY DEF Init, EmptyTree, StaleColumnsPending
<1>2. TypeOK /\ Bookkeeping /\ StaleColumnsPending /\ [Next]_vars => StaleColumnsPending'
  BY StaleColumnsStep
<1>3. Spec => []Bookkeeping
  BY BookkeepingCorrect DEF SingleTaskWriters
<1> QED
  BY <1>1, <1>2, <1>3, TypeCorrect, PTL DEF Spec

\* Whatever the interleaving of PUTs, POSTs and DELETEs of different tasks, a
\* group that no request still owes a propagation shows its tasks' aggregate,
\* unless a worker died with the last propagation.
THEOREM GroupsSettleCorrect ==
  ASSUME SingleTaskWriters, GroupsPopulated
  PROVE  Spec => []GroupsSettle
<1>1. TypeOK /\ StaleColumnsPending => GroupsSettle
  <2> SUFFICES ASSUME TypeOK, StaleColumnsPending, NEW g \in Groups, g \notin lost,
                      ~\E r \in Requests : Owes(r, g), db.group[g].status # "Absent"
               PROVE  db.group[g] = GroupRow(db.task, g)
    BY DEF GroupsSettle, Fresh
  <2>1. \A k \in Columns : db.group[g][k] = GroupRow(db.task, g)[k]
    BY DEF StaleColumnsPending, PendingRepair, Columns
  <2>2. db.group[g] \in GroupRowType /\ GroupRow(db.task, g) \in GroupRowType
    BY TreeFields, GroupRowTyped DEF TypeOK
  <2> QED
    BY <2>1, <2>2, GroupRowColumns
<1> QED
  BY <1>1, StaleColumnsArePending, TypeCorrect, PTL

----------------------------------------------------------------------------
(* Dates follow status *)

DatesOf(row) ==
  Live(row) => /\ row.finished <=> row.status \in {"Finished", "Verified"}
               /\ row.verified <=> row.status = "Verified"

\* Saving a status over the row that was loaded leaves dates that fit it.
LEMMA SaveTaskDates ==
  ASSUME NEW row \in TaskRowType, NEW s \in TaskStatuses, DatesOf(row)
  PROVE  DatesOf(SaveTask(row, row, s))
<1>1. s \notin {"Absent", "Deleted"}
  BY DEF TaskStatuses, ParentStatuses
<1>2. WithStatus(row, s) \in TaskRowType
  BY DEF WithStatus, TaskRowType
<1>3. Flush(row, row, WithStatus(row, s)) = WithStatus(row, s)
  BY <1>2 DEF Flush, TaskRowType
<1>4. SaveTask(row, row, s) = [WithStatus(row, s) EXCEPT
                                 !.verified = @ \/ (s = "Verified" /\ s # row.status)]
  BY <1>3 DEF SaveTask
<1>5. CASE s = row.status
  <2>1. WithStatus(row, s) = row
    BY <1>5 DEF WithStatus
  <2>2. [row EXCEPT !.verified = @ \/ (s = "Verified" /\ s # row.status)] = row
    BY <1>5 DEF TaskRowType
  <2> QED
    BY <1>4, <2>1, <2>2
<1>6. CASE s # row.status
  BY <1>1, <1>4, <1>6 DEF WithStatus, DatesOf, Live
<1> QED
  BY <1>5, <1>6

LEMMA DatesStep ==
  ASSUME AloneWithTasks, TypeOK, Bookkeeping, DatesFollowStatus, [Next]_vars
  PROVE  DatesFollowStatus'
<1> SUFFICES ASSUME NEW t \in Tasks PROVE DatesOf(db'.task[t])
  BY DEF DatesFollowStatus, DatesOf
<1>1. db.task[t] \in TaskRowType /\ DatesOf(db.task[t])
  BY TreeFields DEF TypeOK, DatesFollowStatus, DatesOf
<1>2. CASE db'.task = db.task
  BY <1>1, <1>2
<1>3. ASSUME NEW r \in Requests, pc[r] = "loaded", op[r].kind \in {"put", "post", "delete"},
             NEW row, WriteTask(r, row), op[r].task = t => DatesOf(row)
      PROVE  DatesOf(db'.task[t])
  <2>1. db'.task[t] = IF op[r].task = t THEN row ELSE db.task[t]
    BY <1>3 DEF WriteTask, TypeOK, TreeType
  <2> QED
    BY <1>1, <1>3, <2>1
<1>4. ASSUME NEW r \in Requests, CommitPut(r) PROVE DatesOf(db'.task[t])
  <2>1. op[r] \in Ops /\ op[r].status \in TaskStatuses /\ op[r].task \in TasksOfOp(op[r])
    BY <1>4, OpFields DEF CommitPut, Loaded, TypeOK, TasksOfOp
  <2>2. snap[r].task[op[r].task] = db.task[op[r].task]
    BY <1>4, <2>1 DEF CommitPut, Loaded, Bookkeeping, OwnRowsLoaded
  <2>3. op[r].task = t => DatesOf(SaveTask(db.task[t], db.task[t], op[r].status))
    BY <1>1, <2>1, SaveTaskDates
  <2> QED
    BY <1>3, <1>4, <2>2, <2>3 DEF CommitPut, Loaded
<1>5. ASSUME NEW r \in Requests, CommitPost(r) PROVE DatesOf(db'.task[t])
  <2>1. op[r] \in Ops /\ op[r].status \in TaskStatuses
    BY <1>5, OpFields DEF CommitPost, Loaded, TypeOK
  <2>2. op[r].task = t => DatesOf(SaveTask(db.task[t], db.task[t], op[r].status))
    BY <1>1, <2>1, SaveTaskDates
  <2> QED
    BY <1>3, <1>5, <2>2 DEF CommitPost, Loaded
<1>6. ASSUME NEW r \in Requests, CommitDelete(r) PROVE DatesOf(db'.task[t])
  <2>1. DatesOf([status |-> "Deleted", finished |-> FALSE, verified |-> FALSE])
    BY DEF DatesOf, Live
  <2> QED
    BY <1>3, <1>6, <2>1 DEF CommitDelete, Loaded
<1>7. ASSUME NEW r \in Requests, CommitPatch(r) PROVE DatesOf(db'.task[t])
  <2> DEFINE mine == BulkMine(snap[r], op[r])
             moved(tree) == [tree EXCEPT !.task = [u \in Tasks |->
                               IF u \in mine THEN SaveTask(tree.task[u], snap[r].task[u], op[r].status)
                               ELSE tree.task[u]]]
  <2>1. op[r] \in Ops /\ op[r].kind = "patch" /\ pc[r] = "loaded"
    BY <1>7 DEF CommitPatch, Loaded, TypeOK
  <2>2. op[r].status \in TaskStatuses /\ mine \subseteq TasksOfOp(op[r])
    BY <2>1, OpFields DEF TasksOfOp, BulkMine
  <2>3. ASSUME NEW tree \in TreeType
        PROVE  /\ moved(tree) \in TreeType
               /\ moved(tree).task[t] = IF t \in mine
                                        THEN SaveTask(tree.task[t], snap[r].task[t], op[r].status)
                                        ELSE tree.task[t]
    <3>1. \A u \in Tasks : SaveTask(tree.task[u], snap[r].task[u], op[r].status) \in TaskRowType
      BY <2>2, SaveTaskType, TreeFields DEF TypeOK
    <3>2. [u \in Tasks |-> IF u \in mine THEN SaveTask(tree.task[u], snap[r].task[u], op[r].status)
                          ELSE tree.task[u]] \in [Tasks -> TaskRowType]
      BY <3>1, TreeFields
    <3> QED
      BY <3>2 DEF TreeType
  <2>4. db' \in Propagations(moved(db), moved(snap[r]), mine, {GroupOf[u] : u \in mine})
    BY <1>7 DEF CommitPatch
  <2>5. /\ moved(db) \in TreeType /\ moved(snap[r]) \in TreeType
        /\ moved(db).task[t] = IF t \in mine
                               THEN SaveTask(db.task[t], snap[r].task[t], op[r].status)
                               ELSE db.task[t]
    BY <2>3 DEF TypeOK
  <2> HIDE DEF moved, mine
  <2>6. db'.task[t] = IF t \in mine THEN SaveTask(db.task[t], snap[r].task[t], op[r].status)
                      ELSE db.task[t]
    BY <2>4, <2>5, PropagationTasks
  <2>7. t \in mine => snap[r].task[t] = db.task[t]
    BY <2>1, <2>2 DEF Bookkeeping, OwnRowsLoaded
  <2> QED
    BY <1>1, <2>2, <2>6, <2>7, SaveTaskDates
<1>9. ASSUME NEW r \in Requests, CommitBuild(r) PROVE DatesOf(db'.task[t])
  <2> DEFINE cs == op[r].cycles
  <2>1. db \in TreeType /\ cs \in SUBSET Cycles /\ db'.task = BuildCycles(db, cs).task
    BY <1>9, BuildCommits DEF TypeOK
  <2> HIDE DEF cs
  <2>2. db'.task[t] \in
          {[status |-> "Assigned", finished |-> FALSE, verified |-> FALSE], db.task[t]}
    <3> DEFINE task == BuildCycles(db, cs).task
    <3>1. task = [u \in Tasks |->
                    IF u \in Template /\ CycleOf[GroupOf[u]] \in cs
                    THEN [status |-> "Assigned", finished |-> FALSE, verified |-> FALSE]
                    ELSE db.task[u]]
      BY <2>1, BuildCyclesTasks
    <3> HIDE DEF task
    <3> QED
      BY <2>1, <3>1 DEF task
  <2>3. DatesOf([status |-> "Assigned", finished |-> FALSE, verified |-> FALSE])
    BY DEF DatesOf
  <2> QED
    BY <1>1, <2>2, <2>3
<1>10. ASSUME NEW r \in Requests
       PROVE  /\ ~CommitEntry(r) /\ ~CommitGroup(r)
              /\ Begin(r) \/ Rollback(r) \/ Die(r) \/ Reload(r) \/ PropagateTask(r)
                   \/ CommitCycle(r) \/ CommitRecurrences(r) => db'.task = db.task
  <2>1. op[r].kind \notin {"entry", "group"}
    BY OpFields DEF TypeOK, NoOp, AloneWithTasks
  <2>2. PropagateTask(r) => db'.task = db.task
    BY PropagateStep
  <2>3. CommitCycle(r) \/ CommitRecurrences(r) => db'.task = db.task
    BY DEF CommitCycle, CommitRecurrences, TypeOK, TreeType
  <2> QED
    BY <2>1, <2>2, <2>3 DEF CommitEntry, CommitGroup, Loaded, Begin, Rollback, Die, Reload
<1>11. CASE UNCHANGED vars
  BY <1>2, <1>11 DEF vars
<1> QED
  BY <1>2, <1>4, <1>5, <1>6, <1>7, <1>9, <1>10, <1>11 DEF Next, Work, Commit, CommitBuild

\* finished_date and verified_date fit the status, however requests on different
\* tasks interleave, bulk moves included.
THEOREM DatesCorrect ==
  ASSUME AloneWithTasks
  PROVE  Spec => []DatesFollowStatus
<1>1. Init => DatesFollowStatus
  BY DEF Init, EmptyTree, DatesFollowStatus, Live
<1>2. TypeOK /\ Bookkeeping /\ DatesFollowStatus /\ [Next]_vars => DatesFollowStatus'
  BY DatesStep
<1> QED
  BY <1>1, <1>2, BookkeepingCorrect, TypeCorrect, PTL DEF Spec

----------------------------------------------------------------------------
(* A cycle of one group shows that group *)

ShownColumns == {"status", "start", "end"}

\* The rows of a tree, committed or loaded, of which CycleShowsGroup speaks.
Shows(tree) ==
  \A c \in Cycles, g \in Groups : GroupsOf(c) = {g} =>
    \A k \in ShownColumns : tree.cycle[c][k] = tree.group[g][k]

\* The inductive invariant: what a request has loaded is in agreement, too.  A
\* flush compares the new columns with those.
ShowsEverywhere == Shows(db) /\ \A r \in Requests : Shows(snap[r])

\* A cycle's flush, column by column.
LEMMA FlushCycleColumn ==
  ASSUME NEW row \in CycleRowType, NEW loaded \in CycleRowType, NEW new \in CycleRowType,
         NEW k \in ShownColumns
  PROVE  /\ new[k] # loaded[k] => Flush(row, loaded, new)[k] = new[k]
         /\ new[k] = loaded[k] => Flush(row, loaded, new)[k] = row[k]
BY DEF Flush, CycleRowType, ShownColumns

\* A propagation computes the same status, start and end for the group and for
\* its cycle, over loaded rows that agree: it writes both or neither.
LEMMA PropagationShows ==
  ASSUME NEW d \in TreeType, NEW l \in TreeType, Shows(d), Shows(l), NEW mine, NEW gs,
         NEW x \in Propagations(d, l, mine, gs)
  PROVE  Shows(x)
<1> SUFFICES ASSUME NEW c \in Cycles, NEW g \in Groups, GroupsOf(c) = {g}, NEW k \in ShownColumns
             PROVE  x.cycle[c][k] = x.group[g][k]
  BY DEF Shows
<1> DEFINE group == SeenGroups(d, l, mine, gs)
           cycle == SeenCycles(l, gs, group)
<1>1. /\ group \in [Groups -> GroupRowType]
      /\ cycle \in [Cycles -> CycleRowType]
      /\ g \in gs => group[g] = GroupRow(SeenTasks(d, l, mine), g) /\ group[g].status # "Absent"
  <2>1. group \in [Groups -> GroupRowType] /\ SeenTasks(d, l, mine) \in [Tasks -> TaskRowType]
    BY SeenType
  <2>2. cycle \in [Cycles -> CycleRowType]
    BY <2>1, SeenCyclesType
  <2>3. GroupRow(SeenTasks(d, l, mine), g).status # "Absent"
    BY <2>1, GroupRowTyped
  <2> QED
    BY <2>1, <2>2, <2>3 DEF SeenGroups
<1>2. cycle[c] = IF \A h \in gs \cap GroupsOf(c) : group[h] = l.group[h] THEN l.cycle[c]
                 ELSE LET row == CycleRow(group, c) IN
                      [status |-> row.status, start |-> row.start, end |-> row.end,
                       due |-> row.due,
                       current |-> IF row.status = l.cycle[c].status THEN l.cycle[c].current
                                   ELSE ~CycleDone(row, l.task, c)]
  BY DEF SeenCycles
<1>3. x.cycle[c] = Flush(d.cycle[c], l.cycle[c], cycle[c])
  BY PropagationCycles
<1>4. x.group[g] = IF g \in gs THEN Flush(d.group[g], l.group[g], group[g]) ELSE d.group[g]
  BY <1>1, PropagationGroups
<1>5. /\ d.cycle[c][k] = d.group[g][k]
      /\ l.cycle[c][k] = l.group[g][k]
  BY DEF Shows
<1>6. /\ d.cycle[c] \in CycleRowType /\ l.cycle[c] \in CycleRowType /\ cycle[c] \in CycleRowType
      /\ d.group[g] \in GroupRowType /\ l.group[g] \in GroupRowType /\ group[g] \in GroupRowType
      /\ k \in Columns
  BY <1>1, TreeFields DEF ShownColumns, Columns
<1> HIDE DEF group, cycle
<1>7. CASE g \notin gs \/ group[g] = l.group[g]
  <2>1. cycle[c] = l.cycle[c]
    BY <1>2, <1>7
  <2>2. x.cycle[c][k] = d.cycle[c][k]
    BY <1>3, <1>6, <2>1, FlushCycleColumn
  <2>3. x.group[g][k] = d.group[g][k]
    BY <1>4, <1>6, <1>7, FlushColumn
  <2> QED
    BY <1>5, <2>2, <2>3
<1>8. CASE g \in gs /\ group[g] # l.group[g]
  <2>1. cycle[c][k] = CycleRow(group, c)[k]
    BY <1>2, <1>8 DEF ShownColumns, CycleRow
  <2>2. CycleRow(group, c)[k] = group[g][k]
    BY <1>1, <1>8, CycleRowOfOne DEF ShownColumns
  <2>3. CASE group[g][k] = l.group[g][k]
    <3>1. x.cycle[c][k] = d.cycle[c][k]
      BY <1>3, <1>5, <1>6, <2>1, <2>2, <2>3, FlushCycleColumn
    <3>2. x.group[g][k] = d.group[g][k]
      BY <1>4, <1>6, <1>8, <2>3, FlushColumn
    <3> QED
      BY <1>5, <3>1, <3>2
  <2>4. CASE group[g][k] # l.group[g][k]
    <3>1. x.cycle[c][k] = cycle[c][k]
      BY <1>3, <1>5, <1>6, <2>1, <2>2, <2>4, FlushCycleColumn
    <3>2. x.group[g][k] = group[g][k]
      BY <1>4, <1>6, <1>8, <2>4, FlushColumn
    <3> QED
      BY <2>1, <2>2, <3>1, <3>2
  <2> QED
    BY <2>3, <2>4
<1> QED
  BY <1>7, <1>8

\* A new cycle agrees with its group from the start, and the others are left alone.
LEMMA BuildCyclesShow ==
  ASSUME NEW d \in TreeType, NEW cs \in SUBSET Cycles, Shows(d)
  PROVE  Shows(BuildCycles(d, cs))
<1> DEFINE x == BuildCycles(d, cs)
<1> SUFFICES ASSUME NEW c \in Cycles, NEW g \in Groups, GroupsOf(c) = {g}, NEW k \in ShownColumns
             PROVE  x.cycle[c][k] = x.group[g][k]
  BY DEF Shows
<1>1. CycleOf[g] = c
  BY DEF GroupsOf
<1>2. CASE c \notin cs
  <2>1. x.cycle[c] = d.cycle[c]
    BY <1>2, BuildCyclesCycles
  <2>2. x.group[g] = d.group[g]
    BY <1>1, <1>2, BuildCyclesKeeps
  <2> HIDE DEF x
  <2> QED
    BY <2>1, <2>2 DEF Shows
<1>3. CASE c \in cs
  <2>1. x.group \in [Groups -> GroupRowType]
    BY BuildCyclesType, TreeFields
  <2>2. x.group[g].status = "Assigned"
    BY <1>1, <1>3, BuildCyclesGroups
  <2>3. /\ x.cycle[c].status = "Assigned"
        /\ x.cycle[c].start = CycleRow(x.group, c).start
        /\ x.cycle[c].end = CycleRow(x.group, c).end
    BY <1>3, BuildCyclesCycles
  <2> HIDE DEF x
  <2>4. \A j \in {"status", "start", "end"} : CycleRow(x.group, c)[j] = x.group[g][j]
    BY <2>1, <2>2, CycleRowOfOne
  <2> QED
    BY <2>2, <2>3, <2>4 DEF ShownColumns
<1> QED
  BY <1>2, <1>3

\* The step of the induction.  Only a PUT of a group, which is not followed by a
\* propagation to the cycle, could part the two.
LEMMA ShowsStep ==
  ASSUME "group" \notin Kinds, TypeOK, ShowsEverywhere, [Next]_vars
  PROVE  ShowsEverywhere'
<1>1. Shows(NoSnap)
  BY DEF Shows, NoSnap, EmptyTree, ShownColumns
<1>2. ASSUME NEW r \in Requests, Finish(r), Shows(db') PROVE ShowsEverywhere'
  BY <1>1, <1>2 DEF Finish, ShowsEverywhere, TypeOK
<1>3. ASSUME db'.cycle = db.cycle, db'.group = db.group PROVE Shows(db')
  BY <1>3 DEF Shows, ShowsEverywhere
<1>4. CASE UNCHANGED vars
  BY <1>4 DEF vars, ShowsEverywhere
<1>5. ASSUME NEW r \in Requests, Begin(r) PROVE ShowsEverywhere'
  BY <1>5 DEF Begin, ShowsEverywhere, TypeOK
<1>6. ASSUME NEW r \in Requests, Rollback(r) \/ Die(r) PROVE ShowsEverywhere'
  <2>1. Finish(r) /\ db' = db
    BY <1>6 DEF Rollback, Die
  <2> QED
    BY <1>2, <1>3, <2>1
<1>7. ASSUME NEW r \in Requests, CommitPut(r) \/ CommitPost(r) \/ CommitDelete(r)
      PROVE  ShowsEverywhere'
  <2>1. PICK row : WriteTask(r, row)
    BY <1>7 DEF CommitPut, CommitPost, CommitDelete
  <2>2. db'.cycle = db.cycle /\ db'.group = db.group /\ snap' = snap
    BY <2>1 DEF WriteTask, TypeOK, TreeType
  <2> QED
    BY <1>3, <2>2 DEF ShowsEverywhere
<1>8. ASSUME NEW r \in Requests, Reload(r) PROVE ShowsEverywhere'
  BY <1>8 DEF Reload, ShowsEverywhere, TypeOK
<1>9. ASSUME NEW r \in Requests, PropagateTask(r) PROVE ShowsEverywhere'
  <2>1. Shows(db')
    BY <1>9, PropagationShows DEF PropagateTask, ShowsEverywhere, TypeOK
  <2> QED
    BY <1>2, <1>9, <2>1 DEF PropagateTask
<1>10. ASSUME NEW r \in Requests, CommitPatch(r) PROVE ShowsEverywhere'
  <2> DEFINE mine == BulkMine(snap[r], op[r])
             moved(tree) == [tree EXCEPT !.task = [t \in Tasks |->
                               IF t \in mine THEN SaveTask(tree.task[t], snap[r].task[t], op[r].status)
                               ELSE tree.task[t]]]
  <2>1. op[r].status \in TaskStatuses
    BY <1>10, OpFields DEF CommitPatch, Loaded, TypeOK
  <2>2. ASSUME NEW tree \in TreeType, Shows(tree)
        PROVE  moved(tree) \in TreeType /\ Shows(moved(tree))
    <3>1. \A t \in Tasks : SaveTask(tree.task[t], snap[r].task[t], op[r].status) \in TaskRowType
      BY <2>1, SaveTaskType, TreeFields DEF TypeOK
    <3>2. [t \in Tasks |-> IF t \in mine THEN SaveTask(tree.task[t], snap[r].task[t], op[r].status)
                          ELSE tree.task[t]] \in [Tasks -> TaskRowType]
      BY <3>1, TreeFields
    <3>3. /\ moved(tree) \in TreeType
          /\ moved(tree).cycle = tree.cycle /\ moved(tree).group = tree.group
      BY <3>2 DEF TreeType
    <3> HIDE DEF moved
    <3> QED
      BY <2>2, <3>3 DEF Shows
  <2>3. db' \in Propagations(moved(db), moved(snap[r]), mine, {GroupOf[t] : t \in mine})
    BY <1>10 DEF CommitPatch
  <2>4. /\ moved(db) \in TreeType /\ Shows(moved(db))
        /\ moved(snap[r]) \in TreeType /\ Shows(moved(snap[r]))
    BY <2>2 DEF TypeOK, ShowsEverywhere
  <2> HIDE DEF moved, mine
  <2>5. Shows(db')
    BY <2>3, <2>4, PropagationShows
  <2> QED
    BY <1>2, <1>10, <2>5 DEF CommitPatch
<1>11. ASSUME NEW r \in Requests, CommitEntry(r) \/ CommitRecurrences(r) PROVE ShowsEverywhere'
  <2>1. Finish(r) /\ db'.cycle = db.cycle /\ db'.group = db.group
    BY <1>11 DEF CommitEntry, CommitRecurrences, TypeOK, TreeType
  <2> QED
    BY <1>2, <1>3, <2>1
<1>12. ASSUME NEW r \in Requests, CommitGroup(r) PROVE FALSE
  <2>1. op[r].kind # "group"
    BY OpFields DEF TypeOK, NoOp
  <2> QED
    BY <1>12, <2>1 DEF CommitGroup, Loaded
<1>13. ASSUME NEW r \in Requests, CommitCycle(r) PROVE ShowsEverywhere'
  <2>1. op[r].cycle \in Cycles
    BY <1>13, OpFields DEF CommitCycle, Loaded, TypeOK
  <2>2. /\ db'.group = db.group
        /\ \A c \in Cycles, k \in ShownColumns : db'.cycle[c][k] = db.cycle[c][k]
    <3>1. db \in TreeType /\ db.cycle \in [Cycles -> CycleRowType]
      BY TreeFields DEF TypeOK
    <3>2. db'.group = db.group /\ db'.cycle = [db.cycle EXCEPT ![op[r].cycle].current = op[r].current]
      BY <1>13, <3>1 DEF CommitCycle, TreeType
    <3> QED
      BY <2>1, <3>1, <3>2 DEF ShownColumns, CycleRowType
  <2>3. Shows(db')
    BY <2>2 DEF Shows, ShowsEverywhere
  <2>4. Finish(r)
    BY <1>13 DEF CommitCycle
  <2> QED
    BY <1>2, <2>3, <2>4
<1>14. ASSUME NEW r \in Requests, CommitBuild(r) PROVE ShowsEverywhere'
  <2> DEFINE x == BuildCycles(db, op[r].cycles)
  <2>1. op[r].cycles \in SUBSET Cycles /\ Finish(r) /\ db'.cycle = x.cycle /\ db'.group = x.group
    BY <1>14, BuildCommits
  <2>2. Shows(x)
    BY <2>1, BuildCyclesShow DEF TypeOK, ShowsEverywhere
  <2> HIDE DEF x
  <2>3. Shows(db')
    BY <2>1, <2>2 DEF Shows
  <2> QED
    BY <1>2, <2>1, <2>3
<1> QED
  BY <1>4, <1>5, <1>6, <1>7, <1>8, <1>9, <1>10, <1>11, <1>12, <1>13, <1>14
     DEF Next, Work, Commit, CommitBuild

\* However many requests interleave, fail or share tasks, a cycle of one group
\* shows that group's status, start and end, as long as nobody PUTs a group.
THEOREM CycleShowsGroupCorrect ==
  ASSUME "group" \notin Kinds
  PROVE  Spec => []CycleShowsGroup
<1>1. Init => ShowsEverywhere
  BY DEF Init, NoSnap, EmptyTree, ShowsEverywhere, Shows, ShownColumns
<1>2. TypeOK /\ ShowsEverywhere /\ [Next]_vars => ShowsEverywhere'
  BY ShowsStep
<1>3. ShowsEverywhere => CycleShowsGroup
  BY DEF ShowsEverywhere, Shows, ShownColumns, CycleShowsGroup
<1> QED
  BY <1>1, <1>2, <1>3, TypeCorrect, PTL DEF Spec

----------------------------------------------------------------------------
(* Requests that do not overlap implement CycleTree *)

\* One worker at a time, and none that dies: what ImplementsTree is about.
OneWorker == \E r \in Requests : Requests = {r}
Serial == OneWorker /\ ~Failures

\* The operators of the abstract specification are those of the detailed one.
LEMMA SameRows ==
  /\ \A row : Tree!Live(row) = Live(row)
  /\ \A row, s : Tree!WithStatus(row, s) = WithStatus(row, s)
  /\ \A row, loaded, new : Tree!Flush(row, loaded, new) = Flush(row, loaded, new)
  /\ \A wf, b : Tree!WorkflowState(wf, b) = WorkflowState(wf, b)
  /\ \A s : Tree!BulkSources(s) = BulkSources(s)
  /\ \A g : Tree!TasksOf(g) = TasksOf(g)
  /\ \A d, cs : Tree!Buildable(d, cs) = Buildable(d, cs)
  /\ \A l, on : Tree!Archives(l, on) = Archives(l, on)
  /\ \A l, on : Tree!Activated(l, on) = Activated(l, on)
  /\ \A b : Tree!EmptyTree(b) = EmptyTree(b)
  /\ Tree!Rank = Rank
  /\ Tree!ParentStatuses = ParentStatuses
  /\ Tree!TaskStatuses = TaskStatuses
<1>1. \A row : Tree!Live(row) = Live(row)
  BY DEF Tree!Live, Live
<1>2. \A row, s : Tree!WithStatus(row, s) = WithStatus(row, s)
  BY DEF Tree!WithStatus, WithStatus
<1>3. \A row, loaded, new : Tree!Flush(row, loaded, new) = Flush(row, loaded, new)
  BY DEF Tree!Flush, Flush
<1>4. \A wf, b : Tree!WorkflowState(wf, b) = WorkflowState(wf, b)
  BY DEF Tree!WorkflowState, WorkflowState
<1>5. \A s : Tree!BulkSources(s) = BulkSources(s)
  BY DEF Tree!BulkSources, BulkSources
<1>6. \A g : Tree!TasksOf(g) = TasksOf(g)
  BY DEF Tree!TasksOf, TasksOf
<1>7. \A d, cs : Tree!Buildable(d, cs) = Buildable(d, cs)
  BY DEF Tree!Buildable, Buildable, Tree!CanBuild, CanBuild, Tree!TasksIn, TasksIn
<1>11. \A l, on : Tree!Archives(l, on) = Archives(l, on)
  BY DEF Tree!Archives, Archives
<1>12. \A l, on : Tree!Activated(l, on) = Activated(l, on)
  BY <1>4, <1>11 DEF Tree!Activated, Activated
<1>8. \A b : Tree!EmptyTree(b) = EmptyTree(b)
  BY DEF Tree!EmptyTree, EmptyTree, Tree!NoDay, NoDay
<1>9. Tree!Rank = Rank
  BY DEF Tree!Rank, Rank
<1>10. Tree!ParentStatuses = ParentStatuses /\ Tree!TaskStatuses = TaskStatuses
  BY DEF Tree!ParentStatuses, ParentStatuses, Tree!TaskStatuses, TaskStatuses
<1> QED
  BY <1>1, <1>2, <1>3, <1>4, <1>5, <1>6, <1>7, <1>8, <1>9, <1>10, <1>11, <1>12

LEMMA SameSaveTask ==
  \A row, loaded, s : Tree!SaveTask(row, loaded, s) = SaveTask(row, loaded, s)
BY SameRows DEF Tree!SaveTask, SaveTask

LEMMA SameGroupRow ==
  \A task, g : Tree!GroupRow(task, g) = GroupRow(task, g)
BY DEF Tree!GroupRow, GroupRow, Tree!TasksOf, TasksOf, Tree!Live, Live, Tree!IsDone, IsDone,
       Tree!DoneStatus, DoneStatus, Tree!AggregateStatus, AggregateStatus,
       Tree!Earliest, Earliest, Tree!Latest, Latest, Tree!NoDay, NoDay

LEMMA SameCycleRow ==
  \A group, c : Tree!CycleRow(group, c) = CycleRow(group, c)
BY DEF Tree!CycleRow, CycleRow, Tree!GroupsOf, GroupsOf, Tree!IsDone, IsDone,
       Tree!DoneStatus, DoneStatus, Tree!AggregateStatus, AggregateStatus,
       Tree!Earliest, Earliest, Tree!Latest, Latest, Tree!NoDay, NoDay

LEMMA SamePropagations ==
  \A d, l, mine, gs : Tree!Propagations(d, l, mine, gs) = Propagations(d, l, mine, gs)
<1>1. \A d, l, mine : Tree!SeenTasks(d, l, mine) = SeenTasks(d, l, mine)
  BY DEF Tree!SeenTasks, SeenTasks
<1>2. \A d, l, mine, gs : Tree!SeenGroups(d, l, mine, gs) = SeenGroups(d, l, mine, gs)
  BY <1>1, SameGroupRow DEF Tree!SeenGroups, SeenGroups
<1>3. \A row, task, c : Tree!CycleDone(row, task, c) = CycleDone(row, task, c)
  BY DEF Tree!CycleDone, CycleDone, Tree!IsDone, IsDone, Tree!DoneStatus, DoneStatus,
         Tree!TasksIn, TasksIn, Tree!Live, Live
<1>4. \A l, gs, group : Tree!SeenCycles(l, gs, group) = SeenCycles(l, gs, group)
  BY <1>3, SameCycleRow DEF Tree!SeenCycles, SeenCycles, Tree!GroupsOf, GroupsOf
<1>5. \A l, cycle : Tree!SeenWorkflows(l, cycle) = SeenWorkflows(l, cycle)
  BY SameRows DEF Tree!SeenWorkflows, SeenWorkflows
<1>6. \A d, l, gs, group, cycle : Tree!Outcomes(d, l, gs, group, cycle) = Outcomes(d, l, gs, group, cycle)
  BY <1>5, SameRows DEF Tree!Outcomes, Outcomes
<1> QED
  BY <1>2, <1>4, <1>6 DEF Tree!Propagations, Propagations

LEMMA SameBuildCycles ==
  \A d, cs : Tree!BuildCycles(d, cs) = BuildCycles(d, cs)
<1> SUFFICES ASSUME NEW d, NEW cs PROVE Tree!BuildCycles(d, cs) = BuildCycles(d, cs)
  OBVIOUS
<1> DEFINE task == [t \in Tasks |->
                      IF t \in Template /\ CycleOf[GroupOf[t]] \in cs
                      THEN [status |-> "Assigned", finished |-> FALSE, verified |-> FALSE]
                      ELSE d.task[t]]
           groups(row(_)) == [g \in Groups |->
                                IF CycleOf[g] \in cs
                                THEN [row(g) EXCEPT !.status = "Assigned"] ELSE d.group[g]]
           group == groups(LAMBDA g : GroupRow(task, g))
           treeGroup == groups(LAMBDA g : Tree!GroupRow(task, g))
           built(gr, row(_)) ==
             [task |-> task, group |-> gr, wf |-> d.wf,
              cycle |-> [c \in Cycles |->
                           IF c \in cs
                           THEN [status |-> "Assigned", start |-> row(c).start, end |-> row(c).end,
                                 due |-> row(c).due, current |-> TRUE]
                           ELSE d.cycle[c]]]
<1>1. BuildCycles(d, cs) = built(group, LAMBDA c : CycleRow(group, c))
  BY DEF BuildCycles
<1>2. Tree!BuildCycles(d, cs) = built(treeGroup, LAMBDA c : Tree!CycleRow(treeGroup, c))
  BY DEF Tree!BuildCycles
<1>3. treeGroup = group
  BY SameGroupRow
<1>4. \A c : Tree!CycleRow(treeGroup, c) = CycleRow(group, c)
  <2> HIDE DEF group, treeGroup
  <2> QED
    BY <1>3, SameCycleRow
<1> HIDE DEF task, group, treeGroup
<1> QED
  BY <1>1, <1>2, <1>3, <1>4

IsSingleton(S) == \E x : S = {x}

\* A propagation from one group moves one cycle at most, so that it has one
\* outcome: the one that Settled chooses is the one that will be committed.
LEMMA OnePropagation ==
  ASSUME NEW d \in TreeType, NEW mine, NEW g \in Groups
  PROVE  IsSingleton(Propagations(d, d, mine, {g}))
<1> DEFINE group == SeenGroups(d, d, mine, {g})
           cycle == SeenCycles(d, {g}, group)
           moved == {c \in Cycles : cycle[c].status # d.cycle[c].status}
           after(first) == \E c \in Cycles : IF c = first THEN cycle[c].current
                                                         ELSE d.cycle[c].current
           outcome(wf) ==
             [task  |-> d.task,
              group |-> [h \in Groups |-> IF h \in {g} THEN Flush(d.group[h], d.group[h], group[h])
                                                       ELSE d.group[h]],
              cycle |-> [c \in Cycles |-> Flush(d.cycle[c], d.cycle[c], cycle[c])],
              wf    |-> Flush(d.wf, d.wf, wf)]
<1>1. moved \subseteq {CycleOf[g]}
  <2> SUFFICES ASSUME NEW c \in Cycles, c # CycleOf[g] PROVE cycle[c] = d.cycle[c]
    OBVIOUS
  <2>1. {g} \cap GroupsOf(c) = {}
    BY DEF GroupsOf
  <2> QED
    BY <2>1 DEF SeenCycles
<1>2. SeenWorkflows(d, cycle) = IF moved = {} THEN {d.wf}
                                ELSE {WorkflowState(d.wf, after(first)) : first \in moved}
  BY DEF SeenWorkflows
<1>3. Propagations(d, d, mine, {g}) = {outcome(wf) : wf \in SeenWorkflows(d, cycle)}
  <2>1. Propagations(d, d, mine, {g}) = Outcomes(d, d, {g}, group, cycle)
    BY DEF Propagations
  <2> HIDE DEF group, cycle
  <2>2. Outcomes(d, d, {g}, group, cycle) = {outcome(wf) : wf \in SeenWorkflows(d, cycle)}
    BY DEF Outcomes
  <2> QED
    BY <2>1, <2>2
<1> HIDE DEF cycle, moved, after, outcome
<1> USE DEF IsSingleton
<1>4. CASE moved = {}
  <2>1. Propagations(d, d, mine, {g}) = {outcome(d.wf)}
    BY <1>2, <1>3, <1>4
  <2> QED
    BY <2>1
<1>5. CASE moved # {}
  <2>1. moved = {CycleOf[g]}
    BY <1>1, <1>5
  <2>2. SeenWorkflows(d, cycle) = {WorkflowState(d.wf, after(CycleOf[g]))}
    BY <1>2, <1>5, <2>1
  <2>3. Propagations(d, d, mine, {g}) = {outcome(WorkflowState(d.wf, after(CycleOf[g])))}
    BY <1>3, <2>2
  <2> QED
    BY <2>3
<1> QED
  BY <1>4, <1>5

\* What a worker that is alone with the database knows: the rows it loaded are
\* the committed ones, what it was let in for still holds, and its task is there.
Undisturbed ==
  \A r \in Requests :
    /\ pc[r] \in {"loaded", "reloaded"} => snap[r] = db
    /\ pc[r] = "loaded" => Acceptable(op[r])
    /\ pc[r] \in {"written", "reloaded"} /\ op[r].kind # "delete" => ~RowsGone(r)

LEMMA SettledIs ==
  ASSUME NEW r, Requests = {r}, TypeOK, TypeOK'
  PROVE  /\ pc[r] \notin {"written", "reloaded"} => Settled = db
         /\ pc[r] \in {"written", "reloaded"} =>
              Propagations(db, db, {op[r].task}, {GroupOf[op[r].task]}) = {Settled}
         /\ pc'[r] \notin {"written", "reloaded"} => Settled' = db'
         /\ pc'[r] \in {"written", "reloaded"} =>
              Propagations(db', db', {op'[r].task}, {GroupOf[op'[r].task]}) = {Settled'}
<1>1. ASSUME NEW S, IsSingleton(S) PROVE S = {CHOOSE x \in S : TRUE}
  BY <1>1 DEF IsSingleton
<1>2. ASSUME pc[r] \in {"written", "reloaded"}
      PROVE  Propagations(db, db, {op[r].task}, {GroupOf[op[r].task]}) = {Settled}
  <2> DEFINE S == Propagations(db, db, {op[r].task}, {GroupOf[op[r].task]})
  <2>1. op[r].task \in Tasks /\ db \in TreeType
    BY <1>2, OpFields DEF TypeOK
  <2>2. IsSingleton(S)
    <3>1. GroupOf[op[r].task] \in Groups
      BY <2>1, TreeShape
    <3> QED
      BY <2>1, <3>1, OnePropagation
  <2>3. r = CHOOSE q \in Requests : pc[q] \in {"written", "reloaded"}
    BY <1>2
  <2>4. Settled = CHOOSE x \in S : TRUE
    BY <1>2, <2>3, Zenon DEF Settled
  <2> HIDE DEF S
  <2>5. S = {Settled}
    BY <1>1, <2>2, <2>4
  <2> QED
    BY <2>5 DEF S
<1>3. ASSUME pc'[r] \in {"written", "reloaded"}
      PROVE  Propagations(db', db', {op'[r].task}, {GroupOf[op'[r].task]}) = {Settled'}
  <2> DEFINE S == Propagations(db', db', {op'[r].task}, {GroupOf[op'[r].task]})
  <2>1. op'[r].task \in Tasks /\ db' \in TreeType
    BY <1>3, OpFields DEF TypeOK
  <2>2. IsSingleton(S)
    <3>1. GroupOf[op'[r].task] \in Groups
      BY <2>1, TreeShape
    <3> QED
      BY <2>1, <3>1, OnePropagation
  <2>3. r = CHOOSE q \in Requests : pc'[q] \in {"written", "reloaded"}
    BY <1>3
  <2>4. Settled' = CHOOSE x \in S : TRUE
    BY <1>3, <2>3, Zenon DEF Settled
  <2> HIDE DEF S
  <2>5. S = {Settled'}
    BY <1>1, <2>2, <2>4
  <2> QED
    BY <2>5 DEF S
<1>4. pc[r] \notin {"written", "reloaded"} => Settled = db
  BY DEF Settled
<1>5. pc'[r] \notin {"written", "reloaded"} => Settled' = db'
  BY DEF Settled
<1> QED
  BY <1>2, <1>3, <1>4, <1>5

\* A task saved over the row that was loaded gets the new status' own row.
LEMMA SaveTaskAlone ==
  ASSUME NEW row \in TaskRowType, NEW s \in TaskStatuses
  PROVE  /\ SaveTask(row, row, s) = WithStatus(row, s)
         /\ SaveTask(row, row, s).status = s
<1>1. WithStatus(row, s) \in TaskRowType
  BY DEF WithStatus, TaskRowType
<1>2. Flush(row, row, WithStatus(row, s)) = WithStatus(row, s)
  BY <1>1 DEF Flush, TaskRowType
<1>3. SaveTask(row, row, s) = [WithStatus(row, s) EXCEPT
                                 !.verified = @ \/ (s = "Verified" /\ s # row.status)]
  BY <1>2 DEF SaveTask
<1>4. CASE s = row.status
  <2>1. WithStatus(row, s) = row
    BY <1>4 DEF WithStatus
  <2>2. [row EXCEPT !.verified = @ \/ (s = "Verified" /\ s # row.status)] = row
    BY <1>4 DEF TaskRowType
  <2> QED
    BY <1>3, <1>4, <2>1, <2>2
<1>5. CASE s # row.status
  <2> DEFINE new == WithStatus(row, s)
             saved == SaveTask(row, row, s)
  <2>1. new.status = s /\ (new.verified <=> s = "Verified")
    BY <1>5 DEF WithStatus
  <2>2. new \in TaskRowType /\ saved \in TaskRowType
    BY <1>1, SaveTaskType
  <2>3. saved = [new EXCEPT !.verified = new.verified \/ (s = "Verified" /\ s # row.status)]
    BY <1>3
  <2> HIDE DEF new, saved
  <2>4. saved.status = new.status /\ saved.finished = new.finished
    BY <2>2, <2>3 DEF TaskRowType
  <2>5. saved.verified <=> new.verified
    BY <2>1, <2>2, <2>3 DEF TaskRowType
  <2>6. saved = new
    BY <2>2, <2>4, <2>5 DEF TaskRowType
  <2> QED
    BY <2>1, <2>6 DEF new, saved
<1> QED
  BY <1>4, <1>5

LEMMA UndisturbedStep ==
  ASSUME Serial, TypeOK, Undisturbed, [Next]_vars
  PROVE  Undisturbed'
<1>1. CASE UNCHANGED vars
  BY <1>1 DEF vars, Undisturbed, RowsGone, Acceptable, BulkMine
<1>2. ASSUME NEW r \in Requests, Begin(r) \/ Work(r) PROVE Undisturbed'
  <2> DEFINE k == op[r].kind
             s == op[r].status
             t == op[r].task
  <2>0. Requests = {r}
    BY DEF Serial, OneWorker
  <2>1. ASSUME Finish(r) PROVE Undisturbed'
    BY <2>0, <2>1 DEF Finish, Undisturbed, TypeOK
  <2>2. CASE Begin(r)
    <3>1. PICK o \in Ops : Acceptable(o) /\ op' = [op EXCEPT ![r] = o]
      BY <2>2 DEF Begin
    <3>2. op'[r] = o /\ pc'[r] = "loaded" /\ snap'[r] = db /\ db' = db
      BY <2>2, <3>1 DEF Begin, TypeOK
    <3>3. Acceptable(o)'
      BY <3>1, <3>2 DEF Acceptable, BulkMine
    <3> QED
      BY <2>0, <3>2, <3>3 DEF Undisturbed, Acceptable, BulkMine
  <2>3. ASSUME k \in {"put", "post", "delete"}, pc[r] = "loaded", NEW row, WriteTask(r, row),
               k # "delete" => row.status # "Deleted"
        PROVE  Undisturbed'
    <3>1. t \in Tasks /\ op' = op /\ pc'[r] = "written"
      BY <2>3, OpFields DEF WriteTask, TypeOK
    <3>2. db'.task[t] = row
      BY <2>3, <3>1 DEF WriteTask, TypeOK, TreeType
    <3>3. TasksOfOp(op[r]) = {t}
      BY <2>3 DEF TasksOfOp
    <3>4. k # "delete" => ~RowsGone(r)'
      BY <2>3, <3>1, <3>2, <3>3 DEF RowsGone, TasksOfOp
    <3> QED
      BY <2>0, <3>1, <3>4 DEF Undisturbed
  <2>4. CASE CommitPut(r)
    <3>1. op[r] \in Ops /\ s \in TaskStatuses /\ t \in Tasks /\ k = "put" /\ pc[r] = "loaded"
      BY <2>4, OpFields DEF CommitPut, Loaded, TypeOK
    <3>2. snap[r] = db /\ db.task[t] \in TaskRowType
      BY <3>1, TreeFields DEF Undisturbed, TypeOK
    <3>3. SaveTask(db.task[t], db.task[t], s).status = s
      BY <3>1, <3>2, SaveTaskAlone
    <3>4. s # "Deleted"
      BY <3>1 DEF TaskStatuses, ParentStatuses
    <3> QED
      BY <2>3, <2>4, <3>1, <3>2, <3>3, <3>4 DEF CommitPut
  <2>5. CASE CommitPost(r)
    <3>1. op[r] \in Ops /\ s \in TaskStatuses /\ t \in Tasks /\ k = "post" /\ pc[r] = "loaded"
      BY <2>5, OpFields DEF CommitPost, Loaded, TypeOK
    <3>2. db.task[t] \in TaskRowType
      BY <3>1, TreeFields DEF TypeOK
    <3>3. SaveTask(db.task[t], db.task[t], s).status = s
      BY <3>1, <3>2, SaveTaskAlone
    <3>4. s # "Deleted"
      BY <3>1 DEF TaskStatuses, ParentStatuses
    <3> QED
      BY <2>3, <2>5, <3>1, <3>3, <3>4 DEF CommitPost
  <2>6. CASE CommitDelete(r)
    BY <2>3, <2>6 DEF CommitDelete, Loaded
  <2>7. CASE Reload(r)
    <3>1. db' = db /\ op' = op /\ pc'[r] = "reloaded" /\ snap'[r] = db
      BY <2>7 DEF Reload, TypeOK
    <3>2. k # "delete" => ~RowsGone(r)
      BY <2>7 DEF Reload
    <3> QED
      BY <2>0, <3>1, <3>2 DEF Undisturbed, RowsGone
  <2>8. CASE \/ PropagateTask(r) \/ Rollback(r) \/ Die(r)
             \/ CommitPatch(r) \/ CommitEntry(r) \/ CommitGroup(r) \/ CommitCycle(r)
             \/ CommitRecurrences(r) \/ CommitActivate(r) \/ CommitStart(r) \/ CommitCron(r)
    <3>1. Finish(r)
      BY <2>8 DEF PropagateTask, Rollback, Die, CommitPatch, CommitEntry, CommitGroup,
                  CommitCycle, CommitRecurrences, CommitActivate, CommitStart, CommitCron
    <3> QED
      BY <2>1, <3>1
  <2> QED
    BY <1>2, <2>2, <2>4, <2>5, <2>6, <2>7, <2>8 DEF Work, Commit
<1> QED
  BY <1>1, <1>2 DEF Next

\* Each commit of a task's row is one request of CycleTree: the propagation the
\* worker still owes is the one the request makes.
LEMMA TaskRequest ==
  ASSUME Serial, TypeOK, TypeOK', Undisturbed, NEW r \in Requests,
         CommitPut(r) \/ CommitPost(r) \/ CommitDelete(r)
  PROVE  Tree!Next
<1> DEFINE k == op[r].kind
           s == op[r].status
           t == op[r].task
           Sent(row) == [db EXCEPT !.task[t] = row]
<1>1. /\ op[r] \in Ops /\ k \in {"put", "post", "delete"} /\ k \in Kinds
      /\ t \in Tasks /\ pc[r] = "loaded"
      /\ k # "delete" => s \in Tree!TaskStatuses
  BY OpFields, SameRows DEF CommitPut, CommitPost, CommitDelete, Loaded, TypeOK
<1>2. snap[r] = db /\ Acceptable(op[r])
  BY <1>1 DEF Undisturbed
<1>3. Settled = db
  BY <1>1, SettledIs DEF Serial, OneWorker
<1>4. ASSUME NEW row, WriteTask(r, row)
      PROVE  Settled' \in Tree!Propagated([Settled EXCEPT !.task[t] = row], t)
  <2>1. op' = op /\ pc'[r] = "written" /\ db' = Sent(row)
    BY <1>4, <1>1 DEF WriteTask, TypeOK
  <2>2. Propagations(db', db', {op'[r].task}, {GroupOf[op'[r].task]}) = {Settled'}
    BY <2>1, SettledIs DEF Serial, OneWorker
  <2> HIDE DEF Sent
  <2>3. Settled' \in Propagations(Sent(row), Sent(row), {t}, {GroupOf[t]})
    BY <2>1, <2>2
  <2>4. Settled' \in Tree!Propagations(Sent(row), Sent(row), {t}, {GroupOf[t]})
    BY <2>3, SamePropagations
  <2> QED
    BY <1>3, <2>4 DEF Tree!Propagated, Sent
<1>5. CASE CommitPut(r)
  <2>1. Live(db.task[t]) /\ k = "put" /\ WriteTask(r, SaveTask(db.task[t], db.task[t], s))
    BY <1>2, <1>5 DEF Acceptable, CommitPut, Loaded
  <2>2. Tree!PutTask(t, s)
    BY <1>1, <1>3, <1>4, <2>1, SameRows, SameSaveTask DEF Tree!PutTask
  <2> QED
    BY <1>1, <2>1, <2>2 DEF Tree!Next
<1>6. CASE CommitPost(r)
  <2>1. /\ k = "post" /\ t \notin Template /\ db.task[t].status = "Absent"
        /\ db.cycle[CycleOf[GroupOf[t]]].status # "Absent"
        /\ WriteTask(r, SaveTask(db.task[t], db.task[t], s))
    BY <1>2, <1>6 DEF Acceptable, CommitPost, Loaded
  <2>2. Tree!PostTask(t, s)
    BY <1>1, <1>3, <1>4, <2>1, SameSaveTask DEF Tree!PostTask, Tree!Exists
  <2> QED
    BY <1>1, <2>1, <2>2 DEF Tree!Next
<1>7. CASE CommitDelete(r)
  <2>1. /\ k = "delete" /\ Live(db.task[t])
        /\ WriteTask(r, [status |-> "Deleted", finished |-> FALSE, verified |-> FALSE])
    BY <1>2, <1>7 DEF Acceptable, CommitDelete, Loaded
  <2>2. Tree!DeleteTask(t)
    BY <1>1, <1>3, <1>4, <2>1, SameRows DEF Tree!DeleteTask
  <2> QED
    BY <1>1, <2>2 DEF Tree!Next
<1> QED
  BY <1>5, <1>6, <1>7

\* A bulk move is one request of CycleTree.
LEMMA PatchRequest ==
  ASSUME Serial, TypeOK, TypeOK', Undisturbed, NEW r \in Requests, CommitPatch(r)
  PROVE  Tree!Next
<1> DEFINE o == op[r]
           mine == BulkMine(db, o)
           moved == [db EXCEPT !.task = [t \in Tasks |->
                       IF t \in mine THEN SaveTask(db.task[t], db.task[t], o.status)
                       ELSE db.task[t]]]
<1>1. o \in Ops /\ o.kind = "patch" /\ "patch" \in Kinds /\ pc[r] = "loaded"
  BY OpFields DEF CommitPatch, Loaded, TypeOK
<1>2. o.tasks \in SUBSET Tasks /\ o.status \in Tree!TaskStatuses
  BY <1>1, OpFields, SameRows
<1>3. snap[r] = db /\ mine # {}
  BY <1>1 DEF Undisturbed, Acceptable
<1>4. Settled = db /\ Settled' = db'
  <2>1. pc'[r] = "idle"
    BY DEF CommitPatch, Finish, TypeOK
  <2> QED
    BY <1>1, <2>1, SettledIs DEF Serial, OneWorker
<1>5. db' \in Propagations(moved, moved, mine, {GroupOf[t] : t \in mine})
  BY <1>3 DEF CommitPatch
<1>6. db' \in Tree!Propagations(moved, moved, mine, {GroupOf[t] : t \in mine})
  <2> HIDE DEF moved, mine
  <2> QED
    BY <1>5, SamePropagations
<1>7. mine = {t \in o.tasks : db.task[t].status \in Tree!BulkSources(o.status)}
  BY SameRows DEF BulkMine
<1>8. moved = [db EXCEPT !.task = [t \in Tasks |->
                 IF t \in mine THEN Tree!SaveTask(db.task[t], db.task[t], o.status)
                 ELSE db.task[t]]]
  BY SameSaveTask
<1> HIDE DEF moved, mine
<1>9. Tree!PatchTasks(o.tasks, o.status)
  BY <1>1, <1>3, <1>4, <1>6, <1>7, <1>8 DEF Tree!PatchTasks
<1> QED
  BY <1>2, <1>9 DEF Tree!Next

\* The requests of one transaction, each of them one request of CycleTree.
LEMMA SingleRequest ==
  ASSUME Serial, TypeOK, TypeOK', Undisturbed, NEW r \in Requests,
         \/ CommitEntry(r) \/ CommitGroup(r) \/ CommitCycle(r) \/ CommitRecurrences(r)
         \/ CommitActivate(r) \/ CommitStart(r) \/ CommitCron(r)
  PROVE  Tree!Next
<1> DEFINE o == op[r]
<1>1. o \in Ops /\ o.kind \in Kinds /\ pc[r] = "loaded" /\ Finish(r)
  BY OpFields DEF CommitEntry, CommitGroup, CommitCycle, CommitRecurrences, CommitActivate,
                  CommitStart, CommitCron, Loaded, TypeOK
<1>2. snap[r] = db /\ Acceptable(o)
  BY <1>1 DEF Undisturbed
<1>3. Settled = db /\ Settled' = db'
  <2>1. pc'[r] = "idle"
    BY <1>1 DEF Finish, TypeOK
  <2> QED
    BY <1>1, <2>1, SettledIs DEF Serial, OneWorker
<1>4. db \in TreeType
  BY DEF TypeOK
<1>5. CASE CommitEntry(r)
  <2>1. o.kind = "entry" /\ o.task \in Tasks /\ Live(db.task[o.task]) /\ "Declined" \in TaskStatuses
    BY <1>1, <1>2, <1>5, OpFields DEF CommitEntry, Loaded, Acceptable
  <2>2. db' = [db EXCEPT !.task[o.task].status = "Declined"]
    BY <1>2, <1>5 DEF CommitEntry
  <2>3. Tree!PostDecliningEntry(o.task)
    BY <1>1, <1>3, <2>1, <2>2, SameRows DEF Tree!PostDecliningEntry
  <2> QED
    BY <2>1, <2>3 DEF Tree!Next
<1>6. CASE CommitGroup(r)
  <2> DEFINE g == o.group
             s == o.status
             kids == {t \in TasksOf(g) : Live(db.task[t])}
             behind == {t \in kids : Rank[s] > Rank[db.task[t].status]}
  <2>1. /\ o.kind = "group" /\ g \in Groups /\ s \in ParentStatuses /\ s \in TaskStatuses
        /\ db.group[g].status \notin {"Absent", s}
    BY <1>1, <1>2, <1>6, OpFields DEF CommitGroup, Loaded, Acceptable
  <2>2. \A t \in kids : "Deprecated" \notin {s, db.task[t].status}
    BY <1>2, <1>6 DEF CommitGroup
  <2>3. db' = [db EXCEPT !.group[g].status = s,
                         !.task = [t \in Tasks |->
                           IF t \in behind THEN SaveTask(db.task[t], db.task[t], s) ELSE db.task[t]]]
    BY <1>2, <1>6 DEF CommitGroup
  <2>4. ~Tree!PutGroupFails(db, g, s)
    BY <2>2, SameRows DEF Tree!PutGroupFails
  <2>5. [t \in Tasks |-> IF t \in behind THEN SaveTask(db.task[t], db.task[t], s) ELSE db.task[t]]
        = Tree!ChildrenOfPut(db, g, s)
    <3>1. \A t \in Tasks : t \in behind <=> /\ t \in Tree!TasksOf(g) /\ Tree!Live(db.task[t])
                                            /\ Tree!Rank[s] > Tree!Rank[db.task[t].status]
      BY SameRows
    <3>2. \A t \in Tasks : SaveTask(db.task[t], db.task[t], s) = Tree!WithStatus(db.task[t], s)
      BY <1>4, <2>1, TreeFields, SaveTaskAlone, SameRows
    <3> HIDE DEF behind
    <3> QED
      BY <3>1, <3>2 DEF Tree!ChildrenOfPut
  <2> HIDE DEF behind
  <2>6. db' = [db EXCEPT !.group[g].status = s, !.task = Tree!ChildrenOfPut(db, g, s)]
    BY <2>3, <2>5
  <2>7. Tree!PutGroup(g, s)
    BY <1>1, <1>3, <2>1, <2>4, <2>6 DEF Tree!PutGroup
  <2> QED
    BY <2>1, <2>7, SameRows DEF Tree!Next
<1>7. ASSUME NEW wf \in WorkflowRowType PROVE Flush(db.wf, db.wf, wf) = wf
  <2>1. db.wf \in WorkflowRowType
    BY <1>4, TreeFields
  <2> QED
    BY <2>1 DEF Flush, WorkflowRowType
<1>8. CASE CommitCycle(r)
  <2> DEFINE c == o.cycle
             any == \E x \in Cycles : IF x = c THEN o.current ELSE db.cycle[x].current
  <2>1. /\ o.kind = "cycle" /\ c \in Cycles /\ o.current \in BOOLEAN
        /\ db.cycle[c].status # "Absent" /\ db.cycle[c].current # o.current
    BY <1>1, <1>2, <1>8, OpFields DEF CommitCycle, Loaded, Acceptable
  <2>2. db' = [db EXCEPT !.cycle[c].current = o.current,
                         !.wf = Flush(db.wf, db.wf, WorkflowState(db.wf, any))]
    BY <1>2, <1>8 DEF CommitCycle
  <2> HIDE DEF any
  <2>3. Flush(db.wf, db.wf, WorkflowState(db.wf, any)) = Tree!WorkflowState(db.wf, any)
    BY <1>4, <1>7, TreeFields, WorkflowStateType, SameRows
  <2>4. db' = [db EXCEPT !.cycle[c].current = o.current, !.wf = Tree!WorkflowState(db.wf, any)]
    BY <2>2, <2>3
  <2>5. Tree!PutCycle(c, o.current)
    BY <1>1, <1>3, <2>1, <2>4 DEF Tree!PutCycle, Tree!Exists, any
  <2> QED
    BY <2>1, <2>5 DEF Tree!Next
<1>9. CASE CommitRecurrences(r)
  <2> DEFINE any == \E x \in Cycles : db.cycle[x].current
             put == [db.wf EXCEPT !.recurrences = o.on]
  <2>1. o.kind = "recur" /\ o.on \in BOOLEAN /\ db.wf.recurrences # o.on
    BY <1>1, <1>2, <1>9, OpFields DEF CommitRecurrences, Loaded, Acceptable
  <2>2. db' = [db EXCEPT !.wf = Flush(db.wf, db.wf, IF o.on THEN put ELSE WorkflowState(put, any))]
    BY <1>2, <1>9 DEF CommitRecurrences
  <2>3. put \in WorkflowRowType
    BY <1>4, <2>1, TreeFields DEF WorkflowRowType
  <2> HIDE DEF any, put
  <2>4. Flush(db.wf, db.wf, IF o.on THEN put ELSE WorkflowState(put, any))
        = IF o.on THEN put ELSE Tree!WorkflowState(put, any)
    BY <1>7, <2>3, WorkflowStateType, SameRows
  <2>5. db' = [db EXCEPT !.wf = IF o.on THEN put ELSE Tree!WorkflowState(put, any)]
    BY <2>2, <2>4
  <2>6. Tree!PutRecurrences(o.on)
    BY <1>1, <1>3, <2>1, <2>5 DEF Tree!PutRecurrences, any, put
  <2> QED
    BY <2>1, <2>6 DEF Tree!Next
<1>10. CASE CommitStart(r)
  <2>1. o.kind = "start" /\ o.cycles \in SUBSET Cycles /\ o.cycles # {} /\ Buildable(db, o.cycles)
    BY <1>1, <1>2, <1>10, OpFields DEF CommitStart, Loaded, Acceptable
  <2> DEFINE active == [db.wf EXCEPT !.status = "Active"]
             built == BuildCycles(db, o.cycles)
  <2>2. db' = [built EXCEPT !.wf = Flush(db.wf, db.wf, active)]
    BY <1>2, <1>10 DEF CommitStart
  <2>3. active \in WorkflowRowType
    BY <1>4, TreeFields DEF WorkflowRowType
  <2>4. built \in TreeType /\ built.wf = db.wf
    BY <1>4, <2>1, BuildCyclesType, BuildCyclesTasks
  <2>5. [built EXCEPT !.wf = active] = [built EXCEPT !.wf.status = "Active"]
    BY <2>4
  <2> HIDE DEF active, built
  <2>6. db' = [built EXCEPT !.wf.status = "Active"]
    BY <1>7, <2>2, <2>3, <2>5
  <2>7. built = Tree!BuildCycles(db, o.cycles)
    BY SameBuildCycles DEF built
  <2>8. Tree!StartCycles(o.cycles)
    BY <1>1, <1>3, <2>1, <2>6, <2>7, SameRows DEF Tree!StartCycles
  <2> QED
    BY <2>1, <2>8 DEF Tree!Next
<1>11. CASE CommitCron(r)
  <2>1. /\ o.kind = "cron" /\ o.cycles \in SUBSET Cycles /\ o.cycles # {} /\ Buildable(db, o.cycles)
        /\ db.wf.recurrences /\ db.wf.status # "Draft"
    BY <1>1, <1>2, <1>11, OpFields DEF CommitCron, Loaded, Acceptable
  <2>2. db' = Tree!BuildCycles(db, o.cycles)
    BY <1>11, SameBuildCycles DEF CommitCron
  <2>3. Tree!CronStartCycles(o.cycles)
    BY <1>1, <1>3, <2>1, <2>2, SameRows DEF Tree!CronStartCycles
  <2> QED
    BY <2>1, <2>3 DEF Tree!Next
<1>12. CASE CommitActivate(r)
  <2>1. /\ o.kind = "activate" /\ o.cycles \in SUBSET Cycles /\ o.on \in BOOLEAN
        /\ db.wf.status = "Draft" /\ (Archives(db, o.on) \/ Groups # {})
        /\ (Archives(db, o.on) => o.cycles = {}) /\ Buildable(db, o.cycles)
    BY <1>1, <1>2, <1>12, OpFields DEF CommitActivate, Loaded, Acceptable
  <2> DEFINE active == Activated(db, o.on)
             built == BuildCycles(db, o.cycles)
  <2>2. db' = [built EXCEPT !.wf = Flush(db.wf, db.wf, active)]
    BY <1>2, <1>12 DEF CommitActivate
  <2>3. active \in WorkflowRowType
    BY <1>4, <2>1, ActivatedType
  <2>4. active = Tree!Activated(db, o.on) /\ built = Tree!BuildCycles(db, o.cycles)
    BY SameRows, SameBuildCycles
  <2> HIDE DEF active, built
  <2>5. db' = [Tree!BuildCycles(db, o.cycles) EXCEPT !.wf = Tree!Activated(db, o.on)]
    BY <1>7, <2>2, <2>3, <2>4
  <2>6. Tree!ActivateWorkflow(o.on, o.cycles)
    BY <1>1, <1>3, <2>1, <2>5, SameRows DEF Tree!ActivateWorkflow
  <2> QED
    BY <2>1, <2>6 DEF Tree!Next
<1> QED
  BY <1>5, <1>6, <1>8, <1>9, <1>10, <1>11, <1>12

\* Every other step is a stutter: what is settled stays, and the propagation
\* commits what was counted as done with the task's own commit.
LEMMA SettledStays ==
  ASSUME Serial, TypeOK, TypeOK', Undisturbed, NEW r \in Requests,
         Begin(r) \/ Reload(r) \/ PropagateTask(r) \/ Rollback(r) \/ Die(r)
  PROVE  Settled' = Settled
<1>0. Requests = {r}
  BY DEF Serial, OneWorker
<1>1. CASE Begin(r)
  <2>1. pc[r] = "idle" /\ pc'[r] = "loaded" /\ db' = db
    BY <1>1 DEF Begin, TypeOK
  <2> QED
    BY <1>0, <2>1, SettledIs
<1>2. CASE Rollback(r)
  <2>1. pc[r] = "loaded" /\ pc'[r] = "idle" /\ db' = db
    BY <1>2 DEF Rollback, Finish, TypeOK
  <2> QED
    BY <1>0, <2>1, SettledIs
<1>3. CASE Reload(r)
  <2>1. pc[r] = "written" /\ pc'[r] = "reloaded" /\ db' = db /\ op' = op
    BY <1>3 DEF Reload, TypeOK
  <2>2. {Settled} = {Settled'}
    BY <1>0, <2>1, SettledIs
  <2> QED
    BY <2>2
<1>4. CASE PropagateTask(r)
  <2>1. pc[r] = "reloaded" /\ pc'[r] = "idle" /\ snap[r] = db
    BY <1>4 DEF PropagateTask, Finish, TypeOK, Undisturbed
  <2>2. db' \in Propagations(db, db, {op[r].task}, {GroupOf[op[r].task]})
    BY <1>4, <2>1 DEF PropagateTask
  <2>3. Propagations(db, db, {op[r].task}, {GroupOf[op[r].task]}) = {Settled} /\ Settled' = db'
    BY <1>0, <2>1, SettledIs
  <2> QED
    BY <2>2, <2>3
<1>5. CASE Die(r)
  BY <1>5 DEF Die, Undisturbed, Serial
<1> QED
  BY <1>1, <1>2, <1>3, <1>4, <1>5

\* Requests that do not overlap do what CycleTree says: every step of a single
\* worker is a request of CycleTree, or changes nothing that is settled.
THEOREM ImplementsTreeCorrect ==
  ASSUME Serial
  PROVE  Spec => ImplementsTree
<1>1. Init => Tree!Init /\ Undisturbed
  <2> SUFFICES ASSUME Init PROVE Tree!Init /\ Undisturbed
    OBVIOUS
  <2>1. Settled = db
    BY DEF Init, Settled
  <2> QED
    BY <2>1, SameRows DEF Init, Tree!Init, Undisturbed
<1>2. TypeOK /\ Undisturbed /\ [Next]_vars => Undisturbed'
  BY UndisturbedStep
<1>3. TypeOK /\ TypeOK' /\ Undisturbed /\ [Next]_vars => [Tree!Next]_(Tree!vars)
  <2> SUFFICES ASSUME TypeOK, TypeOK', Undisturbed, [Next]_vars
               PROVE  Tree!Next \/ Settled' = Settled
    BY DEF Tree!vars
  <2>1. CASE UNCHANGED vars
    BY <2>1 DEF vars, Settled
  <2>2. ASSUME NEW r \in Requests, Begin(r) \/ Work(r) PROVE Tree!Next \/ Settled' = Settled
    BY <2>2, TaskRequest, PatchRequest, SingleRequest, SettledStays DEF Work, Commit
  <2> QED
    BY <2>1, <2>2 DEF Next
<1> QED
  BY <1>1, <1>2, <1>3, TypeCorrect, PTL DEF Spec, ImplementsTree, Tree!Spec
=============================================================================
