---------------------------- MODULE CycleTreeProofs ----------------------------
(****************************************************************************)
(* Proofs about CycleTree: with requests one at a time, groups follow their    *)
(* tasks, cycles follow their groups, a cycle is done exactly when its tasks    *)
(* are and current when it is not, it spans their dates, and the workflow is    *)
(* Active exactly with a current cycle, whatever the shape of the tree.         *)
(****************************************************************************)
EXTENDS CycleTree, CycleRowsLemmas

----------------------------------------------------------------------------
(* A propagation over the rows it has loaded *)

LEMMA SerialPropagation ==
  ASSUME NEW d \in TreeType, NEW mine, NEW gs, NEW x \in Propagations(d, d, mine, gs)
  PROVE  /\ x \in TreeType
         /\ x.task = d.task
         /\ \A g \in Groups : x.group[g] = IF g \in gs THEN GroupRow(d.task, g) ELSE d.group[g]
         /\ x.cycle = SeenCycles(d, gs, x.group)
<1> DEFINE group == SeenGroups(d, d, mine, gs)
           cycle == SeenCycles(d, gs, group)
<1>1. x \in TreeType /\ x.task = d.task
  BY PropagationType, PropagationTasks
<1>2. SeenTasks(d, d, mine) = d.task
  <2>1. d.task = [t \in Tasks |-> d.task[t]]
    BY TreeFields
  <2>2. SeenTasks(d, d, mine) = [t \in Tasks |-> d.task[t]]
    BY DEF SeenTasks
  <2> QED
    BY <2>1, <2>2
<1>3. ASSUME NEW g \in Groups
      PROVE  x.group[g] = IF g \in gs THEN GroupRow(d.task, g) ELSE d.group[g]
  <2>1. GroupRow(d.task, g) \in GroupRowType /\ d.group[g] \in GroupRowType
    BY GroupRowTyped, TreeFields
  <2>2. x.group[g] = IF g \in gs THEN Flush(d.group[g], d.group[g], GroupRow(d.task, g))
                     ELSE d.group[g]
    BY <1>2, PropagationGroups
  <2> QED
    BY <2>1, <2>2, FlushLoadedGroup
<1>4. x.group = group
  <2>1. \A g \in Groups : group[g] = x.group[g]
    BY <1>2, <1>3 DEF SeenGroups
  <2>2. group \in [Groups -> GroupRowType] /\ x.group \in [Groups -> GroupRowType]
    BY <1>1, SeenType, TreeFields
  <2> QED
    BY <2>1, <2>2
<1>5. x.cycle = cycle
  <2>1. cycle \in [Cycles -> CycleRowType] /\ d.cycle \in [Cycles -> CycleRowType]
    BY SeenType, SeenCyclesType, TreeFields
  <2>2. x.cycle = [c \in Cycles |-> Flush(d.cycle[c], d.cycle[c], cycle[c])]
    BY DEF Propagations, Outcomes
  <2> HIDE DEF cycle
  <2>3. \A c \in Cycles : x.cycle[c] = cycle[c]
    BY <2>1, <2>2, FlushLoadedCycle
  <2>4. x.cycle \in [Cycles -> CycleRowType]
    BY <1>1, TreeFields
  <2> QED
    BY <2>1, <2>3, <2>4
<1> QED
  BY <1>1, <1>3, <1>4, <1>5

----------------------------------------------------------------------------
(* Effects *)

\* The tree a propagating request propagates from: the rows it found, but for
\* the tasks `mine` it has written.
Wrote(d, mine) ==
  /\ d \in TreeType
  /\ d.group = db.group /\ d.cycle = db.cycle /\ d.wf = db.wf
  /\ \A t \in Tasks \ mine : d.task[t] = db.task[t]
  /\ mine \subseteq Tasks
  /\ \A t \in mine : Exists(CycleOf[GroupOf[t]])

Propagating(mine) ==
  \E d : Wrote(d, mine) /\ db' \in Propagations(d, d, mine, {GroupOf[u] : u \in mine})

\* A request about tasks writes some and propagates from their groups; only a
\* PATCH is about more than one.
LEMMA WritesAndPropagates ==
  ASSUME TypeOK
  PROVE  /\ \A t \in Tasks, s \in TaskStatuses : PutTask(t, s) \/ PostTask(t, s) => Propagating({t})
         /\ \A t \in Tasks : DeleteTask(t) => Propagating({t})
         /\ \A ts \in SUBSET Tasks, s \in TaskStatuses : PatchTasks(ts, s) => \E mine : Propagating(mine)
<1>0. db \in TreeType
  BY DEF TypeOK
<1>1. ASSUME NEW t \in Tasks, NEW row \in TaskRowType, Exists(CycleOf[GroupOf[t]]),
             db' \in Propagated([db EXCEPT !.task[t] = row], t)
      PROVE  Propagating({t})
  <2> DEFINE d == [db EXCEPT !.task[t] = row]
  <2>1. Wrote(d, {t})
    BY <1>0, <1>1 DEF TreeType, Wrote
  <2>2. {GroupOf[t]} = {GroupOf[u] : u \in {t}}
    OBVIOUS
  <2>3. db' \in Propagations(d, d, {t}, {GroupOf[t]})
    BY <1>1 DEF Propagated
  <2> HIDE DEF d
  <2> QED
    BY <2>1, <2>2, <2>3 DEF Propagating
<1>2. \A t \in Tasks : db.task[t] \in TaskRowType
  BY <1>0, TreeFields
<1>3. ASSUME NEW t \in Tasks, NEW s \in TaskStatuses, PutTask(t, s) \/ PostTask(t, s)
      PROVE  Propagating({t})
  <2>1. SaveTask(db.task[t], db.task[t], s) \in TaskRowType
    BY <1>2, SaveTaskType
  <2>2. Exists(CycleOf[GroupOf[t]])
    BY <1>3 DEF PutTask, PostTask, TypeOK
  <2>3. db' \in Propagated([db EXCEPT !.task[t] = SaveTask(db.task[t], db.task[t], s)], t)
    BY <1>3 DEF PutTask, PostTask
  <2> QED
    BY <1>1, <2>1, <2>2, <2>3
<1>4. ASSUME NEW t \in Tasks, DeleteTask(t)
      PROVE  Propagating({t})
  <2>1. [status |-> "Deleted", finished |-> FALSE, verified |-> FALSE] \in TaskRowType
    BY DEF TaskRowType
  <2>2. Exists(CycleOf[GroupOf[t]])
    BY <1>4 DEF DeleteTask, TypeOK
  <2> QED
    BY <1>1, <1>4, <2>1, <2>2 DEF DeleteTask
<1>5. ASSUME NEW ts \in SUBSET Tasks, NEW s \in TaskStatuses, PatchTasks(ts, s)
      PROVE  \E mine : Propagating(mine)
  <2> DEFINE mine == {t \in ts : db.task[t].status \in BulkSources(s)}
             d == [db EXCEPT !.task = [t \in Tasks |-> IF t \in mine
                                                      THEN SaveTask(db.task[t], db.task[t], s)
                                                      ELSE db.task[t]]]
  <2>1. \A t \in Tasks : SaveTask(db.task[t], db.task[t], s) \in TaskRowType
    BY <1>2, SaveTaskType
  <2>2. [t \in Tasks |-> IF t \in mine THEN SaveTask(db.task[t], db.task[t], s)
                        ELSE db.task[t]] \in [Tasks -> TaskRowType]
    BY <1>2, <2>1
  <2>3. \A t \in mine : Live(db.task[t])
    <3>1. BulkSources(s) \subseteq {"Assigned", "InProgress", "Finished", "Verified", "Declined"}
      BY DEF BulkSources
    <3> QED
      BY <3>1 DEF Live
  <2>4. \A t \in mine : t \in Tasks /\ Exists(CycleOf[GroupOf[t]])
    BY <2>3 DEF TypeOK
  <2>5. Wrote(d, mine)
    <3>1. d \in TreeType /\ d.group = db.group /\ d.cycle = db.cycle /\ d.wf = db.wf
      BY <1>0, <2>2 DEF TreeType
    <3>2. \A t \in Tasks \ mine : d.task[t] = db.task[t]
      BY <1>0, <2>2 DEF TreeType
    <3> QED
      BY <2>4, <3>1, <3>2 DEF Wrote
  <2>6. db' \in Propagations(d, d, mine, {GroupOf[t] : t \in mine})
    BY <1>5 DEF PatchTasks
  <2> HIDE DEF d, mine
  <2>7. Propagating(mine)
    BY <2>5, <2>6 DEF Propagating
  <2> QED
    BY <2>7
<1> QED
  BY <1>3, <1>4, <1>5

\* What a propagating request leaves, in terms of the rows it found.
LEMMA Propagates ==
  ASSUME TypeOK, NEW d, NEW mine, Wrote(d, mine),
         db' \in Propagations(d, d, mine, {GroupOf[u] : u \in mine})
  PROVE  LET gs == {GroupOf[u] : u \in mine} IN
         /\ db' \in TreeType
         /\ \A t \in Tasks : db'.task[t] = d.task[t]
         /\ \A g \in gs : g \in Groups /\ Exists(CycleOf[g]) /\ db'.group[g] = GroupRow(db'.task, g)
         /\ \A g \in Groups : g \notin gs =>
              /\ db'.group[g] = db.group[g]
              /\ \A t \in TasksOf(g) : db'.task[t] = db.task[t]
         /\ db'.cycle = SeenCycles(d, gs, db'.group)
         /\ \A g \in Groups : db'.group[g].status = "Absent" <=> db.group[g].status = "Absent"
         /\ \A c \in Cycles : Exists(c)' <=> Exists(c)
<1> DEFINE gs == {GroupOf[u] : u \in mine}
<1>1. d \in TreeType /\ d.group = db.group /\ d.cycle = db.cycle
  BY DEF Wrote
<1>2. \A g \in gs : g \in Groups /\ Exists(CycleOf[g]) /\ db.group[g].status # "Absent"
  BY TreeShape DEF Wrote, TypeOK
<1>3. \A g \in Groups : g \notin gs => \A t \in TasksOf(g) : d.task[t] = db.task[t]
  BY DEF Wrote, TasksOf
<1> HIDE DEF gs
<1>4. /\ db' \in TreeType
      /\ db'.task = d.task
      /\ \A g \in Groups : db'.group[g] = IF g \in gs THEN GroupRow(d.task, g) ELSE d.group[g]
      /\ db'.cycle = SeenCycles(d, gs, db'.group)
  BY <1>1, SerialPropagation DEF gs
<1>5. \A g \in gs : /\ g \in Groups /\ d.group[g].status # "Absent"
                   /\ d.cycle[CycleOf[g]].status # "Absent"
  BY <1>1, <1>2 DEF Exists
<1>6. /\ \A g \in Groups : db'.group[g].status = "Absent" <=> d.group[g].status = "Absent"
      /\ \A c \in Cycles : db'.cycle[c].status = "Absent" <=> d.cycle[c].status = "Absent"
  BY <1>1, <1>5, PropagationInserts DEF gs
<1> QED
  BY <1>1, <1>2, <1>3, <1>4, <1>6 DEF gs, Exists

\* The requests that build cycles, perhaps none.
Building(cs) ==
  \/ StartCycles(cs) \/ CronStartCycles(cs)
  \/ \E on \in BOOLEAN : ActivateWorkflow(on, cs)

\* What new cycles add, and that they leave the other cycles alone.
LEMMA Builds ==
  ASSUME TypeOK, NEW cs \in SUBSET Cycles, Building(cs)
  PROVE  /\ db' \in TreeType
         /\ \A c \in cs : ~Exists(c) /\ CanBuild(c)
         /\ db'.task = BuildCycles(db, cs).task
         /\ db'.group = BuildCycles(db, cs).group
         /\ db'.cycle = BuildCycles(db, cs).cycle
         /\ \A t \in Tasks : CycleOf[GroupOf[t]] \notin cs => db'.task[t] = db.task[t]
         /\ \A g \in Groups : IF CycleOf[g] \in cs THEN db'.group[g].status = "Assigned"
                                                   ELSE db'.group[g] = db.group[g]
         /\ \A o \in Cycles : o \notin cs => db'.cycle[o] = db.cycle[o]
         /\ \A c \in cs : db'.cycle[c].status = "Assigned" /\ db'.cycle[c].current
<1> DEFINE x == BuildCycles(db, cs)
<1>0. db \in TreeType
  BY DEF TypeOK
<1>1. x \in TreeType
  BY <1>0, BuildCyclesType
<1>2. x.task = [t \in Tasks |->
                  IF t \in Template /\ CycleOf[GroupOf[t]] \in cs
                  THEN [status |-> "Assigned", finished |-> FALSE, verified |-> FALSE]
                  ELSE db.task[t]]
  BY <1>0, BuildCyclesTasks
<1>3. \A g \in Groups : x.group[g] = IF CycleOf[g] \in cs
                                   THEN [GroupRow(x.task, g) EXCEPT !.status = "Assigned"]
                                   ELSE db.group[g]
  BY <1>0, BuildCyclesGroups
<1>7. \A g \in Groups : CycleOf[g] \in cs => x.group[g].status = "Assigned"
  BY <1>0, BuildCyclesGroups
<1>8. /\ \A o \in Cycles : o \notin cs => x.cycle[o] = db.cycle[o]
      /\ \A c \in Cycles : c \in cs => x.cycle[c].status = "Assigned" /\ x.cycle[c].current = TRUE
  BY <1>0, BuildCyclesCycles
<1>4. /\ db' \in TreeType /\ Buildable(db, cs)
      /\ db'.task = x.task /\ db'.group = x.group /\ db'.cycle = x.cycle
  <2> HIDE DEF x
  <2>1. CASE StartCycles(cs)
    <3>1. db' = [x EXCEPT !.wf.status = "Active"] /\ Buildable(db, cs)
      BY <2>1 DEF StartCycles, x
    <3> QED
      BY <1>1, <3>1 DEF TreeType, WorkflowRowType
  <2>2. CASE CronStartCycles(cs)
    BY <1>1, <2>2 DEF CronStartCycles, x
  <2>3. CASE \E on \in BOOLEAN : ActivateWorkflow(on, cs)
    <3>1. PICK on \in BOOLEAN : ActivateWorkflow(on, cs)
      BY <2>3
    <3>2. db' = [x EXCEPT !.wf = Activated(db, on)] /\ Buildable(db, cs)
      BY <3>1 DEF ActivateWorkflow, x
    <3>3. Activated(db, on) \in WorkflowRowType
      BY <1>0, ActivatedType
    <3> QED
      BY <1>1, <3>2, <3>3 DEF TreeType
  <2> QED
    BY <2>1, <2>2, <2>3 DEF Building
<1>5. \A c \in cs : ~Exists(c) /\ CanBuild(c)
  BY <1>4 DEF Buildable, Exists
<1>6. \A t \in Tasks : CycleOf[GroupOf[t]] \notin cs => x.task[t] = db.task[t]
  BY <1>2
<1> HIDE DEF x
<1> QED
  BY <1>3, <1>4, <1>5, <1>6, <1>7, <1>8 DEF x

\* A PUT of a group does not touch the cycles, and no task appears.
LEMMA GroupRequests ==
  ASSUME TypeOK, NEW g \in Groups, NEW s \in ParentStatuses, PutGroup(g, s)
  PROVE  /\ db' \in TreeType /\ db'.cycle = db.cycle
         /\ \A u \in Tasks : Live(db'.task[u]) => Live(db.task[u])
         /\ \A h \in Groups : db'.group[h].status = "Absent" <=> db.group[h].status = "Absent"
<1>0. db \in TreeType
  BY DEF TypeOK
<1> DEFINE task == ChildrenOfPut(db, g, s)
<1>1. \A t \in Tasks : WithStatus(db.task[t], s) \in TaskRowType
  BY <1>0, TreeFields DEF WithStatus, TaskRowType, TaskStatuses
<1>2. task \in [Tasks -> TaskRowType]
  BY <1>0, <1>1, TreeFields DEF ChildrenOfPut
<1>3. \A u \in Tasks : Live(task[u]) => Live(db.task[u])
  BY DEF ChildrenOfPut
<1>4. db' = [db EXCEPT !.group[g].status = s, !.task = task]
  BY DEF PutGroup
<1> HIDE DEF task
<1>5. [db.group EXCEPT ![g].status = s] \in [Groups -> GroupRowType]
  BY <1>0, TreeFields DEF GroupRowType
<1>6. db' \in TreeType /\ db'.cycle = db.cycle /\ db'.task = task
      /\ db'.group = [db.group EXCEPT ![g].status = s]
  BY <1>0, <1>2, <1>4, <1>5 DEF TreeType
<1>7. s # "Absent" /\ db.group[g].status # "Absent"
  BY DEF PutGroup, ParentStatuses
<1>8. \A h \in Groups : db'.group[h].status = "Absent" <=> db.group[h].status = "Absent"
  BY <1>0, <1>6, <1>7, TreeFields DEF GroupRowType
<1> QED
  BY <1>3, <1>6, <1>8

\* What the remaining requests leave alone.
LEMMA OtherRequests ==
  ASSUME TypeOK
  PROVE  /\ \A t \in Tasks : PostDecliningEntry(t) =>
              db' \in TreeType /\ db'.group = db.group /\ db'.cycle = db.cycle
              /\ \A u \in Tasks : Live(db'.task[u]) => Live(db.task[u])
         /\ \A c \in Cycles, b \in BOOLEAN : PutCycle(c, b) =>
              db' \in TreeType /\ db'.task = db.task /\ db'.group = db.group
              /\ \A o \in Cycles : /\ db'.cycle[o].status = db.cycle[o].status
                                   /\ db'.cycle[o].start = db.cycle[o].start
                                   /\ db'.cycle[o].end = db.cycle[o].end
                                   /\ db'.cycle[o].due = db.cycle[o].due
         /\ \A b \in BOOLEAN : PutRecurrences(b) =>
              db' \in TreeType /\ db'.task = db.task /\ db'.group = db.group /\ db'.cycle = db.cycle
<1>0. db \in TreeType
  BY DEF TypeOK
<1>1. ASSUME NEW t \in Tasks, PostDecliningEntry(t)
      PROVE  /\ db' \in TreeType /\ db'.group = db.group /\ db'.cycle = db.cycle
             /\ \A u \in Tasks : Live(db'.task[u]) => Live(db.task[u])
  <2>1. [db.task[t] EXCEPT !.status = "Declined"] \in TaskRowType
    BY <1>0, <1>1, TreeFields DEF PostDecliningEntry, TaskRowType
  <2>2. db' = [db EXCEPT !.task[t] = [db.task[t] EXCEPT !.status = "Declined"]]
    BY <1>1 DEF PostDecliningEntry
  <2>3. db' \in TreeType /\ db'.group = db.group /\ db'.cycle = db.cycle
    BY <1>0, <2>1, <2>2 DEF TreeType
  <2>4. \A u \in Tasks : u # t => db'.task[u] = db.task[u]
    BY <1>0, <2>2 DEF TreeType
  <2> QED
    BY <1>1, <2>3, <2>4 DEF PostDecliningEntry
<1>3. ASSUME NEW c \in Cycles, NEW b \in BOOLEAN, PutCycle(c, b)
      PROVE  /\ db' \in TreeType /\ db'.task = db.task /\ db'.group = db.group
             /\ \A o \in Cycles : /\ db'.cycle[o].status = db.cycle[o].status
                                  /\ db'.cycle[o].start = db.cycle[o].start
                                  /\ db'.cycle[o].end = db.cycle[o].end
                                  /\ db'.cycle[o].due = db.cycle[o].due
  <2> DEFINE wf == WorkflowState(db.wf, \E o \in Cycles : IF o = c THEN b ELSE db.cycle[o].current)
             row == [db.cycle[c] EXCEPT !.current = b]
  <2>1. wf \in WorkflowRowType
    BY <1>0, WorkflowStateType, TreeFields
  <2>2. db' = [db EXCEPT !.cycle[c] = row, !.wf = wf]
    BY <1>3 DEF PutCycle
  <2>3. db.cycle[c] \in CycleRowType /\ db.cycle \in [Cycles -> CycleRowType]
    BY <1>0, TreeFields
  <2>4. row \in CycleRowType
    BY <2>3 DEF CycleRowType
  <2>5. /\ row.status = db.cycle[c].status /\ row.start = db.cycle[c].start
        /\ row.end = db.cycle[c].end /\ row.due = db.cycle[c].due
    BY <2>3 DEF CycleRowType
  <2> HIDE DEF wf, row
  <2>6. [db.cycle EXCEPT ![c] = row] \in [Cycles -> CycleRowType]
    BY <2>3, <2>4
  <2>7. /\ db' \in TreeType /\ db'.task = db.task /\ db'.group = db.group
        /\ db'.cycle = [db.cycle EXCEPT ![c] = row]
    BY <1>0, <2>1, <2>2, <2>6 DEF TreeType
  <2> QED
    BY <2>3, <2>5, <2>7
<1>4. ASSUME NEW b \in BOOLEAN, PutRecurrences(b)
      PROVE  db' \in TreeType /\ db'.task = db.task /\ db'.group = db.group /\ db'.cycle = db.cycle
  <2> DEFINE wf == [db.wf EXCEPT !.recurrences = b]
             new == IF b THEN wf ELSE WorkflowState(wf, \E o \in Cycles : db.cycle[o].current)
  <2>1. wf \in WorkflowRowType
    BY <1>0, TreeFields DEF WorkflowRowType
  <2>2. new \in WorkflowRowType
    BY <2>1, WorkflowStateType
  <2>3. db' = [db EXCEPT !.wf = new]
    BY <1>4 DEF PutRecurrences
  <2> HIDE DEF new
  <2> QED
    BY <1>0, <2>2, <2>3 DEF TreeType
<1> QED
  BY <1>1, <1>3, <1>4

----------------------------------------------------------------------------
(* Type correctness *)

\* Every row keeps its columns' types, groups come with their cycles, and every
\* live task is in an existing cycle, whatever requests are sent.
THEOREM TypeCorrect == Spec => []TypeOK
<1>1. Init => TypeOK
  <2> SUFFICES ASSUME NEW b \in BOOLEAN, db = EmptyTree(b) PROVE TypeOK
    BY DEF Init
  <2>1. db \in TreeType
    BY DEF EmptyTree, TreeType, TaskRowType, GroupRowType, CycleRowType, WorkflowRowType, NoDay
  <2>2. /\ \A t \in Tasks : ~Live(db.task[t])
        /\ \A g \in Groups : db.group[g].status = "Absent" /\ ~Exists(CycleOf[g])
    BY TreeShape DEF EmptyTree, Live, Exists
  <2> QED
    BY <2>1, <2>2 DEF TypeOK
<1>2. TypeOK /\ [Next]_vars => TypeOK'
  <2> SUFFICES ASSUME TypeOK, [Next]_vars PROVE TypeOK'
    OBVIOUS
  <2>0. (\A t \in Tasks : CycleOf[GroupOf[t]] \in Cycles) /\ (\A g \in Groups : CycleOf[g] \in Cycles)
    BY TreeShape
  <2>1. CASE UNCHANGED vars
    BY <2>1 DEF vars, TypeOK, Exists
  <2>2. ASSUME NEW mine, Propagating(mine) PROVE TypeOK'
    <3>0. PICK d : /\ Wrote(d, mine)
                   /\ db' \in Propagations(d, d, mine, {GroupOf[u] : u \in mine})
      BY <2>2 DEF Propagating
    <3> DEFINE gs == {GroupOf[u] : u \in mine}
    <3>1. /\ db' \in TreeType
          /\ \A t \in Tasks : db'.task[t] = d.task[t]
          /\ \A g \in Groups : db'.group[g].status = "Absent" <=> db.group[g].status = "Absent"
          /\ \A c \in Cycles : Exists(c)' <=> Exists(c)
      BY <3>0, Propagates
    <3>2. \A t \in Tasks : Live(db'.task[t]) => Exists(CycleOf[GroupOf[t]])
      BY <3>0, <3>1 DEF Wrote, TypeOK
    <3> QED
      BY <2>0, <3>1, <3>2 DEF TypeOK
  <2>3. ASSUME NEW cs \in SUBSET Cycles, Building(cs) PROVE TypeOK'
    <3>1. db' \in TreeType
      BY <2>3, Builds
    <3>2. /\ \A t \in Tasks : CycleOf[GroupOf[t]] \notin cs => db'.task[t] = db.task[t]
          /\ \A g \in Groups : IF CycleOf[g] \in cs THEN db'.group[g].status = "Assigned"
                                                    ELSE db'.group[g] = db.group[g]
          /\ \A o \in Cycles : o \notin cs => db'.cycle[o] = db.cycle[o]
          /\ \A c \in cs : db'.cycle[c].status = "Assigned"
      BY <2>3, Builds
    <3>3. \A o \in Cycles : Exists(o)' <=> Exists(o) \/ o \in cs
      BY <3>2 DEF Exists
    <3>4. \A g \in Groups : db'.group[g].status = "Absent" <=> ~(CycleOf[g] \in cs \/ Exists(CycleOf[g]))
      BY <3>2 DEF TypeOK
    <3>5. \A t \in Tasks : Live(db'.task[t]) => CycleOf[GroupOf[t]] \in cs \/ Exists(CycleOf[GroupOf[t]])
      BY <3>2 DEF TypeOK
    <3> QED
      BY <2>0, <3>1, <3>3, <3>4, <3>5 DEF TypeOK
  <2>4. ASSUME db' \in TreeType,
               \A g \in Groups : db'.group[g].status = "Absent" <=> db.group[g].status = "Absent",
               \A c \in Cycles : db'.cycle[c].status = db.cycle[c].status,
               \A t \in Tasks : Live(db'.task[t]) => Live(db.task[t])
        PROVE  TypeOK'
    <3>1. \A c \in Cycles : Exists(c)' <=> Exists(c)
      BY <2>4 DEF Exists
    <3>2. \A g \in Groups : db'.group[g].status = "Absent" <=> ~Exists(CycleOf[g])
      BY <2>4 DEF TypeOK
    <3>3. \A t \in Tasks : Live(db'.task[t]) => Exists(CycleOf[GroupOf[t]])
      BY <2>4 DEF TypeOK
    <3> QED
      BY <2>0, <2>4, <3>1, <3>2, <3>3 DEF TypeOK
  <2>5. ASSUME NEW t \in Tasks, PostDecliningEntry(t) PROVE TypeOK'
    BY <2>4, <2>5, OtherRequests
  <2>6. ASSUME NEW g \in Groups, NEW s \in ParentStatuses, PutGroup(g, s) PROVE TypeOK'
    <3>1. /\ db' \in TreeType /\ db'.cycle = db.cycle
          /\ \A u \in Tasks : Live(db'.task[u]) => Live(db.task[u])
          /\ \A h \in Groups : db'.group[h].status = "Absent" <=> db.group[h].status = "Absent"
      BY <2>6, GroupRequests
    <3> QED
      BY <2>4, <3>1
  <2>7. ASSUME NEW c \in Cycles, NEW b \in BOOLEAN, PutCycle(c, b) PROVE TypeOK'
    BY <2>4, <2>7, OtherRequests
  <2>8. ASSUME NEW b \in BOOLEAN, PutRecurrences(b) PROVE TypeOK'
    BY <2>4, <2>8, OtherRequests
  <2> QED
    BY <2>1, <2>2, <2>3, <2>5, <2>6, <2>7, <2>8, WritesAndPropagates DEF Next, Building
<1> QED
  BY <1>1, <1>2, PTL DEF Spec

----------------------------------------------------------------------------
(* Groups follow tasks *)

\* Without declining entries and without PUTs of groups, a group of an existing
\* cycle always is what update_cycle_task_tree computes from its tasks, if no task
\* group of the workflow is empty: no order of requests leaves a stale column.
THEOREM GroupsFollowTasksCorrect ==
  ASSUME Kinds \cap {"entry", "group"} = {}, GroupsPopulated
  PROVE  Spec => []GroupsFollowTasks
<1>1. Init => GroupsFollowTasks
  BY TreeShape DEF Init, EmptyTree, GroupsFollowTasks, Exists
<1>2. TypeOK /\ GroupsFollowTasks /\ [Next]_vars => GroupsFollowTasks'
  <2> SUFFICES ASSUME TypeOK, GroupsFollowTasks, [Next]_vars,
                      NEW g \in Groups, Exists(CycleOf[g])'
               PROVE  db'.group[g] = GroupRow(db'.task, g)
    BY DEF GroupsFollowTasks
  <2>0. CycleOf[g] \in Cycles
    BY TreeShape
  <2>1. ASSUME db'.group[g] = db.group[g], \A t \in TasksOf(g) : db'.task[t] = db.task[t],
               Exists(CycleOf[g])
        PROVE  db'.group[g] = GroupRow(db'.task, g)
    <3>1. GroupRow(db'.task, g) = GroupRow(db.task, g)
      BY <2>1, GroupRowLocal
    <3> QED
      BY <2>1, <3>1 DEF GroupsFollowTasks
  <2>2. CASE UNCHANGED vars
    BY <2>1, <2>2 DEF vars, Exists
  <2>3. ASSUME NEW mine, Propagating(mine)
        PROVE  db'.group[g] = GroupRow(db'.task, g)
    <3>0. PICK d : /\ Wrote(d, mine)
                   /\ db' \in Propagations(d, d, mine, {GroupOf[u] : u \in mine})
      BY <2>3 DEF Propagating
    <3> DEFINE gs == {GroupOf[u] : u \in mine}
    <3>1. /\ \A h \in gs : db'.group[h] = GroupRow(db'.task, h)
          /\ \A h \in Groups : h \notin gs => /\ db'.group[h] = db.group[h]
                                            /\ \A t \in TasksOf(h) : db'.task[t] = db.task[t]
          /\ \A c \in Cycles : Exists(c)' <=> Exists(c)
      BY <3>0, Propagates
    <3> QED
      BY <2>0, <2>1, <3>1
  <2>4. ASSUME NEW cs \in SUBSET Cycles, Building(cs)
        PROVE  db'.group[g] = GroupRow(db'.task, g)
    <3>0. db \in TreeType
      BY DEF TypeOK
    <3>1. /\ \A c \in cs : ~Exists(c)
          /\ db'.task = BuildCycles(db, cs).task /\ db'.group = BuildCycles(db, cs).group
      BY <2>4, Builds
    <3>2. /\ \A t \in Tasks : CycleOf[GroupOf[t]] \notin cs => db'.task[t] = db.task[t]
          /\ CycleOf[g] \notin cs => db'.group[g] = db.group[g]
          /\ \A o \in Cycles : o \notin cs => db'.cycle[o] = db.cycle[o]
      BY <2>4, Builds
    <3>3. \A t \in TasksOf(g) : t \in Tasks /\ GroupOf[t] = g
      BY DEF TasksOf
    <3>4. CASE CycleOf[g] \in cs
      <4>2. \A t \in TasksOf(g) : ~Live(db.task[t])
        BY <3>1, <3>3, <3>4 DEF TypeOK
      <4>3. TasksOf(g) \cap Template # {}
        BY DEF GroupsPopulated
      <4>4. BuildCycles(db, cs).group[g] = GroupRow(BuildCycles(db, cs).task, g)
        BY <3>0, <3>4, <4>2, <4>3, BuildCyclesFresh
      <4> QED
        BY <3>1, <4>4
    <3>5. CASE CycleOf[g] \notin cs
      <4>1. Exists(CycleOf[g])
        BY <2>0, <3>2, <3>5 DEF Exists
      <4> QED
        BY <2>1, <3>2, <3>3, <3>5, <4>1
    <3> QED
      BY <3>4, <3>5
  <2>5. ASSUME NEW c \in Cycles, NEW b \in BOOLEAN, PutCycle(c, b)
        PROVE  db'.group[g] = GroupRow(db'.task, g)
    <3>1. /\ db'.task = db.task /\ db'.group = db.group
          /\ \A o \in Cycles : db'.cycle[o].status = db.cycle[o].status
      BY <2>5, OtherRequests
    <3> QED
      BY <2>0, <2>1, <3>1 DEF Exists
  <2>6. ASSUME NEW b \in BOOLEAN, PutRecurrences(b)
        PROVE  db'.group[g] = GroupRow(db'.task, g)
    <3>1. db'.task = db.task /\ db'.group = db.group /\ db'.cycle = db.cycle
      BY <2>6, OtherRequests
    <3> QED
      BY <2>1, <3>1 DEF Exists
  <2>7. /\ \A t \in Tasks : ~PostDecliningEntry(t)
        /\ \A h \in Groups, s \in ParentStatuses : ~PutGroup(h, s)
    BY DEF PostDecliningEntry, PutGroup
  <2> QED
    BY <2>2, <2>3, <2>4, <2>5, <2>6, <2>7, WritesAndPropagates DEF Next, Building
<1> QED
  BY <1>1, <1>2, TypeCorrect, PTL DEF Spec

----------------------------------------------------------------------------
(* Cycles follow groups *)

Follows(cycle, group, c) ==
  LET row == CycleRow(group, c) IN
  /\ cycle[c].status = row.status /\ cycle[c].start = row.start
  /\ cycle[c].end = row.end /\ cycle[c].due = row.due

LEMMA AllAssigned == AggregateStatus({"Assigned"}) = "Assigned"
<1> DEFINE counted == {"Assigned"} \ {"Deprecated"}
<1>1. counted = {"Assigned"} /\ counted \cap {"Assigned", "InProgress", "Declined"} # {}
  OBVIOUS
<1> QED
  BY <1>1 DEF AggregateStatus

\* A new cycle is Assigned as its groups are, even when some have no task.
LEMMA BuiltCycleFollows ==
  ASSUME NEW d \in TreeType, NEW cs \in SUBSET Cycles, NEW c \in Cycles, c \in cs, CanBuild(c)
  PROVE  Follows(BuildCycles(d, cs).cycle, BuildCycles(d, cs).group, c)
<1> DEFINE x == BuildCycles(d, cs)
           row == CycleRow(x.group, c)
<1>1. PICK t \in Tasks : GroupOf[t] \in GroupsOf(c)
  BY TreeShape DEF CanBuild, TasksIn, GroupsOf
<1>2. ASSUME NEW g \in Groups, CycleOf[g] = c
      PROVE  x.group[g].status = "Assigned"
  BY <1>2, BuildCyclesGroups
<1>3. {x.group[g].status : g \in GroupsOf(c)} = {"Assigned"}
  BY <1>1, <1>2 DEF GroupsOf
<1>4. CycleRow(x.group, c).status = "Assigned"
  BY <1>3, AllAssigned DEF CycleRow
<1>5. /\ x.cycle[c].status = "Assigned" /\ x.cycle[c].start = row.start
      /\ x.cycle[c].end = row.end /\ x.cycle[c].due = row.due
  BY BuildCyclesCycles
<1> QED
  BY <1>4, <1>5 DEF Follows, x

\* Without PUTs of groups, every cycle always is what
\* update_cycle_task_group_parent_state computes from its groups, although a
\* request recomputes only the cycles that have a changed group among its own.
THEOREM CyclesFollowGroupsCorrect ==
  ASSUME "group" \notin Kinds
  PROVE  Spec => []CyclesFollowGroups
<1>1. Init => CyclesFollowGroups
  BY DEF Init, EmptyTree, CyclesFollowGroups, Exists
<1>2. TypeOK /\ CyclesFollowGroups /\ [Next]_vars => CyclesFollowGroups'
  <2> SUFFICES ASSUME TypeOK, CyclesFollowGroups, [Next]_vars, NEW c \in Cycles, Exists(c)'
               PROVE  Follows(db'.cycle, db'.group, c)
    BY DEF CyclesFollowGroups, Follows
  <2>1. ASSUME Exists(c), \A g \in GroupsOf(c) : db'.group[g] = db.group[g],
               /\ db'.cycle[c].status = db.cycle[c].status
               /\ db'.cycle[c].start = db.cycle[c].start
               /\ db'.cycle[c].end = db.cycle[c].end
               /\ db'.cycle[c].due = db.cycle[c].due
        PROVE  Follows(db'.cycle, db'.group, c)
    <3>1. CycleRow(db'.group, c) = CycleRow(db.group, c)
      BY <2>1, CycleRowLocal
    <3>2. Follows(db.cycle, db.group, c)
      BY <2>1 DEF CyclesFollowGroups, Follows
    <3> QED
      BY <2>1, <3>1, <3>2 DEF Follows
  <2>2. CASE UNCHANGED vars
    BY <2>1, <2>2 DEF vars, Exists
  <2>3. ASSUME NEW mine, Propagating(mine)
        PROVE  Follows(db'.cycle, db'.group, c)
    <3>0. PICK d : /\ Wrote(d, mine)
                   /\ db' \in Propagations(d, d, mine, {GroupOf[u] : u \in mine})
      BY <2>3 DEF Propagating
    <3> DEFINE gs == {GroupOf[u] : u \in mine}
    <3>1. /\ \A g \in Groups : g \notin gs => db'.group[g] = db.group[g]
          /\ \A o \in Cycles : Exists(o)' <=> Exists(o)
      BY <3>0, Propagates
    <3>2. db'.cycle = SeenCycles(d, gs, db'.group)
      BY <3>0, Propagates
    <3>3. d.group = db.group /\ d.cycle = db.cycle
      BY <3>0 DEF Wrote
    <3> HIDE DEF gs
    <3>4. CASE \A g \in gs \cap GroupsOf(c) : db'.group[g] = d.group[g]
      <4>1. db'.cycle[c] = db.cycle[c]
        BY <3>2, <3>3, <3>4 DEF SeenCycles
      <4>2. \A g \in GroupsOf(c) : db'.group[g] = db.group[g]
        BY <3>1, <3>3, <3>4 DEF GroupsOf
      <4> QED
        BY <2>1, <3>1, <4>1, <4>2
    <3>5. CASE ~\A g \in gs \cap GroupsOf(c) : db'.group[g] = d.group[g]
      <4> DEFINE row == CycleRow(db'.group, c)
                 b == IF row.status = d.cycle[c].status THEN d.cycle[c].current
                      ELSE ~CycleDone(row, d.task, c)
      <4>1. db'.cycle[c] = [status |-> row.status, start |-> row.start, end |-> row.end,
                            due |-> row.due, current |-> b]
        BY <3>2, <3>5 DEF SeenCycles
      <4> HIDE DEF row, b
      <4>2. /\ db'.cycle[c].status = row.status /\ db'.cycle[c].start = row.start
            /\ db'.cycle[c].end = row.end /\ db'.cycle[c].due = row.due
        BY <4>1
      <4> QED
        BY <4>2 DEF Follows, row
    <3> QED
      BY <3>4, <3>5
  <2>4. ASSUME NEW cs \in SUBSET Cycles, Building(cs)
        PROVE  Follows(db'.cycle, db'.group, c)
    <3>1. /\ \A o \in cs : CanBuild(o)
          /\ db'.group = BuildCycles(db, cs).group /\ db'.cycle = BuildCycles(db, cs).cycle
      BY <2>4, Builds
    <3>2. /\ \A g \in Groups : CycleOf[g] \notin cs => db'.group[g] = db.group[g]
          /\ c \notin cs => db'.cycle[c] = db.cycle[c]
      BY <2>4, Builds
    <3>3. CASE c \in cs
      <4>1. db \in TreeType
        BY DEF TypeOK
      <4>2. Follows(BuildCycles(db, cs).cycle, BuildCycles(db, cs).group, c)
        BY <3>1, <3>3, <4>1, BuiltCycleFollows
      <4> QED
        BY <3>1, <4>2
    <3>4. CASE c \notin cs
      <4>1. \A g \in GroupsOf(c) : db'.group[g] = db.group[g]
        BY <3>2, <3>4 DEF GroupsOf
      <4>2. Exists(c)
        BY <3>2, <3>4 DEF Exists
      <4> QED
        BY <2>1, <3>2, <3>4, <4>1, <4>2
    <3> QED
      BY <3>3, <3>4
  <2>5. ASSUME NEW t \in Tasks, PostDecliningEntry(t)
        PROVE  Follows(db'.cycle, db'.group, c)
    <3>1. db'.group = db.group /\ db'.cycle = db.cycle
      BY <2>5, OtherRequests
    <3> QED
      BY <2>1, <3>1 DEF Exists
  <2>6. ASSUME NEW o \in Cycles, NEW b \in BOOLEAN, PutCycle(o, b)
        PROVE  Follows(db'.cycle, db'.group, c)
    <3>1. /\ db'.group = db.group
          /\ db'.cycle[c].status = db.cycle[c].status /\ db'.cycle[c].start = db.cycle[c].start
          /\ db'.cycle[c].end = db.cycle[c].end /\ db'.cycle[c].due = db.cycle[c].due
      BY <2>6, OtherRequests
    <3> QED
      BY <2>1, <3>1 DEF Exists
  <2>7. ASSUME NEW b \in BOOLEAN, PutRecurrences(b)
        PROVE  Follows(db'.cycle, db'.group, c)
    <3>1. db'.group = db.group /\ db'.cycle = db.cycle
      BY <2>7, OtherRequests
    <3> QED
      BY <2>1, <3>1 DEF Exists
  <2>8. \A g \in Groups, s \in ParentStatuses : ~PutGroup(g, s)
    BY DEF PutGroup
  <2> QED
    BY <2>2, <2>3, <2>4, <2>5, <2>6, <2>7, <2>8, WritesAndPropagates DEF Next, Building
<1> QED
  BY <1>1, <1>2, TypeCorrect, PTL DEF Spec

----------------------------------------------------------------------------
(* A cycle is done exactly when its tasks are *)

\* What an aggregate status says about the statuses it stands for.
LEMMA AggregateDone ==
  ASSUME NEW S, S \subseteq TaskStatuses
  PROVE  /\ AggregateStatus(S) = DoneStatus <=>
              S \ {"Deprecated"} # {} /\ \A s \in S \ {"Deprecated"} : s = DoneStatus
         /\ AggregateStatus(S) = "Deprecated" <=> S \ {"Deprecated"} = {}
<1> DEFINE counted == S \ {"Deprecated"}
           waiting == counted \cap {"Assigned", "InProgress", "Declined"}
<1>1. CASE counted = {}
  BY <1>1 DEF AggregateStatus, DoneStatus
<1>2. CASE counted # {} /\ waiting # {}
  <2>1. PICK s \in counted : s \in {"Assigned", "InProgress", "Declined"}
    BY <1>2
  <2>2. AggregateStatus(S) \in {"Assigned", "InProgress"}
    BY <1>2 DEF AggregateStatus
  <2> QED
    BY <2>1, <2>2 DEF DoneStatus
<1>3. CASE counted # {} /\ waiting = {}
  <2>1. AggregateStatus(S) = IF counted = {"Verified"} THEN "Verified" ELSE "Finished"
    BY <1>3 DEF AggregateStatus
  <2>2. counted = {"Verified"} <=> \A s \in counted : s = "Verified"
    BY <1>3
  <2>3. \A s \in counted : s \in {"Finished", "Verified"}
    BY <1>3 DEF TaskStatuses, ParentStatuses
  <2>4. ~VerificationNeeded => "Verified" \notin counted
    BY DEF TaskStatuses, ParentStatuses
  <2>5. CASE VerificationNeeded
    BY <1>3, <2>1, <2>2, <2>5 DEF DoneStatus
  <2>6. CASE ~VerificationNeeded
    <3>1. \A s \in counted : s = "Finished"
      BY <2>3, <2>4, <2>6
    <3>2. counted # {"Verified"}
      BY <2>4, <2>6
    <3> QED
      BY <1>3, <2>1, <2>6, <3>1, <3>2 DEF DoneStatus
  <2> QED
    BY <2>5, <2>6
<1> QED
  BY <1>1, <1>2, <1>3

\* Under the conditions of GroupsFollowTasksCorrect, a cycle is done exactly when
\* it has tasks that count and all of them are done, through both aggregations.
THEOREM CycleDoneCorrect ==
  ASSUME Kinds \cap {"entry", "group"} = {}, GroupsPopulated
  PROVE  Spec => []CycleDoneIffTasksDone
<1>1. TypeOK /\ GroupsFollowTasks /\ CyclesFollowGroups => CycleDoneIffTasksDone
  <2> SUFFICES ASSUME TypeOK, GroupsFollowTasks, CyclesFollowGroups, NEW c \in Cycles, Exists(c)
               PROVE  LET counted == {t \in TasksIn(c) : Live(db.task[t]) /\ db.task[t].status # "Deprecated"}
                      IN  IsDone(db.cycle[c]) <=> counted # {} /\ \A t \in counted : IsDone(db.task[t])
    BY DEF CycleDoneIffTasksDone
  <2> DEFINE counted == {t \in TasksIn(c) : Live(db.task[t]) /\ db.task[t].status # "Deprecated"}
             gs == GroupsOf(c)
             live(g) == {t \in TasksOf(g) : Live(db.task[t])}
             S == {db.group[g].status : g \in gs}
             T(g) == {db.task[t].status : t \in live(g)}
  <2>0. db \in TreeType
    BY DEF TypeOK
  <2>1. \A t \in Tasks : Live(db.task[t]) => db.task[t].status \in TaskStatuses
    BY <2>0, TreeFields DEF Live, TaskRowType
  <2>2. \A g \in gs : g \in Groups /\ Exists(CycleOf[g]) /\ db.group[g].status \in ParentStatuses
    BY <2>0, TreeFields DEF GroupsOf, TypeOK, GroupRowType
  <2>3. ASSUME NEW g \in gs PROVE db.group[g].status = AggregateStatus(T(g))
    <3>1. GroupRow(db.task, g).status = AggregateStatus(T(g))
      BY DEF GroupRow
    <3>2. db.group[g] = GroupRow(db.task, g)
      BY <2>2 DEF GroupsFollowTasks
    <3> QED
      BY <3>1, <3>2
  <2>4. \A g \in gs : T(g) \subseteq TaskStatuses
    BY <2>1 DEF TasksOf
  <2>5. db.cycle[c].status = AggregateStatus(S)
    BY DEF CyclesFollowGroups, CycleRow
  <2>6. S \subseteq TaskStatuses
    BY <2>2 DEF TaskStatuses
  <2>7. \A t \in TasksIn(c) : t \in Tasks /\ GroupOf[t] \in gs /\ t \in TasksOf(GroupOf[t])
    BY TreeShape DEF TasksIn, GroupsOf, TasksOf
  <2>8. \A g \in gs : \A t \in TasksOf(g) : t \in TasksIn(c)
    BY DEF TasksIn, GroupsOf, TasksOf
  <2>9. \A g \in gs :
          /\ T(g) \ {"Deprecated"} # {} <=> \E t \in counted : t \in TasksOf(g)
          /\ (\A s \in T(g) \ {"Deprecated"} : s = DoneStatus) <=>
               \A t \in counted : t \in TasksOf(g) => IsDone(db.task[t])
    BY <2>8 DEF IsDone
  <2> HIDE DEF live, T, counted, gs
  <2>10. \A g \in gs :
           /\ db.group[g].status = DoneStatus <=>
                T(g) \ {"Deprecated"} # {} /\ \A s \in T(g) \ {"Deprecated"} : s = DoneStatus
           /\ db.group[g].status = "Deprecated" <=> T(g) \ {"Deprecated"} = {}
    BY <2>3, <2>4, AggregateDone
  <2>11. IsDone(db.cycle[c]) <=> S \ {"Deprecated"} # {} /\ \A s \in S \ {"Deprecated"} : s = DoneStatus
    BY <2>5, <2>6, AggregateDone DEF IsDone
  <2>12. S \ {"Deprecated"} # {} <=> \E g \in gs : db.group[g].status # "Deprecated"
    OBVIOUS
  <2>13. (\A s \in S \ {"Deprecated"} : s = DoneStatus) <=>
           \A g \in gs : db.group[g].status # "Deprecated" => db.group[g].status = DoneStatus
    OBVIOUS
  <2> HIDE DEF S
  <2>14. S \ {"Deprecated"} # {} <=> counted # {}
    <3>1. \A t \in counted : GroupOf[t] \in gs /\ t \in TasksOf(GroupOf[t])
      BY <2>7 DEF counted
    <3>2. \A g \in gs : db.group[g].status # "Deprecated" <=> \E t \in counted : t \in TasksOf(g)
      BY <2>9, <2>10
    <3> QED
      BY <2>12, <3>1, <3>2
  <2>15. (\A s \in S \ {"Deprecated"} : s = DoneStatus) <=> \A t \in counted : IsDone(db.task[t])
    <3>1. \A t \in counted : GroupOf[t] \in gs /\ t \in TasksOf(GroupOf[t])
      BY <2>7 DEF counted
    <3>2. ASSUME NEW g \in gs
          PROVE  (db.group[g].status # "Deprecated" => db.group[g].status = DoneStatus) <=>
                   \A t \in counted : t \in TasksOf(g) => IsDone(db.task[t])
      <4>1. T(g) \ {"Deprecated"} = {} => \A s \in T(g) \ {"Deprecated"} : s = DoneStatus
        OBVIOUS
      <4>2. /\ db.group[g].status = DoneStatus <=>
                 T(g) \ {"Deprecated"} # {} /\ \A s \in T(g) \ {"Deprecated"} : s = DoneStatus
            /\ db.group[g].status = "Deprecated" <=> T(g) \ {"Deprecated"} = {}
        BY <2>10
      <4>3. (\A s \in T(g) \ {"Deprecated"} : s = DoneStatus) <=>
               \A t \in counted : t \in TasksOf(g) => IsDone(db.task[t])
        BY <2>9
      <4> QED
        BY <4>1, <4>2, <4>3
    <3> QED
      BY <2>13, <3>1, <3>2
  <2> QED
    BY <2>11, <2>14, <2>15 DEF counted
<1>2. "group" \notin Kinds
  OBVIOUS
<1> QED
  BY <1>1, <1>2, TypeCorrect, GroupsFollowTasksCorrect, CyclesFollowGroupsCorrect, PTL

----------------------------------------------------------------------------
(* A cycle is current unless it is done *)

\* A cycle that is not Deprecated has a live task below it.
CountingCyclesLive ==
  \A c \in Cycles : Exists(c) /\ db.cycle[c].status # "Deprecated" =>
    \E t \in TasksIn(c) : Live(db.task[t])

LEMMA CountingCycles ==
  ASSUME TypeOK, GroupsFollowTasks, CyclesFollowGroups
  PROVE  CountingCyclesLive
<1> SUFFICES ASSUME NEW c \in Cycles, Exists(c), db.cycle[c].status # "Deprecated"
             PROVE  \E t \in TasksIn(c) : Live(db.task[t])
  BY DEF CountingCyclesLive
<1> DEFINE S == {db.group[g].status : g \in GroupsOf(c)}
           live(g) == {t \in TasksOf(g) : Live(db.task[t])}
           T(g) == {db.task[t].status : t \in live(g)}
<1>0. db \in TreeType
  BY DEF TypeOK
<1>1. db.cycle[c].status = AggregateStatus(S)
  BY DEF CyclesFollowGroups, CycleRow
<1>2. \A g \in GroupsOf(c) : g \in Groups /\ CycleOf[g] = c
  BY DEF GroupsOf
<1>3. S \subseteq TaskStatuses
  BY <1>0, <1>2, TreeFields DEF TypeOK, GroupRowType, TaskStatuses
<1>4. S \ {"Deprecated"} # {}
  <2> HIDE DEF S
  <2> QED
    BY <1>1, <1>3, AggregateDone
<1>5. PICK g \in GroupsOf(c) : db.group[g].status # "Deprecated"
  BY <1>4
<1>6. db.group[g].status = AggregateStatus(T(g))
  <2>1. db.group[g] = GroupRow(db.task, g)
    BY <1>2 DEF GroupsFollowTasks
  <2> QED
    BY <2>1 DEF GroupRow
<1>7. T(g) \subseteq TaskStatuses
  BY <1>0, TreeFields DEF Live, TaskRowType, TasksOf
<1>8. T(g) # {}
  <2> HIDE DEF T
  <2> QED
    BY <1>5, <1>6, <1>7, AggregateDone
<1>9. PICK t \in TasksOf(g) : Live(db.task[t])
  BY <1>8
<1>10. t \in TasksIn(c)
  BY <1>2 DEF TasksOf, TasksIn
<1> QED
  BY <1>9, <1>10

\* Under the conditions of GroupsFollowTasksCorrect, and if no client sets
\* is_current, is_current is the negation of is_done in every cycle that counts:
\* no order of requests leaves a cycle that is reopened ended, or one that is
\* done current.
THEOREM CurrentUnlessDoneCorrect ==
  ASSUME Kinds \cap {"cycle", "entry", "group"} = {}, GroupsPopulated
  PROVE  Spec => []CurrentUnlessDone
<1>1. Init => CurrentUnlessDone
  BY DEF Init, EmptyTree, CurrentUnlessDone, Exists
<1>2. TypeOK /\ CurrentUnlessDone /\ CountingCyclesLive' /\ [Next]_vars => CurrentUnlessDone'
  <2> SUFFICES ASSUME TypeOK, CurrentUnlessDone, CountingCyclesLive', [Next]_vars,
                      NEW c \in Cycles, Exists(c)', db'.cycle[c].status # "Deprecated"
               PROVE  db'.cycle[c].current = ~IsDone(db'.cycle[c])
    BY DEF CurrentUnlessDone
  <2>1. ASSUME Exists(c), db'.cycle[c].status = db.cycle[c].status,
               db'.cycle[c].current = db.cycle[c].current
        PROVE  db'.cycle[c].current = ~IsDone(db'.cycle[c])
    BY <2>1 DEF CurrentUnlessDone, IsDone
  <2>2. CASE UNCHANGED vars
    BY <2>1, <2>2 DEF vars, Exists
  <2>3. ASSUME NEW mine, Propagating(mine)
        PROVE  db'.cycle[c].current = ~IsDone(db'.cycle[c])
    <3>0. PICK d : /\ Wrote(d, mine)
                   /\ db' \in Propagations(d, d, mine, {GroupOf[u] : u \in mine})
      BY <2>3 DEF Propagating
    <3> DEFINE gs == {GroupOf[u] : u \in mine}
               row == CycleRow(db'.group, c)
    <3>1. /\ \A t \in Tasks : db'.task[t] = d.task[t]
          /\ db'.cycle = SeenCycles(d, gs, db'.group)
          /\ \A o \in Cycles : Exists(o)' <=> Exists(o)
      BY <3>0, Propagates
    <3>2. d.cycle = db.cycle
      BY <3>0 DEF Wrote
    <3>3. PICK t \in TasksIn(c) : Live(d.task[t])
      BY <3>1 DEF CountingCyclesLive, TasksIn
    <3>4. CycleDone(row, d.task, c) <=> IsDone(row)
      BY <3>3 DEF CycleDone
    <3> HIDE DEF gs
    <3>5. CASE \A g \in gs \cap GroupsOf(c) : db'.group[g] = d.group[g]
      <4>1. db'.cycle[c] = db.cycle[c]
        BY <3>1, <3>2, <3>5 DEF SeenCycles
      <4> QED
        BY <2>1, <3>1, <4>1
    <3>6. CASE ~\A g \in gs \cap GroupsOf(c) : db'.group[g] = d.group[g]
      <4> HIDE DEF row
      <4>1. db'.cycle[c] = [status |-> row.status, start |-> row.start, end |-> row.end,
                            due |-> row.due,
                            current |-> IF row.status = db.cycle[c].status THEN db.cycle[c].current
                                        ELSE ~CycleDone(row, d.task, c)]
        BY <3>1, <3>2, <3>6 DEF SeenCycles, row
      <4>2. db'.cycle[c].status = row.status
        BY <4>1
      <4>3. CASE row.status = db.cycle[c].status
        BY <2>1, <3>1, <4>1, <4>2, <4>3
      <4>4. CASE row.status # db.cycle[c].status
        BY <3>4, <4>1, <4>2, <4>4 DEF IsDone
      <4> QED
        BY <4>3, <4>4
    <3> QED
      BY <3>5, <3>6
  <2>4. ASSUME NEW cs \in SUBSET Cycles, Building(cs)
        PROVE  db'.cycle[c].current = ~IsDone(db'.cycle[c])
    <3>1. /\ c \notin cs => db'.cycle[c] = db.cycle[c]
          /\ \A o \in cs : db'.cycle[o].status = "Assigned" /\ db'.cycle[o].current
      BY <2>4, Builds
    <3>2. db'.cycle[c].current \in BOOLEAN
      BY <2>4, Builds, TreeFields DEF CycleRowType
    <3>3. CASE c \in cs
      BY <3>1, <3>2, <3>3 DEF IsDone, DoneStatus
    <3>4. CASE c \notin cs
      BY <2>1, <3>1, <3>4 DEF Exists
    <3> QED
      BY <3>3, <3>4
  <2>5. ASSUME NEW b \in BOOLEAN, PutRecurrences(b)
        PROVE  db'.cycle[c].current = ~IsDone(db'.cycle[c])
    <3>1. db'.cycle = db.cycle
      BY <2>5, OtherRequests
    <3> QED
      BY <2>1, <3>1 DEF Exists
  <2>6. /\ \A t \in Tasks : ~PostDecliningEntry(t)
        /\ \A h \in Groups, s \in ParentStatuses : ~PutGroup(h, s)
        /\ \A o \in Cycles, b \in BOOLEAN : ~PutCycle(o, b)
    BY DEF PostDecliningEntry, PutGroup, PutCycle
  <2> QED
    BY <2>2, <2>3, <2>4, <2>5, <2>6, WritesAndPropagates DEF Next, Building
<1>3. Spec => []GroupsFollowTasks
  <2>1. Kinds \cap {"entry", "group"} = {}
    OBVIOUS
  <2> QED
    BY <2>1, GroupsFollowTasksCorrect
<1>4. Spec => []CyclesFollowGroups
  <2>1. "group" \notin Kinds
    OBVIOUS
  <2> QED
    BY <2>1, CyclesFollowGroupsCorrect
<1>5. TypeOK /\ GroupsFollowTasks /\ CyclesFollowGroups => CountingCyclesLive
  BY CountingCycles
<1> QED
  BY <1>1, <1>2, <1>3, <1>4, <1>5, TypeCorrect, PTL DEF Spec

----------------------------------------------------------------------------
(* The workflow and its current cycles *)

AnyCurrentOf(cycle) == \E c \in Cycles : cycle[c].current
AnyCurrent == AnyCurrentOf(db.cycle)

\* What moves at most one cycle at a time: requests about one task, or any
\* request of a workflow that has one cycle.
OneCycleMoves == "patch" \notin Kinds \/ \A c, o \in Cycles : c = o

\* A propagation from groups of one cycle either leaves every is_current alone,
\* and the workflow, or it evaluates the workflow after it has set the cycle's.
LEMMA PropagatedWorkflow ==
  ASSUME NEW d \in TreeType, NEW mine, NEW gs, NEW x \in Propagations(d, d, mine, gs),
         NEW o \in Cycles, \A g \in gs : g \in Groups /\ CycleOf[g] = o
  PROVE  \/ /\ x.wf = d.wf
            /\ \A c \in Cycles : x.cycle[c].current = d.cycle[c].current
         \/ x.wf = WorkflowState(d.wf, AnyCurrentOf(x.cycle))
<1>1. x.cycle = SeenCycles(d, gs, x.group) /\ x \in TreeType
  BY SerialPropagation
<1> DEFINE group == SeenGroups(d, d, mine, gs)
           cycle == SeenCycles(d, gs, group)
<1>2. PICK wf \in SeenWorkflows(d, cycle) :
        x = [task  |-> d.task,
             group |-> [g \in Groups |-> IF g \in gs THEN Flush(d.group[g], d.group[g], group[g])
                                                     ELSE d.group[g]],
             cycle |-> [c \in Cycles |-> Flush(d.cycle[c], d.cycle[c], cycle[c])],
             wf    |-> Flush(d.wf, d.wf, wf)]
  BY DEF Propagations, Outcomes
<1>3. wf \in SeenWorkflows(d, x.cycle) /\ x.wf = Flush(d.wf, d.wf, wf)
  <2>1. x.cycle = [c \in Cycles |-> Flush(d.cycle[c], d.cycle[c], cycle[c])]
    BY <1>2
  <2>2. cycle \in [Cycles -> CycleRowType] /\ d.cycle \in [Cycles -> CycleRowType]
    BY SeenType, SeenCyclesType, TreeFields
  <2> HIDE DEF cycle
  <2>3. \A c \in Cycles : x.cycle[c] = cycle[c]
    BY <2>1, <2>2, FlushLoadedCycle
  <2>4. cycle = x.cycle
    BY <2>1, <2>2, <2>3
  <2> QED
    BY <1>2, <2>4
<1> HIDE DEF group, cycle
<1>4. \A c \in Cycles : c # o => x.cycle[c] = d.cycle[c]
  <2>1. \A c \in Cycles : c # o => gs \cap GroupsOf(c) = {}
    BY DEF GroupsOf
  <2> QED
    BY <1>1, <2>1 DEF SeenCycles
<1>5. d.wf \in WorkflowRowType /\ wf \in WorkflowRowType
  BY WorkflowStateType, TreeFields DEF SeenWorkflows
<1>6. x.wf = wf
  BY <1>3, <1>5 DEF Flush, WorkflowRowType
<1> DEFINE moved == {c \in Cycles : x.cycle[c].status # d.cycle[c].status}
           after(first) == \E c \in Cycles : IF c = first THEN x.cycle[c].current
                                                          ELSE d.cycle[c].current
<1>7. CASE moved = {}
  <2>1. wf = d.wf
    BY <1>3, <1>7 DEF SeenWorkflows
  <2>2. ASSUME NEW c \in Cycles
        PROVE  x.cycle[c].current = d.cycle[c].current
    <3>1. x.cycle[c].status = d.cycle[c].status
      BY <1>7
    <3> DEFINE row == CycleRow(x.group, c)
               b == IF row.status = d.cycle[c].status THEN d.cycle[c].current
                    ELSE ~CycleDone(row, d.task, c)
    <3>2. \/ x.cycle[c] = d.cycle[c]
          \/ x.cycle[c] = [status |-> row.status, start |-> row.start, end |-> row.end,
                           due |-> row.due, current |-> b]
      BY <1>1 DEF SeenCycles
    <3> HIDE DEF row
    <3> QED
      BY <3>1, <3>2
  <2> QED
    BY <1>6, <2>1, <2>2
<1>8. CASE moved # {}
  <2>1. moved \subseteq {o}
    BY <1>4
  <2>2. wf = WorkflowState(d.wf, after(o))
    BY <1>3, <1>8, <2>1 DEF SeenWorkflows
  <2>3. after(o) = AnyCurrentOf(x.cycle)
    BY <1>4 DEF AnyCurrentOf
  <2> QED
    BY <1>6, <2>2, <2>3
<1> QED
  BY <1>7, <1>8

AnyCycle == \E c \in Cycles : Exists(c)

\* What one request does to the status of the workflow.
LEMMA WorkflowStep ==
  ASSUME TypeOK, OneCycleMoves, [Next]_vars
  PROVE  \/ /\ db'.wf.status = db.wf.status
            /\ (AnyCurrent' <=> AnyCurrent) /\ (AnyCycle' <=> AnyCycle)
         \/ /\ db'.wf.status = WorkflowState(db.wf, AnyCurrent').status
            /\ AnyCycle' <=> AnyCycle
         \/ db'.wf.status = "Active" /\ AnyCurrent'
         \/ "cron" \in Kinds /\ db'.wf.status = db.wf.status /\ db.wf.status # "Draft" /\ AnyCurrent'
         \/ db.wf.status = "Draft" /\ db'.wf.status # "Draft" /\ (AnyCycle' <=> AnyCycle)
<1> DEFINE Goal == \/ /\ db'.wf.status = db.wf.status
                      /\ (AnyCurrent' <=> AnyCurrent) /\ (AnyCycle' <=> AnyCycle)
                   \/ /\ db'.wf.status = WorkflowState(db.wf, AnyCurrent').status
                      /\ AnyCycle' <=> AnyCycle
                   \/ db'.wf.status = "Active" /\ AnyCurrent'
                   \/ "cron" \in Kinds /\ db'.wf.status = db.wf.status /\ db.wf.status # "Draft" /\ AnyCurrent'
                   \/ db.wf.status = "Draft" /\ db'.wf.status # "Draft" /\ (AnyCycle' <=> AnyCycle)
<1>0. db \in TreeType
  BY DEF TypeOK
<1>1. ASSUME UNCHANGED vars
      PROVE  Goal
  BY <1>1 DEF vars, AnyCurrent, AnyCurrentOf, AnyCycle, Exists
<1>2. ASSUME NEW mine, Propagating(mine), NEW o \in Cycles,
             \A t \in mine : CycleOf[GroupOf[t]] = o
      PROVE  Goal
  <2>1. PICK d : /\ Wrote(d, mine)
                 /\ db' \in Propagations(d, d, mine, {GroupOf[u] : u \in mine})
    BY <1>2 DEF Propagating
  <2>2. d \in TreeType /\ d.cycle = db.cycle /\ d.wf = db.wf /\ mine \subseteq Tasks
    BY <2>1 DEF Wrote
  <2>3. \A g \in {GroupOf[u] : u \in mine} : g \in Groups /\ CycleOf[g] = o
    BY <1>2, <2>2, TreeShape
  <2>6. \A c \in Cycles : Exists(c)' <=> Exists(c)
    BY <2>1, Propagates
  <2> DEFINE gs == {GroupOf[u] : u \in mine}
  <2>4. db' \in Propagations(d, d, mine, gs)
    BY <2>1
  <2> HIDE DEF gs
  <2>5. \/ /\ db'.wf = d.wf
           /\ \A c \in Cycles : db'.cycle[c].current = d.cycle[c].current
        \/ db'.wf = WorkflowState(d.wf, AnyCurrentOf(db'.cycle))
    BY <2>2, <2>3, <2>4, PropagatedWorkflow DEF gs
  <2>7. AnyCycle' <=> AnyCycle
    BY <2>6 DEF AnyCycle
  <2> QED
    BY <2>2, <2>5, <2>7 DEF AnyCurrent, AnyCurrentOf
<1>3. ASSUME NEW t \in Tasks, Propagating({t})
      PROVE  Goal
  BY <1>2, <1>3, TreeShape
<1>4. ASSUME NEW ts \in SUBSET Tasks, NEW s \in TaskStatuses, PatchTasks(ts, s)
      PROVE  Goal
  <2>1. PICK mine : Propagating(mine)
    BY <1>4, WritesAndPropagates
  <2>2. \A c, o \in Cycles : c = o
    BY <1>4 DEF PatchTasks, OneCycleMoves
  <2>3. \A t \in mine : t \in Tasks /\ CycleOf[GroupOf[t]] \in Cycles
    BY <2>1, TreeShape DEF Propagating, Wrote
  <2>4. CASE \E c \in Cycles : TRUE
    BY <1>2, <2>1, <2>2, <2>3, <2>4
  <2>5. CASE Cycles = {}
    <3>1. mine = {}
      BY <2>3, <2>5
    <3>2. Tasks = {}
      BY <2>5, TreeShape
    <3>3. ts = {}
      BY <3>2
    <3> QED
      BY <1>4, <3>3 DEF PatchTasks
  <2> QED
    BY <2>4, <2>5
<1>5. ASSUME NEW cs \in SUBSET Cycles, Building(cs)
      PROVE  Goal
  <2> DEFINE x == BuildCycles(db, cs)
  <2>1. x.wf = db.wf /\ x \in TreeType
    BY <1>0, BuildCyclesTasks, BuildCyclesType
  <2>2. /\ \A c \in cs : db'.cycle[c].current
        /\ \A c \in Cycles : c \notin cs => db'.cycle[c] = db.cycle[c]
    BY <1>5, Builds
  <2>3. cs # {} => AnyCurrent'
    BY <2>2 DEF AnyCurrent, AnyCurrentOf
  <2> HIDE DEF x
  <2>4. CASE CronStartCycles(cs)
    BY <2>1, <2>3, <2>4 DEF CronStartCycles, x
  <2>5. CASE StartCycles(cs)
    <3>2. db' = [x EXCEPT !.wf.status = "Active"] /\ cs # {}
      BY <2>5 DEF StartCycles, x
    <3>3. db'.wf.status = "Active"
      BY <2>1, <3>2 DEF TreeType, WorkflowRowType
    <3> QED
      BY <2>3, <3>2, <3>3
  <2>6. CASE \E on \in BOOLEAN : ActivateWorkflow(on, cs)
    <3>1. PICK on \in BOOLEAN : ActivateWorkflow(on, cs)
      BY <2>6
    <3>2. /\ db' = [x EXCEPT !.wf = Activated(db, on)]
          /\ db.wf.status = "Draft"
          /\ Archives(db, on) => cs = {}
      BY <3>1 DEF ActivateWorkflow, x
    <3>3. db'.wf = Activated(db, on)
      BY <2>1, <3>2 DEF TreeType
    <3>4. db'.wf.status # "Draft" /\ (cs # {} => db'.wf.status = "Active")
      BY <1>0, <3>2, <3>3, ActivatedType
    <3>5. cs = {} => (AnyCycle' <=> AnyCycle)
      BY <2>2 DEF AnyCycle, Exists
    <3> QED
      BY <2>3, <3>2, <3>4, <3>5
  <2> QED
    BY <1>5, <2>4, <2>5, <2>6 DEF Building
<1>6. ASSUME NEW t \in Tasks, PostDecliningEntry(t)
      PROVE  Goal
  BY <1>0, <1>6 DEF PostDecliningEntry, TreeType, AnyCurrent, AnyCurrentOf, AnyCycle, Exists
<1>7. ASSUME NEW g \in Groups, NEW s \in ParentStatuses, PutGroup(g, s)
      PROVE  Goal
  <2>1. db'.wf = db.wf
    BY <1>0, <1>7 DEF PutGroup, TreeType
  <2>2. db'.cycle = db.cycle
    BY <1>7, GroupRequests
  <2> QED
    BY <2>1, <2>2 DEF AnyCurrent, AnyCurrentOf, AnyCycle, Exists
<1>8. ASSUME NEW c \in Cycles, NEW b \in BOOLEAN, PutCycle(c, b)
      PROVE  Goal
  <2> DEFINE row == [db.cycle[c] EXCEPT !.current = b]
             wf == WorkflowState(db.wf, \E o \in Cycles : IF o = c THEN b ELSE db.cycle[o].current)
  <2>1. /\ db'.wf = wf
        /\ db'.cycle = [db.cycle EXCEPT ![c] = row]
    BY <1>0, <1>8 DEF PutCycle, TreeType
  <2>2. \A o \in Cycles : db'.cycle[o].current = IF o = c THEN b ELSE db.cycle[o].current
    <3>1. db.cycle \in [Cycles -> CycleRowType] /\ db.cycle[c] \in CycleRowType
      BY <1>0, TreeFields
    <3>2. row.current = b
      BY <3>1 DEF CycleRowType
    <3> HIDE DEF row, wf
    <3> QED
      BY <2>1, <3>1, <3>2
  <2>4. AnyCycle' <=> AnyCycle
    BY <1>8, OtherRequests DEF AnyCycle, Exists
  <2>3. AnyCurrent' = \E o \in Cycles : IF o = c THEN b ELSE db.cycle[o].current
    BY <2>2 DEF AnyCurrent, AnyCurrentOf
  <2> QED
    BY <2>1, <2>3, <2>4
<1>9. ASSUME NEW b \in BOOLEAN, PutRecurrences(b)
      PROVE  Goal
  <2> DEFINE wf == [db.wf EXCEPT !.recurrences = b]
  <2>1. db'.cycle = db.cycle
    BY <1>9, OtherRequests
  <2>2. (AnyCurrent' <=> AnyCurrent) /\ (AnyCycle' <=> AnyCycle)
    BY <2>1 DEF AnyCurrent, AnyCurrentOf, AnyCycle, Exists
  <2>3. db'.wf = IF b THEN wf ELSE WorkflowState(wf, AnyCurrent')
    BY <1>0, <1>9, <2>1 DEF PutRecurrences, TreeType, AnyCurrent, AnyCurrentOf
  <2>4. wf.status = db.wf.status /\ wf \in WorkflowRowType /\ db.wf \in WorkflowRowType
    BY <1>0, TreeFields DEF WorkflowRowType
  <2> HIDE DEF wf
  <2>5. WorkflowState(wf, AnyCurrent').status = WorkflowState(db.wf, AnyCurrent').status
    BY <2>4 DEF WorkflowState, WorkflowRowType
  <2>6. CASE b
    <3>1. db'.wf.status = db.wf.status
      BY <2>3, <2>4, <2>6
    <3> QED
      BY <2>2, <3>1
  <2>7. CASE ~b
    <3>1. db'.wf.status = WorkflowState(db.wf, AnyCurrent').status
      BY <2>3, <2>5, <2>7
    <3> QED
      BY <2>2, <3>1
  <2> QED
    BY <2>6, <2>7
<1> HIDE DEF Goal
<1>10. Goal
  BY <1>1, <1>3, <1>4, <1>5, <1>6, <1>7, <1>8, <1>9, WritesAndPropagates DEF Next, Building
<1> QED
  BY <1>10 DEF Goal

\* A workflow that was neither activated nor started has no cycle.
DraftIsEmpty == db.wf.status = "Draft" => ~AnyCycle

LEMMA DraftIsEmptyStep ==
  ASSUME TypeOK, OneCycleMoves, DraftIsEmpty, [Next]_vars
  PROVE  DraftIsEmpty'
<1>1. db.wf \in WorkflowRowType
  BY TreeFields DEF TypeOK
<1>2. WorkflowState(db.wf, AnyCurrent').status = "Draft" => db.wf.status = "Draft"
  BY <1>1 DEF WorkflowState, WorkflowRowType
<1> QED
  BY <1>2, WorkflowStep DEF DraftIsEmpty

\* Without the cron job, and as long as no request moves two cycles, a workflow
\* that has cycles is Active exactly while one of them is current, whatever
\* built them: its activation, which may build none, or users.
THEOREM ActiveIffCurrentCorrect ==
  ASSUME "cron" \notin Kinds, OneCycleMoves
  PROVE  Spec => []ActiveIffCurrent
<1>1. Init => ActiveIffCurrent /\ DraftIsEmpty
  BY DEF Init, EmptyTree, ActiveIffCurrent, DraftIsEmpty, AnyCycle, Exists
<1>2. TypeOK /\ ActiveIffCurrent /\ DraftIsEmpty /\ [Next]_vars => ActiveIffCurrent'
  <2> SUFFICES ASSUME TypeOK, ActiveIffCurrent, DraftIsEmpty, [Next]_vars, AnyCycle'
               PROVE  db'.wf.status = "Active" <=> AnyCurrent'
    BY DEF ActiveIffCurrent, AnyCurrent, AnyCurrentOf, AnyCycle
  <2>1. db.wf \in WorkflowRowType
    BY TreeFields DEF TypeOK
  <2>2. AnyCycle => db.wf.status # "Draft" /\ (db.wf.status = "Active" <=> AnyCurrent)
    BY DEF ActiveIffCurrent, DraftIsEmpty, AnyCurrent, AnyCurrentOf, AnyCycle
  <2>3. db.wf.status # "Draft" =>
          (WorkflowState(db.wf, AnyCurrent').status = "Active" <=> AnyCurrent')
    BY <2>1 DEF WorkflowState, WorkflowRowType
  <2> QED
    BY <2>2, <2>3, WorkflowStep
<1>3. TypeOK /\ DraftIsEmpty /\ [Next]_vars => DraftIsEmpty'
  BY DraftIsEmptyStep
<1> QED
  BY <1>1, <1>2, <1>3, TypeCorrect, PTL DEF Spec

\* With the cron job as well, no workflow is left Active when its last current
\* cycle ends.
THEOREM InactiveUnlessCurrentCorrect ==
  ASSUME OneCycleMoves
  PROVE  Spec => []InactiveUnlessCurrent
<1>1. Init => InactiveUnlessCurrent /\ DraftIsEmpty
  BY DEF Init, EmptyTree, InactiveUnlessCurrent, DraftIsEmpty, AnyCycle, Exists
<1>2. TypeOK /\ InactiveUnlessCurrent /\ DraftIsEmpty /\ [Next]_vars => InactiveUnlessCurrent'
  <2> SUFFICES ASSUME TypeOK, InactiveUnlessCurrent, DraftIsEmpty, [Next]_vars,
                      db'.wf.status = "Active", AnyCycle'
               PROVE  AnyCurrent'
    BY DEF InactiveUnlessCurrent, AnyCurrent, AnyCurrentOf, AnyCycle
  <2>1. db.wf \in WorkflowRowType
    BY TreeFields DEF TypeOK
  <2>2. db.wf.status = "Active" /\ AnyCycle => AnyCurrent
    BY DEF InactiveUnlessCurrent, AnyCurrent, AnyCurrentOf, AnyCycle
  <2>3. WorkflowState(db.wf, AnyCurrent').status = "Active" => AnyCurrent'
    BY <2>1 DEF WorkflowState, WorkflowRowType
  <2> QED
    BY <2>2, <2>3, WorkflowStep DEF DraftIsEmpty
<1>3. TypeOK /\ DraftIsEmpty /\ [Next]_vars => DraftIsEmpty'
  BY DraftIsEmptyStep
<1> QED
  BY <1>1, <1>2, <1>3, TypeCorrect, PTL DEF Spec

----------------------------------------------------------------------------
(* A cycle spans its live tasks *)

\* The dates, and the dates alone, that hold whatever requests are sent.
GroupSpans(g) ==
  /\ db.group[g].start = GroupRow(db.task, g).start
  /\ db.group[g].end = GroupRow(db.task, g).end
CycleSpans(c) ==
  /\ db.cycle[c].start = CycleRow(db.group, c).start
  /\ db.cycle[c].end = CycleRow(db.group, c).end
RangesFollow ==
  /\ \A g \in Groups : Exists(CycleOf[g]) => GroupSpans(g)
  /\ \A c \in Cycles : Exists(c) => CycleSpans(c)

\* The dates of a group depend on which of its tasks are live ...
LEMMA GroupSpanLocal ==
  ASSUME NEW a, NEW b, NEW g, \A t \in TasksOf(g) : Live(a[t]) <=> Live(b[t])
  PROVE  GroupRow(a, g).start = GroupRow(b, g).start /\ GroupRow(a, g).end = GroupRow(b, g).end
<1>1. {t \in TasksOf(g) : Live(a[t])} = {t \in TasksOf(g) : Live(b[t])}
  OBVIOUS
<1> QED
  BY <1>1 DEF GroupRow

\* ... and those of a cycle on those of its groups.
LEMMA CycleSpanLocal ==
  ASSUME NEW a, NEW b, NEW c,
         \A g \in GroupsOf(c) : a[g].start = b[g].start /\ a[g].end = b[g].end
  PROVE  CycleRow(a, c).start = CycleRow(b, c).start /\ CycleRow(a, c).end = CycleRow(b, c).end
<1>1. /\ {a[g].start : g \in GroupsOf(c)} = {b[g].start : g \in GroupsOf(c)}
      /\ {a[g].end : g \in GroupsOf(c)} = {b[g].end : g \in GroupsOf(c)}
  OBVIOUS
<1> QED
  BY <1>1 DEF CycleRow

\* No request makes a task appear in, or disappear from, what a group spans
\* without the group's dates being computed again.
LEMMA RangesFollowStep ==
  ASSUME TypeOK, RangesFollow, [Next]_vars
  PROVE  RangesFollow'
<1>0. db \in TreeType
  BY DEF TypeOK
<1>1. ASSUME NEW g \in Groups, Exists(CycleOf[g]),
             db'.group[g].start = db.group[g].start, db'.group[g].end = db.group[g].end,
             \A t \in TasksOf(g) : Live(db'.task[t]) <=> Live(db.task[t])
      PROVE  GroupSpans(g)'
  <2>1. GroupSpans(g)
    BY <1>1 DEF RangesFollow
  <2>2. /\ GroupRow(db'.task, g).start = GroupRow(db.task, g).start
        /\ GroupRow(db'.task, g).end = GroupRow(db.task, g).end
    BY <1>1, GroupSpanLocal
  <2> QED
    BY <1>1, <2>1, <2>2 DEF GroupSpans
<1>2. ASSUME NEW c \in Cycles, Exists(c),
             db'.cycle[c].start = db.cycle[c].start, db'.cycle[c].end = db.cycle[c].end,
             \A g \in GroupsOf(c) : /\ db'.group[g].start = db.group[g].start
                                    /\ db'.group[g].end = db.group[g].end
      PROVE  CycleSpans(c)'
  <2>1. CycleSpans(c)
    BY <1>2 DEF RangesFollow
  <2>2. /\ CycleRow(db'.group, c).start = CycleRow(db.group, c).start
        /\ CycleRow(db'.group, c).end = CycleRow(db.group, c).end
    BY <1>2, CycleSpanLocal
  <2> QED
    BY <1>2, <2>1, <2>2 DEF CycleSpans
<1>3. ASSUME \A c \in Cycles : /\ Exists(c)' <=> Exists(c)
                               /\ db'.cycle[c].start = db.cycle[c].start
                               /\ db'.cycle[c].end = db.cycle[c].end,
             \A g \in Groups : /\ db'.group[g].start = db.group[g].start
                               /\ db'.group[g].end = db.group[g].end,
             \A t \in Tasks : Live(db'.task[t]) <=> Live(db.task[t])
      PROVE  RangesFollow'
  <2>1. ASSUME NEW g \in Groups, Exists(CycleOf[g])'
        PROVE  GroupSpans(g)'
    <3>1. Exists(CycleOf[g])
      BY <1>3, <2>1, TreeShape
    <3>2. \A t \in TasksOf(g) : t \in Tasks
      BY DEF TasksOf
    <3> QED
      BY <1>1, <1>3, <3>1, <3>2
  <2>2. ASSUME NEW c \in Cycles, Exists(c)'
        PROVE  CycleSpans(c)'
    <3>1. \A g \in GroupsOf(c) : g \in Groups
      BY DEF GroupsOf
    <3> QED
      BY <1>2, <1>3, <2>2, <3>1
  <2> QED
    BY <2>1, <2>2 DEF RangesFollow
<1>4. CASE UNCHANGED vars
  BY <1>3, <1>4 DEF vars, Exists
<1>5. ASSUME NEW mine, Propagating(mine)
      PROVE  RangesFollow'
  <2>0. PICK d : /\ Wrote(d, mine)
                 /\ db' \in Propagations(d, d, mine, {GroupOf[u] : u \in mine})
    BY <1>5 DEF Propagating
  <2> DEFINE gs == {GroupOf[u] : u \in mine}
  <2>1. /\ \A h \in gs : db'.group[h] = GroupRow(db'.task, h)
        /\ \A h \in Groups : h \notin gs => /\ db'.group[h] = db.group[h]
                                          /\ \A t \in TasksOf(h) : db'.task[t] = db.task[t]
        /\ db'.cycle = SeenCycles(d, gs, db'.group)
        /\ \A c \in Cycles : Exists(c)' <=> Exists(c)
    BY <2>0, Propagates
  <2>2. d.cycle = db.cycle /\ d.group = db.group
    BY <2>0 DEF Wrote
  <2> HIDE DEF gs
  <2>3. ASSUME NEW g \in Groups, Exists(CycleOf[g])'
        PROVE  GroupSpans(g)'
    <3>1. Exists(CycleOf[g])
      BY <2>1, <2>3, TreeShape
    <3>2. CASE g \in gs
      BY <2>1, <3>2 DEF GroupSpans
    <3>3. CASE g \notin gs
      BY <1>1, <2>1, <3>1, <3>3
    <3> QED
      BY <3>2, <3>3
  <2>4. ASSUME NEW c \in Cycles, Exists(c)'
        PROVE  CycleSpans(c)'
    <3> DEFINE row == CycleRow(db'.group, c)
               b == IF row.status = d.cycle[c].status THEN d.cycle[c].current
                    ELSE ~CycleDone(row, d.task, c)
    <3>1. CASE \A g \in gs \cap GroupsOf(c) : db'.group[g] = d.group[g]
      <4>1. db'.cycle[c] = db.cycle[c]
        BY <2>1, <2>2, <3>1 DEF SeenCycles
      <4>2. \A g \in GroupsOf(c) : db'.group[g] = db.group[g]
        BY <2>1, <2>2, <3>1 DEF GroupsOf
      <4> QED
        BY <1>2, <2>1, <2>4, <4>1, <4>2
    <3>2. CASE ~\A g \in gs \cap GroupsOf(c) : db'.group[g] = d.group[g]
      <4>1. db'.cycle[c] = [status |-> row.status, start |-> row.start, end |-> row.end,
                            due |-> row.due, current |-> b]
        BY <2>1, <3>2 DEF SeenCycles
      <4> HIDE DEF row
      <4>2. db'.cycle[c].start = row.start /\ db'.cycle[c].end = row.end
        BY <4>1
      <4> QED
        BY <4>2 DEF CycleSpans, row
    <3> QED
      BY <3>1, <3>2
  <2> QED
    BY <2>3, <2>4 DEF RangesFollow
<1>6. ASSUME NEW cs \in SUBSET Cycles, Building(cs)
      PROVE  RangesFollow'
  <2> DEFINE x == BuildCycles(db, cs)
  <2>1. /\ db'.task = x.task /\ db'.group = x.group /\ db'.cycle = x.cycle
        /\ \A t \in Tasks : CycleOf[GroupOf[t]] \notin cs => db'.task[t] = db.task[t]
        /\ \A g \in Groups : CycleOf[g] \notin cs => db'.group[g] = db.group[g]
        /\ \A o \in Cycles : o \notin cs => db'.cycle[o] = db.cycle[o]
    BY <1>6, Builds
  <2>2. \A g \in Groups : x.group[g] = IF CycleOf[g] \in cs
                                     THEN [GroupRow(x.task, g) EXCEPT !.status = "Assigned"]
                                     ELSE db.group[g]
    BY <1>0, BuildCyclesGroups
  <2>3. \A c \in Cycles : c \in cs => /\ x.cycle[c].start = CycleRow(x.group, c).start
                                     /\ x.cycle[c].end = CycleRow(x.group, c).end
    BY <1>0, BuildCyclesCycles
  <2> HIDE DEF x
  <2>4. ASSUME NEW g \in Groups, Exists(CycleOf[g])'
        PROVE  GroupSpans(g)'
    <3>1. CASE CycleOf[g] \in cs
      <4>1. db'.group[g] = [GroupRow(db'.task, g) EXCEPT !.status = "Assigned"]
        BY <2>1, <2>2, <3>1
      <4> QED
        BY <4>1 DEF GroupSpans, GroupRow
    <3>2. CASE CycleOf[g] \notin cs
      <4>1. Exists(CycleOf[g])
        BY <2>1, <2>4, <3>2, TreeShape DEF Exists
      <4>2. \A t \in TasksOf(g) : db'.task[t] = db.task[t]
        BY <2>1, <3>2 DEF TasksOf
      <4> QED
        BY <1>1, <2>1, <3>2, <4>1, <4>2
    <3> QED
      BY <3>1, <3>2
  <2>5. ASSUME NEW o \in Cycles, Exists(o)'
        PROVE  CycleSpans(o)'
    <3>1. CASE o \in cs
      BY <2>1, <2>3, <3>1 DEF CycleSpans
    <3>2. CASE o \notin cs
      <4>1. \A g \in GroupsOf(o) : db'.group[g] = db.group[g]
        BY <2>1, <3>2 DEF GroupsOf
      <4> QED
        BY <1>2, <2>1, <2>5, <3>2, <4>1 DEF Exists
    <3> QED
      BY <3>1, <3>2
  <2> QED
    BY <2>4, <2>5 DEF RangesFollow
<1>7. ASSUME NEW t \in Tasks, PostDecliningEntry(t)
      PROVE  RangesFollow'
  <2>1. db'.group = db.group /\ db'.cycle = db.cycle
    BY <1>7, OtherRequests
  <2>2. db'.task = [db.task EXCEPT ![t].status = "Declined"] /\ Live(db.task[t])
    BY <1>0, <1>7 DEF PostDecliningEntry, TreeType
  <2>3. \A u \in Tasks : Live(db'.task[u]) <=> Live(db.task[u])
    BY <1>0, <2>2, TreeFields DEF Live, TaskRowType
  <2> QED
    BY <1>3, <2>1, <2>3 DEF Exists
<1>8. ASSUME NEW g \in Groups, NEW s \in ParentStatuses, PutGroup(g, s)
      PROVE  RangesFollow'
  <2>1. /\ db'.cycle = db.cycle
        /\ db'.task = ChildrenOfPut(db, g, s)
        /\ db'.group = [db.group EXCEPT ![g].status = s]
    BY <1>0, <1>8 DEF PutGroup, TreeType
  <2>2. s \notin {"Absent", "Deleted"}
    BY DEF ParentStatuses
  <2>3. \A u \in Tasks : Live(db'.task[u]) <=> Live(db.task[u])
    BY <2>1, <2>2 DEF ChildrenOfPut, WithStatus, Live
  <2>4. \A h \in Groups : db'.group[h].start = db.group[h].start /\ db'.group[h].end = db.group[h].end
    BY <1>0, <2>1, TreeFields DEF GroupRowType
  <2> QED
    BY <1>3, <2>1, <2>3, <2>4 DEF Exists
<1>9. ASSUME NEW c \in Cycles, NEW b \in BOOLEAN, PutCycle(c, b)
      PROVE  RangesFollow'
  <2>1. /\ db'.task = db.task /\ db'.group = db.group
        /\ \A o \in Cycles : /\ db'.cycle[o].status = db.cycle[o].status
                             /\ db'.cycle[o].start = db.cycle[o].start
                             /\ db'.cycle[o].end = db.cycle[o].end
    BY <1>9, OtherRequests
  <2> QED
    BY <1>3, <2>1 DEF Exists
<1>10. ASSUME NEW b \in BOOLEAN, PutRecurrences(b)
       PROVE  RangesFollow'
  <2>1. db'.task = db.task /\ db'.group = db.group /\ db'.cycle = db.cycle
    BY <1>10, OtherRequests
  <2> QED
    BY <1>3, <2>1 DEF Exists
<1> QED
  BY <1>4, <1>5, <1>6, <1>7, <1>8, <1>9, <1>10, WritesAndPropagates DEF Next, Building

\* The range of a cycle is computed from the ranges of its groups, without the
\* groups that have none; it is the range of all the live tasks.
LEMMA SpansOfSpans ==
  ASSUME IsFiniteSet(Tasks), RangesFollow, NEW c \in Cycles, Exists(c)
  PROVE  LET live == {t \in TasksIn(c) : Live(db.task[t])} IN
         /\ db.cycle[c].start = Earliest({StartDay[t] : t \in live})
         /\ db.cycle[c].end = Latest({EndDay[t] : t \in live})
<1> DEFINE live == {t \in TasksIn(c) : Live(db.task[t])}
           liveIn(g) == {t \in TasksOf(g) : Live(db.task[t])}
           S == [g \in GroupsOf(c) |-> {StartDay[t] : t \in liveIn(g)}]
           E == [g \in GroupsOf(c) |-> {EndDay[t] : t \in liveIn(g)}]
<1>1. \A g \in GroupsOf(c) : g \in Groups /\ CycleOf[g] = c
  BY DEF GroupsOf
<1>2. \A g \in GroupsOf(c) : db.group[g].start = Earliest(S[g]) /\ db.group[g].end = Latest(E[g])
  <2>1. \A g \in GroupsOf(c) : GroupSpans(g)
    BY <1>1 DEF RangesFollow
  <2> QED
    BY <2>1 DEF GroupSpans, GroupRow
<1>3. CycleSpans(c)
  BY DEF RangesFollow
<1>4. /\ db.cycle[c].start = Earliest({db.group[g].start : g \in GroupsOf(c)} \ {NoDay})
      /\ db.cycle[c].end = Latest({db.group[g].end : g \in GroupsOf(c)} \ {NoDay})
  BY <1>3 DEF CycleSpans, CycleRow
<1>5. \A t : t \in live <=> \E g \in GroupsOf(c) : t \in liveIn(g)
  BY TreeShape DEF TasksIn, TasksOf, GroupsOf
<1>6. \A g \in GroupsOf(c) : liveIn(g) \subseteq Tasks
  BY DEF TasksOf
<1>7. /\ UNION {S[g] : g \in GroupsOf(c)} = {StartDay[t] : t \in live}
      /\ UNION {E[g] : g \in GroupsOf(c)} = {EndDay[t] : t \in live}
  BY <1>5
<1>8. /\ S \in [GroupsOf(c) -> SUBSET (Nat \ {NoDay})]
      /\ E \in [GroupsOf(c) -> SUBSET (Nat \ {NoDay})]
  BY <1>6, TreeShape DEF NoDay
<1>9. IsFiniteSet({EndDay[t] : t \in live})
  <2>1. IsFiniteSet(live)
    <3>1. live \subseteq Tasks
      BY DEF TasksIn
    <3> QED
      BY <3>1, FS_Subset
  <2> DEFINE f == [t \in live |-> EndDay[t]]
  <2> HIDE DEF live
  <2>2. f \in Surjection(live, {EndDay[t] : t \in live})
    BY DEF Surjection
  <2> QED
    BY <2>1, <2>2, FS_Surjection
<1> HIDE DEF S, E, live
<1>10. /\ {db.group[g].start : g \in GroupsOf(c)} = {Earliest(S[g]) : g \in GroupsOf(c)}
       /\ {db.group[g].end : g \in GroupsOf(c)} = {Latest(E[g]) : g \in GroupsOf(c)}
  BY <1>2
<1>11. /\ Earliest({Earliest(S[g]) : g \in GroupsOf(c)} \ {NoDay}) = Earliest({StartDay[t] : t \in live})
       /\ Latest({Latest(E[g]) : g \in GroupsOf(c)} \ {NoDay}) = Latest({EndDay[t] : t \in live})
  <2> DEFINE gs == GroupsOf(c)
  <2>1. /\ S \in [gs -> SUBSET (Nat \ {NoDay})]
        /\ E \in [gs -> SUBSET (Nat \ {NoDay})]
        /\ IsFiniteSet(UNION {E[g] : g \in gs})
    BY <1>7, <1>8, <1>9
  <2>2. /\ UNION {S[g] : g \in gs} = {StartDay[t] : t \in live}
        /\ UNION {E[g] : g \in gs} = {EndDay[t] : t \in live}
    BY <1>7
  <2> HIDE DEF gs
  <2>3. Earliest({Earliest(S[g]) : g \in gs} \ {NoDay}) = Earliest(UNION {S[g] : g \in gs})
    BY <2>1, EarliestOfParts
  <2>4. Latest({Latest(E[g]) : g \in gs} \ {NoDay}) = Latest(UNION {E[g] : g \in gs})
    BY <2>1, LatestOfParts
  <2>5. /\ Earliest({Earliest(S[g]) : g \in gs} \ {NoDay}) = Earliest({StartDay[t] : t \in live})
        /\ Latest({Latest(E[g]) : g \in gs} \ {NoDay}) = Latest({EndDay[t] : t \in live})
    BY <2>2, <2>3, <2>4
  <2> QED
    BY <2>5 DEF gs
<1> QED
  BY <1>4, <1>10, <1>11 DEF live

\* Whatever requests are sent, the dates of a cycle are the first start and the
\* last end of its live tasks: what update_cycle_task_group_parent_state skips
\* (a parent whose status a PUT or an entry has left behind) never costs a date.
THEOREM RangesSpanTasksCorrect ==
  ASSUME IsFiniteSet(Tasks)
  PROVE  Spec => []RangesSpanTasks
<1>1. Init => RangesFollow
  BY TreeShape DEF Init, EmptyTree, RangesFollow, Exists
<1>2. TypeOK /\ RangesFollow /\ [Next]_vars => RangesFollow'
  BY RangesFollowStep
<1>3. RangesFollow => RangesSpanTasks
  BY SpansOfSpans DEF RangesSpanTasks
<1> QED
  BY <1>1, <1>2, <1>3, TypeCorrect, PTL DEF Spec

=============================================================================
