---------------------------- MODULE CycleRowsLemmas ----------------------------
(****************************************************************************)
(* What the operators of CycleRows return, for every tree shape: the facts the *)
(* proofs about CycleTree and CyclePropagation rest on.                       *)
(****************************************************************************)
EXTENDS CycleRows, FiniteSetTheorems, WellFoundedInduction, TLAPS

Columns == {"status", "start", "end", "due"}

----------------------------------------------------------------------------
(* Statuses and dates *)

\* The status computed for a parent is one a parent can have, whatever its
\* children have: "Verified" comes up only from a child that is verified.
LEMMA AggregateStatusType ==
  ASSUME NEW S, "Verified" \in S => VerificationNeeded
  PROVE  AggregateStatus(S) \in ParentStatuses
BY DEF AggregateStatus, ParentStatuses

\* The ends of a range of dates are dates, or None.
LEMMA RangeType ==
  ASSUME NEW S, S \subseteq Nat
  PROVE  Earliest(S) \in Nat /\ Latest(S) \in Nat
BY DEF Earliest, Latest, NoDay

\* A task has the status Verified only in a workflow with verification.
LEMMA VerifiedNeeded ==
  ASSUME NEW row \in TaskRowType, row.status = "Verified"
  PROVE  VerificationNeeded
BY TreeShape DEF TaskRowType, TaskStatuses, ParentStatuses

LEMMA GroupVerifiedNeeded ==
  ASSUME NEW row \in GroupRowType, row.status = "Verified"
  PROVE  VerificationNeeded
BY TreeShape DEF GroupRowType, ParentStatuses

----------------------------------------------------------------------------
(* The ends of a range *)

\* The order of days is well founded.
LEMMA DaysWellFounded == IsWellFoundedOn({ss \in Nat \X Nat : ss[1] < ss[2]}, Nat)
BY NatLessThanWellFounded, Zenon DEF OpToRel

\* Days have an earliest one, and finitely many of them a latest one.
LEMMA EarliestDay ==
  ASSUME NEW S \in SUBSET Nat, S # {}
  PROVE  \E m \in S : \A e \in S : m <= e
<1> DEFINE before == {ss \in Nat \X Nat : ss[1] < ss[2]}
<1>1. \A d, e \in Nat : <<e, d>> \in before <=> e < d
  OBVIOUS
<1>2. IsWellFoundedOn(before, Nat)
  BY DaysWellFounded
<1> HIDE DEF before
<1>3. PICK m \in S : \A e \in S : ~ (<<e, m>> \in before)
  BY <1>2, WFMin
<1>4. \A e \in S : ~(e < m) /\ e \in Nat /\ m \in Nat
  BY <1>1, <1>3
<1> QED
  BY <1>4

LEMMA LatestDay ==
  ASSUME NEW S \in SUBSET Nat, IsFiniteSet(S), S # {}
  PROVE  \E m \in S : \A e \in S : e <= m
<1> DEFINE HasLatest(T) == \E m \in T : \A e \in T : e <= m
           endless == {T \in SUBSET S : T # {} /\ ~HasLatest(T)}
<1> SUFFICES ASSUME endless # {} PROVE FALSE
  OBVIOUS
<1>1. endless \subseteq FiniteSubsetsOf(S)
  BY FS_FiniteSubsetsOfFinite
<1>2. IsWellFoundedOn(StrictSubsetOrdering(S), FiniteSubsetsOf(S))
  BY FS_StrictSubsetOrderingWellFounded
<1>3. PICK T \in endless : \A U \in endless : ~ (<<U, T>> \in StrictSubsetOrdering(S))
  <2> HIDE DEF endless
  <2> QED
    BY <1>1, <1>2, WFMin
<1>4. PICK x \in T : TRUE
  OBVIOUS
<1>5. T \ {x} \notin endless
  <2>1. T \ {x} \in SUBSET S /\ T \in SUBSET S /\ T \ {x} # T /\ T \ {x} \subseteq T
    BY <1>4
  <2>2. <<T \ {x}, T>> \in StrictSubsetOrdering(S)
    BY <2>1 DEF StrictSubsetOrdering
  <2> QED
    BY <1>3, <2>2
<1>6. T \ {x} = {} \/ HasLatest(T \ {x})
  BY <1>5
<1>7. x \in Nat /\ \A e \in T : e \in Nat
  BY <1>4
<1>8. CASE T \ {x} = {}
  <2>1. \A e \in T : e <= x
    BY <1>7, <1>8
  <2> QED
    BY <1>4, <2>1
<1>9. CASE HasLatest(T \ {x})
  <2>1. PICK m \in T \ {x} : \A e \in T \ {x} : e <= m
    BY <1>9
  <2>2. CASE m <= x
    <3>1. \A e \in T : e <= x
      BY <1>7, <2>1, <2>2
    <3> QED
      BY <1>4, <3>1
  <2>3. CASE x <= m
    <3>1. \A e \in T : e <= m
      BY <1>7, <2>1, <2>3
    <3> QED
      BY <2>1, <3>1
  <2> QED
    BY <1>7, <2>1, <2>2, <2>3
<1> QED
  BY <1>6, <1>8, <1>9

\* Earliest and Latest are the ends of a set of days, and None for no days.
LEMMA EarliestIs ==
  ASSUME NEW S \in SUBSET Nat
  PROVE  /\ S = {} => Earliest(S) = NoDay
         /\ S # {} => Earliest(S) \in S /\ \A e \in S : Earliest(S) <= e
         /\ \A m \in S : (\A e \in S : m <= e) => Earliest(S) = m
<1>1. S # {} => \E m \in S : \A e \in S : m <= e
  BY EarliestDay
<1>2. \A m, n \in S : (\A e \in S : m <= e) /\ (\A e \in S : n <= e) => m = n
  OBVIOUS
<1> QED
  BY <1>1, <1>2 DEF Earliest

LEMMA LatestIs ==
  ASSUME NEW S \in SUBSET Nat, IsFiniteSet(S)
  PROVE  /\ S = {} => Latest(S) = NoDay
         /\ S # {} => Latest(S) \in S /\ \A e \in S : e <= Latest(S)
         /\ \A m \in S : (\A e \in S : e <= m) => Latest(S) = m
<1>1. S # {} => \E m \in S : \A e \in S : m >= e
  BY LatestDay
<1>2. \A m, n \in S : (\A e \in S : m >= e) /\ (\A e \in S : n >= e) => m = n
  OBVIOUS
<1> QED
  BY <1>1, <1>2 DEF Latest

\* A cycle's range is computed from its groups' ranges: the end of the ends that
\* there are is the end of all days.
LEMMA EarliestOfParts ==
  ASSUME NEW G, NEW F \in [G -> SUBSET (Nat \ {NoDay})]
  PROVE  Earliest({Earliest(F[g]) : g \in G} \ {NoDay}) = Earliest(UNION {F[g] : g \in G})
<1> DEFINE all == UNION {F[g] : g \in G}
           ends == {Earliest(F[g]) : g \in G} \ {NoDay}
<1>1. \A g \in G : /\ F[g] \in SUBSET Nat /\ NoDay \notin F[g]
                   /\ F[g] = {} => Earliest(F[g]) = NoDay
                   /\ F[g] # {} => Earliest(F[g]) \in F[g] /\ \A e \in F[g] : Earliest(F[g]) <= e
  BY EarliestIs
<1>2. all \in SUBSET Nat /\ ends \in SUBSET Nat
  BY <1>1 DEF NoDay
<1>3. CASE all = {}
  <2>1. ends = {}
    BY <1>1, <1>3
  <2> QED
    BY <1>3, <2>1
<1>4. CASE all # {}
  <2> DEFINE m == Earliest(all)
  <2>1. m \in all /\ \A e \in all : m <= e
    BY <1>2, <1>4, EarliestIs
  <2>2. PICK g \in G : m \in F[g]
    BY <2>1
  <2>3. \A e \in F[g] : e \in all
    OBVIOUS
  <2> HIDE DEF m
  <2>4. Earliest(F[g]) = m
    <3>1. \A e \in F[g] : m <= e
      BY <2>1, <2>3
    <3>2. F[g] \in SUBSET Nat
      BY <1>1
    <3> HIDE DEF all
    <3> QED
      BY <2>2, <3>1, <3>2, EarliestIs
  <2>5. m \in ends
    BY <1>1, <2>2, <2>4
  <2>6. \A e \in ends : e \in all
    BY <1>1
  <2>7. \A e \in ends : m <= e
    BY <2>1, <2>6
  <2> HIDE DEF all, ends
  <2>8. Earliest(ends) = m
    BY <1>2, <2>5, <2>7, EarliestIs
  <2> QED
    BY <2>8 DEF m, all, ends
<1> QED
  BY <1>3, <1>4

LEMMA LatestOfParts ==
  ASSUME NEW G, NEW F \in [G -> SUBSET (Nat \ {NoDay})], IsFiniteSet(UNION {F[g] : g \in G})
  PROVE  Latest({Latest(F[g]) : g \in G} \ {NoDay}) = Latest(UNION {F[g] : g \in G})
<1> DEFINE all == UNION {F[g] : g \in G}
           ends == {Latest(F[g]) : g \in G} \ {NoDay}
<1>0. \A g \in G : F[g] \in SUBSET all /\ F[g] \in SUBSET Nat /\ NoDay \notin F[g]
  OBVIOUS
<1>1. \A g \in G : /\ IsFiniteSet(F[g])
                   /\ F[g] = {} => Latest(F[g]) = NoDay
                   /\ F[g] # {} => Latest(F[g]) \in F[g] /\ \A e \in F[g] : e <= Latest(F[g])
  <2> HIDE DEF all
  <2>1. IsFiniteSet(all)
    BY DEF all
  <2>2. \A g \in G : IsFiniteSet(F[g])
    BY <1>0, <2>1, FS_Subset
  <2> QED
    BY <1>0, <2>2, LatestIs
<1>2. all \in SUBSET Nat /\ ends \subseteq all
  BY <1>0, <1>1
<1>3. CASE all = {}
  <2>1. ends = {}
    BY <1>2, <1>3
  <2> QED
    BY <1>3, <2>1
<1>4. CASE all # {}
  <2> DEFINE m == Latest(all)
  <2>1. m \in all /\ \A e \in all : e <= m
    BY <1>2, <1>4, LatestIs
  <2>2. PICK g \in G : m \in F[g]
    BY <2>1
  <2>3. \A e \in F[g] : e \in all
    OBVIOUS
  <2> HIDE DEF m
  <2>4. Latest(F[g]) = m
    <3>1. \A e \in F[g] : e <= m
      BY <2>1, <2>3
    <3> HIDE DEF all
    <3> QED
      BY <1>0, <1>1, <2>2, <3>1, LatestIs
  <2>5. m \in ends
    BY <1>0, <2>2, <2>4
  <2>6. \A e \in ends : e <= m
    BY <1>2, <2>1
  <2>7. ends \in SUBSET Nat /\ IsFiniteSet(ends)
    <3>1. IsFiniteSet(all)
      OBVIOUS
    <3> HIDE DEF all, ends
    <3> QED
      BY <1>2, <3>1, FS_Subset
  <2> HIDE DEF all, ends
  <2>8. Latest(ends) = m
    BY <2>5, <2>6, <2>7, LatestIs
  <2> QED
    BY <2>8 DEF m, all, ends
<1> QED
  BY <1>3, <1>4

----------------------------------------------------------------------------
(* Rows computed from children *)

\* What update_cycle_task_tree computes for a group is a row of an existing group.
LEMMA GroupRowTyped ==
  ASSUME NEW task \in [Tasks -> TaskRowType], NEW g \in Groups
  PROVE  /\ GroupRow(task, g) \in GroupRowType
         /\ GroupRow(task, g).status # "Absent"
<1> DEFINE live == {t \in TasksOf(g) : Live(task[t])}
           S == {task[t].status : t \in live}
<1>1. live \subseteq Tasks
  BY DEF TasksOf
<1>2. "Verified" \in S => VerificationNeeded
  BY <1>1, VerifiedNeeded
<1>3. AggregateStatus(S) \in ParentStatuses
  BY <1>2, AggregateStatusType
<1>4. /\ {StartDay[t] : t \in live} \subseteq Nat
      /\ {EndDay[t] : t \in live} \subseteq Nat
      /\ {EndDay[t] : t \in {u \in live : ~IsDone(task[u])}} \subseteq Nat
  BY <1>1, TreeShape
<1>5. /\ Earliest({StartDay[t] : t \in live}) \in Nat
      /\ Latest({EndDay[t] : t \in live}) \in Nat
      /\ Earliest({EndDay[t] : t \in {u \in live : ~IsDone(task[u])}}) \in Nat
  BY <1>4, RangeType
<1> QED
  BY <1>3, <1>5 DEF GroupRow, GroupRowType, ParentStatuses

\* What update_cycle_task_group_parent_state computes for a cycle has the types
\* of a cycle's columns.
LEMMA CycleRowTyped ==
  ASSUME NEW group \in [Groups -> GroupRowType], NEW c \in Cycles
  PROVE  /\ CycleRow(group, c).status \in ParentStatuses
         /\ CycleRow(group, c).start \in Nat
         /\ CycleRow(group, c).end \in Nat
         /\ CycleRow(group, c).due \in Nat
<1> DEFINE gs == GroupsOf(c)
           S == {group[g].status : g \in gs}
           starts == {group[g].start : g \in gs} \ {NoDay}
           ends == {group[g].end : g \in gs} \ {NoDay}
           dues == {group[g].due : g \in {h \in gs : ~IsDone(group[h])}} \ {NoDay}
<1>1. gs \subseteq Groups
  BY DEF GroupsOf
<1>2. "Verified" \in S => VerificationNeeded
  BY <1>1, GroupVerifiedNeeded
<1>3. AggregateStatus(S) \in ParentStatuses
  BY <1>2, AggregateStatusType
<1>4. starts \subseteq Nat /\ ends \subseteq Nat /\ dues \subseteq Nat
  BY <1>1 DEF GroupRowType
<1>5. Earliest(starts) \in Nat /\ Latest(ends) \in Nat /\ Earliest(dues) \in Nat
  BY <1>4, RangeType
<1> QED
  BY <1>3, <1>5 DEF CycleRow

\* The row of a cycle of one group has the group's own status and range.
LEMMA CycleRowOfOne ==
  ASSUME NEW group \in [Groups -> GroupRowType], NEW c \in Cycles, NEW g \in Groups,
         GroupsOf(c) = {g}, group[g].status # "Absent"
  PROVE  \A k \in {"status", "start", "end"} : CycleRow(group, c)[k] = group[g][k]
<1> DEFINE row == group[g]
<1>1. row.status \in ParentStatuses /\ row.start \in Nat /\ row.end \in Nat
  BY DEF GroupRowType
<1>2. /\ {group[h].status : h \in GroupsOf(c)} = {row.status}
      /\ {group[h].start : h \in GroupsOf(c)} = {row.start}
      /\ {group[h].end : h \in GroupsOf(c)} = {row.end}
  OBVIOUS
<1> HIDE DEF row
<1>3. AggregateStatus({row.status}) = row.status
  <2>1. CASE row.status = "Deprecated"
    <3>1. {row.status} \ {"Deprecated"} = {}
      BY <2>1
    <3> QED
      BY <2>1, <3>1 DEF AggregateStatus
  <2>2. CASE row.status # "Deprecated"
    <3>1. {row.status} \ {"Deprecated"} = {row.status}
      BY <2>2
    <3>2. row.status \in {"Assigned", "InProgress", "Finished", "Verified"}
      BY <1>1, <2>2 DEF ParentStatuses
    <3> QED
      BY <3>1, <3>2 DEF AggregateStatus
  <2> QED
    BY <2>1, <2>2
<1>4. ASSUME NEW d \in Nat
      PROVE  Earliest({d} \ {NoDay}) = d /\ Latest({d} \ {NoDay}) = d
  <2>1. CASE d = NoDay
    <3>1. {d} \ {NoDay} = {}
      BY <2>1
    <3> QED
      BY <2>1, <3>1 DEF Earliest, Latest
  <2>2. CASE d # NoDay
    <3>1. {d} \ {NoDay} = {d}
      BY <2>2
    <3> QED
      BY <3>1 DEF Earliest, Latest
  <2> QED
    BY <2>1, <2>2
<1>5. /\ CycleRow(group, c).status = AggregateStatus({row.status})
      /\ CycleRow(group, c).start = Earliest({row.start} \ {NoDay})
      /\ CycleRow(group, c).end = Latest({row.end} \ {NoDay})
  BY <1>2 DEF CycleRow
<1> QED
  BY <1>1, <1>3, <1>4, <1>5 DEF row

\* A group's row depends on the rows of its own tasks only.
LEMMA GroupRowLocal ==
  ASSUME NEW a, NEW b, NEW g, \A t \in TasksOf(g) : a[t] = b[t]
  PROVE  GroupRow(a, g) = GroupRow(b, g)
<1>1. {t \in TasksOf(g) : Live(a[t])} = {t \in TasksOf(g) : Live(b[t])}
  OBVIOUS
<1> DEFINE live == {t \in TasksOf(g) : Live(a[t])}
<1>2. \A t \in live : a[t] = b[t]
  OBVIOUS
<1>3. {a[t].status : t \in live} = {b[t].status : t \in live}
  BY <1>2
<1>4. {u \in live : ~IsDone(a[u])} = {u \in live : ~IsDone(b[u])}
  BY <1>2
<1> QED
  BY <1>1, <1>3, <1>4 DEF GroupRow

\* A cycle's row depends on the rows of its own groups only.
LEMMA CycleRowLocal ==
  ASSUME NEW a, NEW b, NEW c, \A g \in GroupsOf(c) : a[g] = b[g]
  PROVE  CycleRow(a, c) = CycleRow(b, c)
<1> DEFINE gs == GroupsOf(c)
<1>1. /\ {a[g].status : g \in gs} = {b[g].status : g \in gs}
      /\ {a[g].start : g \in gs} = {b[g].start : g \in gs}
      /\ {a[g].end : g \in gs} = {b[g].end : g \in gs}
  OBVIOUS
<1>2. {h \in gs : ~IsDone(a[h])} = {h \in gs : ~IsDone(b[h])}
  OBVIOUS
<1>3. {a[g].due : g \in {h \in gs : ~IsDone(a[h])}} = {b[g].due : g \in {h \in gs : ~IsDone(b[h])}}
  BY <1>2
<1> QED
  BY <1>1, <1>3 DEF CycleRow

----------------------------------------------------------------------------
(* The flush *)

\* A flush over the row that was loaded stores the new row.
LEMMA FlushLoadedGroup ==
  ASSUME NEW row \in GroupRowType, NEW new \in GroupRowType
  PROVE  Flush(row, row, new) = new
BY DEF Flush, GroupRowType

LEMMA FlushLoadedCycle ==
  ASSUME NEW row \in CycleRowType, NEW new \in CycleRowType
  PROVE  Flush(row, row, new) = new
BY DEF Flush, CycleRowType

\* Whatever was loaded, a flush leaves a row of the table's type.
LEMMA FlushType ==
  /\ \A row, loaded, new \in GroupRowType : Flush(row, loaded, new) \in GroupRowType
  /\ \A row, loaded, new \in CycleRowType : Flush(row, loaded, new) \in CycleRowType
  /\ \A row, loaded, new \in WorkflowRowType : Flush(row, loaded, new) \in WorkflowRowType
  /\ \A row, loaded, new \in TaskRowType : Flush(row, loaded, new) \in TaskRowType
<1>1. \A row, loaded, new \in GroupRowType : Flush(row, loaded, new) \in GroupRowType
  BY DEF Flush, GroupRowType
<1>2. \A row, loaded, new \in CycleRowType : Flush(row, loaded, new) \in CycleRowType
  BY DEF Flush, CycleRowType
<1>3. \A row, loaded, new \in WorkflowRowType : Flush(row, loaded, new) \in WorkflowRowType
  BY DEF Flush, WorkflowRowType
<1>4. \A row, loaded, new \in TaskRowType : Flush(row, loaded, new) \in TaskRowType
  BY DEF Flush, TaskRowType
<1> QED
  BY <1>1, <1>2, <1>3, <1>4

\* Column by column: a flush stores the new value, or leaves the column alone
\* because the new value is the one loaded.
LEMMA FlushColumn ==
  ASSUME NEW row \in GroupRowType, NEW loaded \in GroupRowType, NEW new \in GroupRowType,
         NEW k \in Columns
  PROVE  /\ new[k] # loaded[k] => Flush(row, loaded, new)[k] = new[k]
         /\ new[k] = loaded[k] => Flush(row, loaded, new)[k] = row[k]
BY DEF Flush, GroupRowType, Columns

\* Rows of a group that agree in every column are equal.
LEMMA GroupRowColumns ==
  ASSUME NEW a \in GroupRowType, NEW b \in GroupRowType, \A k \in Columns : a[k] = b[k]
  PROVE  a = b
BY DEF GroupRowType, Columns

----------------------------------------------------------------------------
(* The propagation *)

LEMMA TreeFields ==
  ASSUME NEW d \in TreeType
  PROVE  /\ d.task \in [Tasks -> TaskRowType]
         /\ d.group \in [Groups -> GroupRowType]
         /\ d.cycle \in [Cycles -> CycleRowType]
         /\ d.wf \in WorkflowRowType
BY DEF TreeType

\* The rows a propagation works with are rows of their tables.
LEMMA SeenType ==
  ASSUME NEW d \in TreeType, NEW l \in TreeType, NEW mine, NEW gs
  PROVE  /\ SeenTasks(d, l, mine) \in [Tasks -> TaskRowType]
         /\ SeenGroups(d, l, mine, gs) \in [Groups -> GroupRowType]
<1>1. SeenTasks(d, l, mine) \in [Tasks -> TaskRowType]
  BY TreeFields DEF SeenTasks
<1>2. \A g \in Groups : GroupRow(SeenTasks(d, l, mine), g) \in GroupRowType
  BY <1>1, GroupRowTyped
<1> QED
  BY <1>1, <1>2, TreeFields DEF SeenGroups

LEMMA SeenCyclesType ==
  ASSUME NEW l \in TreeType, NEW gs, NEW group \in [Groups -> GroupRowType]
  PROVE  SeenCycles(l, gs, group) \in [Cycles -> CycleRowType]
<1> SUFFICES ASSUME NEW c \in Cycles
             PROVE  SeenCycles(l, gs, group)[c] \in CycleRowType
  BY DEF SeenCycles
<1>1. l.cycle[c] \in CycleRowType
  BY TreeFields
<1>2. l.cycle[c].current \in BOOLEAN
  BY <1>1 DEF CycleRowType
<1>3. /\ CycleRow(group, c).status \in ParentStatuses
      /\ CycleRow(group, c).start \in Nat
      /\ CycleRow(group, c).end \in Nat
      /\ CycleRow(group, c).due \in Nat
  BY CycleRowTyped
<1> QED
  BY <1>1, <1>2, <1>3 DEF SeenCycles, CycleRowType

LEMMA WorkflowStateType ==
  ASSUME NEW wf \in WorkflowRowType, NEW b
  PROVE  WorkflowState(wf, b) \in WorkflowRowType
BY DEF WorkflowState, WorkflowRowType

\* What a propagation leaves behind: the tasks untouched, and of the groups only
\* those of gs rewritten, each flushed over the row that was loaded.
LEMMA PropagationFields ==
  ASSUME NEW d \in TreeType, NEW l \in TreeType, NEW mine, NEW gs,
         NEW x \in Propagations(d, l, mine, gs)
  PROVE  /\ x.task = d.task
         /\ x.group = [g \in Groups |->
                        IF g \in gs
                        THEN Flush(d.group[g], l.group[g], GroupRow(SeenTasks(d, l, mine), g))
                        ELSE d.group[g]]
         /\ x.cycle = [c \in Cycles |->
                        Flush(d.cycle[c], l.cycle[c],
                              SeenCycles(l, gs, SeenGroups(d, l, mine, gs))[c])]
         /\ \E wf \in SeenWorkflows(l, SeenCycles(l, gs, SeenGroups(d, l, mine, gs))) :
              x.wf = Flush(d.wf, l.wf, wf)
<1> DEFINE group == SeenGroups(d, l, mine, gs)
           cycle == SeenCycles(l, gs, group)
<1>1. x \in Outcomes(d, l, gs, group, cycle)
  BY DEF Propagations
<1> HIDE DEF cycle
<1>2. PICK wf \in SeenWorkflows(l, cycle) :
        x = [task  |-> d.task,
             group |-> [g \in Groups |-> IF g \in gs THEN Flush(d.group[g], l.group[g], group[g])
                                                     ELSE d.group[g]],
             cycle |-> [c \in Cycles |-> Flush(d.cycle[c], l.cycle[c], cycle[c])],
             wf    |-> Flush(d.wf, l.wf, wf)]
  BY <1>1 DEF Outcomes
<1>3. \A g \in Groups : g \in gs => group[g] = GroupRow(SeenTasks(d, l, mine), g)
  BY DEF SeenGroups
<1> QED
  BY <1>2, <1>3 DEF cycle

LEMMA PropagationTasks ==
  ASSUME NEW d \in TreeType, NEW l \in TreeType, NEW mine, NEW gs,
         NEW x \in Propagations(d, l, mine, gs)
  PROVE  x.task = d.task
BY DEF Propagations, Outcomes

LEMMA PropagationGroups ==
  ASSUME NEW d \in TreeType, NEW l \in TreeType, NEW mine, NEW gs,
         NEW x \in Propagations(d, l, mine, gs), NEW g \in Groups
  PROVE  x.group[g] = IF g \in gs
                      THEN Flush(d.group[g], l.group[g], GroupRow(SeenTasks(d, l, mine), g))
                      ELSE d.group[g]
<1>1. x.group = [h \in Groups |->
                  IF h \in gs THEN Flush(d.group[h], l.group[h], SeenGroups(d, l, mine, gs)[h])
                  ELSE d.group[h]]
  BY DEF Propagations, Outcomes
<1>2. g \in gs => SeenGroups(d, l, mine, gs)[g] = GroupRow(SeenTasks(d, l, mine), g)
  BY DEF SeenGroups
<1> QED
  BY <1>1, <1>2

LEMMA PropagationCycles ==
  ASSUME NEW d \in TreeType, NEW l \in TreeType, NEW mine, NEW gs,
         NEW x \in Propagations(d, l, mine, gs), NEW c \in Cycles
  PROVE  x.cycle[c] = Flush(d.cycle[c], l.cycle[c],
                            SeenCycles(l, gs, SeenGroups(d, l, mine, gs))[c])
<1>1. x.cycle = [o \in Cycles |->
                  Flush(d.cycle[o], l.cycle[o], SeenCycles(l, gs, SeenGroups(d, l, mine, gs))[o])]
  BY DEF Propagations, Outcomes
<1> QED
  BY <1>1

\* A propagation leaves a tree behind.
LEMMA PropagationType ==
  ASSUME NEW d \in TreeType, NEW l \in TreeType, NEW mine, NEW gs,
         NEW x \in Propagations(d, l, mine, gs)
  PROVE  x \in TreeType
<1> DEFINE group == SeenGroups(d, l, mine, gs)
           cycle == SeenCycles(l, gs, group)
<1>1. PICK wf \in SeenWorkflows(l, cycle) :
        x = [task  |-> d.task,
             group |-> [g \in Groups |-> IF g \in gs THEN Flush(d.group[g], l.group[g], group[g])
                                                     ELSE d.group[g]],
             cycle |-> [c \in Cycles |-> Flush(d.cycle[c], l.cycle[c], cycle[c])],
             wf    |-> Flush(d.wf, l.wf, wf)]
  BY DEF Propagations, Outcomes
<1>2. group \in [Groups -> GroupRowType]
  BY SeenType
<1>3. cycle \in [Cycles -> CycleRowType]
  BY <1>2, SeenCyclesType
<1> HIDE DEF group, cycle
<1>4. wf \in WorkflowRowType
  BY <1>1, WorkflowStateType, TreeFields DEF SeenWorkflows
<1>5. x.group \in [Groups -> GroupRowType]
  BY <1>1, <1>2, FlushType, TreeFields
<1>6. x.cycle \in [Cycles -> CycleRowType]
  BY <1>1, <1>3, FlushType, TreeFields
<1>7. x.wf \in WorkflowRowType
  BY <1>1, <1>4, FlushType, TreeFields
<1>8. x.task \in [Tasks -> TaskRowType]
  BY <1>1, TreeFields
<1> QED
  BY <1>1, <1>5, <1>6, <1>7, <1>8 DEF TreeType

----------------------------------------------------------------------------
(* Saved tasks and new cycles *)

LEMMA SaveTaskType ==
  ASSUME NEW row \in TaskRowType, NEW loaded \in TaskRowType, NEW s \in TaskStatuses
  PROVE  SaveTask(row, loaded, s) \in TaskRowType
<1>1. WithStatus(loaded, s) \in TaskRowType
  BY DEF WithStatus, TaskRowType
<1>2. Flush(row, loaded, WithStatus(loaded, s)) \in TaskRowType
  BY <1>1, FlushType
<1> QED
  BY <1>2 DEF SaveTask, TaskRowType

\* build_cycle adds rows of the right types.
LEMMA BuildCyclesType ==
  ASSUME NEW d \in TreeType, NEW cs \in SUBSET Cycles
  PROVE  BuildCycles(d, cs) \in TreeType
<1> DEFINE task == [t \in Tasks |->
                      IF t \in Template /\ CycleOf[GroupOf[t]] \in cs
                      THEN [status |-> "Assigned", finished |-> FALSE, verified |-> FALSE]
                      ELSE d.task[t]]
           group == [g \in Groups |->
                       IF CycleOf[g] \in cs
                       THEN [GroupRow(task, g) EXCEPT !.status = "Assigned"]
                       ELSE d.group[g]]
           built(c) == [status |-> "Assigned", start |-> CycleRow(group, c).start,
                        end |-> CycleRow(group, c).end, due |-> CycleRow(group, c).due,
                        current |-> TRUE]
           cycle == [c \in Cycles |-> IF c \in cs THEN built(c) ELSE d.cycle[c]]
<1>1. task \in [Tasks -> TaskRowType]
  BY TreeFields DEF TaskRowType, TaskStatuses, ParentStatuses
<1>2. \A g \in Groups : GroupRow(task, g) \in GroupRowType
  BY <1>1, GroupRowTyped
<1>3. BuildCycles(d, cs) = [task |-> task, group |-> group, wf |-> d.wf, cycle |-> cycle]
  BY DEF BuildCycles
<1> HIDE DEF task
<1>4. "Assigned" \in ParentStatuses
  BY DEF ParentStatuses
<1>5. \A r \in GroupRowType : [r EXCEPT !.status = "Assigned"] \in GroupRowType
  BY <1>4 DEF GroupRowType
<1>6. group \in [Groups -> GroupRowType]
  BY <1>2, <1>5, TreeFields
<1> HIDE DEF group
<1>7. \A c \in Cycles : /\ CycleRow(group, c).start \in Nat
                       /\ CycleRow(group, c).end \in Nat
                       /\ CycleRow(group, c).due \in Nat
  BY <1>6, CycleRowTyped
<1>8. \A c \in Cycles : built(c) \in CycleRowType
  BY <1>4, <1>7 DEF CycleRowType
<1> HIDE DEF built
<1>9. cycle \in [Cycles -> CycleRowType]
  BY <1>8, TreeFields
<1> HIDE DEF cycle
<1> QED
  BY <1>1, <1>3, <1>6, <1>9, TreeFields DEF TreeType

\* The workflow row that the activating PUT writes.
LEMMA ActivatedType ==
  ASSUME NEW l \in TreeType, NEW on \in BOOLEAN
  PROVE  /\ Activated(l, on) \in WorkflowRowType
         /\ \/ ~Archives(l, on) /\ Activated(l, on).status = "Active"
            \/ Archives(l, on) /\ Activated(l, on).status =
                  IF \E c \in Cycles : l.cycle[c].current THEN "Active" ELSE "Inactive"
<1> DEFINE wf == [status |-> "Active", recurrences |-> on]
<1>1. wf \in WorkflowRowType /\ wf.status = "Active" /\ wf.status # "Draft"
  BY DEF WorkflowRowType
<1>2. Activated(l, on) = IF Archives(l, on)
                         THEN WorkflowState(wf, \E c \in Cycles : l.cycle[c].current) ELSE wf
  BY DEF Activated
<1> HIDE DEF wf
<1>3. \A b \in BOOLEAN : /\ WorkflowState(wf, b) \in WorkflowRowType
                        /\ WorkflowState(wf, b).status = IF b THEN "Active" ELSE "Inactive"
  BY <1>1 DEF WorkflowState, WorkflowRowType
<1> QED
  BY <1>1, <1>2, <1>3

\* A propagation inserts no row: it rewrites groups that exist, and of the
\* cycles only theirs.
LEMMA PropagationInserts ==
  ASSUME NEW d \in TreeType, NEW l \in TreeType, NEW mine, NEW gs,
         NEW x \in Propagations(d, l, mine, gs),
         \A g \in gs : /\ g \in Groups
                      /\ d.group[g].status # "Absent"
                      /\ d.cycle[CycleOf[g]].status # "Absent"
  PROVE  /\ \A g \in Groups : x.group[g].status = "Absent" <=> d.group[g].status = "Absent"
         /\ \A c \in Cycles : x.cycle[c].status = "Absent" <=> d.cycle[c].status = "Absent"
<1> DEFINE tasks == SeenTasks(d, l, mine)
           group == SeenGroups(d, l, mine, gs)
           cycle == SeenCycles(l, gs, group)
<1>0. /\ x.group = [g \in Groups |-> IF g \in gs
                                     THEN Flush(d.group[g], l.group[g], GroupRow(tasks, g))
                                     ELSE d.group[g]]
      /\ x.cycle = [c \in Cycles |-> Flush(d.cycle[c], l.cycle[c], cycle[c])]
  BY PropagationFields
<1>1. tasks \in [Tasks -> TaskRowType] /\ group \in [Groups -> GroupRowType]
  BY SeenType
<1>2. cycle \in [Cycles -> CycleRowType]
  BY <1>1, SeenCyclesType
<1>3. ASSUME NEW g \in Groups
      PROVE  x.group[g].status = "Absent" <=> d.group[g].status = "Absent"
  <2>1. CASE g \notin gs
    BY <1>0, <2>1
  <2>2. CASE g \in gs
    <3>1. /\ GroupRow(tasks, g) \in GroupRowType
          /\ GroupRow(tasks, g).status # "Absent"
          /\ d.group[g] \in GroupRowType
          /\ l.group[g] \in GroupRowType
      BY <1>1, GroupRowTyped, TreeFields
    <3>2. x.group[g] = Flush(d.group[g], l.group[g], GroupRow(tasks, g))
      BY <1>0, <2>2
    <3>3. x.group[g].status \in {GroupRow(tasks, g).status, d.group[g].status}
      BY <3>1, <3>2 DEF Flush, GroupRowType
    <3> QED
      BY <2>2, <3>1, <3>3
  <2> QED
    BY <2>1, <2>2
<1>4. ASSUME NEW c \in Cycles
      PROVE  x.cycle[c].status = "Absent" <=> d.cycle[c].status = "Absent"
  <2>0. x.cycle[c] = Flush(d.cycle[c], l.cycle[c], cycle[c])
    BY <1>0
  <2>1. d.cycle[c] \in CycleRowType /\ l.cycle[c] \in CycleRowType /\ cycle[c] \in CycleRowType
    BY <1>2, TreeFields
  <2>2. x.cycle[c].status = IF cycle[c].status # l.cycle[c].status THEN cycle[c].status
                            ELSE d.cycle[c].status
    BY <2>0, <2>1 DEF Flush, CycleRowType
  <2>3. CASE \A g \in gs \cap GroupsOf(c) : group[g] = l.group[g]
    <3>1. cycle[c] = l.cycle[c]
      BY <2>3 DEF SeenCycles
    <3> QED
      BY <2>2, <3>1
  <2>4. CASE \E g \in gs : CycleOf[g] = c
    <3>1. d.cycle[c].status # "Absent"
      BY <2>4
    <3>2. CycleRow(group, c).status \in ParentStatuses
      BY <1>1, CycleRowTyped
    <3>3. cycle[c].status \in ParentStatuses \cup {l.cycle[c].status}
      BY <3>2 DEF SeenCycles
    <3>4. "Absent" \notin ParentStatuses
      BY DEF ParentStatuses
    <3> QED
      BY <2>2, <3>1, <3>3, <3>4
  <2> QED
    BY <2>3, <2>4 DEF GroupsOf
<1> QED
  BY <1>3, <1>4

\* What build_cycle inserts, and that it leaves every other row alone: the
\* tasks of the template, the groups, and the cycles.
LEMMA BuildCyclesTasks ==
  ASSUME NEW d \in TreeType, NEW cs \in SUBSET Cycles
  PROVE  /\ BuildCycles(d, cs).task = [t \in Tasks |->
                        IF t \in Template /\ CycleOf[GroupOf[t]] \in cs
                        THEN [status |-> "Assigned", finished |-> FALSE, verified |-> FALSE]
                        ELSE d.task[t]]
         /\ BuildCycles(d, cs).wf = d.wf
  BY DEF BuildCycles

LEMMA BuildCyclesGroups ==
  ASSUME NEW d \in TreeType, NEW cs \in SUBSET Cycles, NEW g \in Groups
  PROVE  /\ BuildCycles(d, cs).group[g] =
              IF CycleOf[g] \in cs
              THEN [GroupRow(BuildCycles(d, cs).task, g) EXCEPT !.status = "Assigned"]
              ELSE d.group[g]
         /\ CycleOf[g] \in cs => BuildCycles(d, cs).group[g].status = "Assigned"
<1> DEFINE x == BuildCycles(d, cs)
<1>1. x.group = [h \in Groups |-> IF CycleOf[h] \in cs
                                 THEN [GroupRow(x.task, h) EXCEPT !.status = "Assigned"]
                                 ELSE d.group[h]]
  BY DEF BuildCycles
<1> HIDE DEF x
<1>2. [GroupRow(x.task, g) EXCEPT !.status = "Assigned"].status = "Assigned"
  BY DEF GroupRow
<1>3. x.group[g] = IF CycleOf[g] \in cs
                   THEN [GroupRow(x.task, g) EXCEPT !.status = "Assigned"] ELSE d.group[g]
  BY <1>1
<1> QED
  BY <1>2, <1>3 DEF x

LEMMA BuildCyclesCycles ==
  ASSUME NEW d \in TreeType, NEW cs \in SUBSET Cycles, NEW c \in Cycles
  PROVE  /\ c \notin cs => BuildCycles(d, cs).cycle[c] = d.cycle[c]
         /\ c \in cs => /\ BuildCycles(d, cs).cycle[c].status = "Assigned"
                        /\ BuildCycles(d, cs).cycle[c].start =
                             CycleRow(BuildCycles(d, cs).group, c).start
                        /\ BuildCycles(d, cs).cycle[c].end =
                             CycleRow(BuildCycles(d, cs).group, c).end
                        /\ BuildCycles(d, cs).cycle[c].due =
                             CycleRow(BuildCycles(d, cs).group, c).due
                        /\ BuildCycles(d, cs).cycle[c].current = TRUE
<1> DEFINE x == BuildCycles(d, cs)
<1>1. x.cycle = [o \in Cycles |->
                  IF o \in cs
                  THEN [status |-> "Assigned", start |-> CycleRow(x.group, o).start,
                        end |-> CycleRow(x.group, o).end, due |-> CycleRow(x.group, o).due,
                        current |-> TRUE]
                  ELSE d.cycle[o]]
  BY DEF BuildCycles
<1> HIDE DEF x
<1>2. /\ c \notin cs => x.cycle[c] = d.cycle[c]
      /\ c \in cs => x.cycle[c] = [status |-> "Assigned", start |-> CycleRow(x.group, c).start,
                                  end |-> CycleRow(x.group, c).end,
                                  due |-> CycleRow(x.group, c).due, current |-> TRUE]
  BY <1>1
<1>3. c \in cs => /\ x.cycle[c].status = "Assigned"
                  /\ x.cycle[c].start = CycleRow(x.group, c).start
                  /\ x.cycle[c].end = CycleRow(x.group, c).end
                  /\ x.cycle[c].due = CycleRow(x.group, c).due
                  /\ x.cycle[c].current = TRUE
  BY <1>2
<1> QED
  BY <1>2, <1>3 DEF x

\* The rows of other cycles stay, and a new group is Assigned.
LEMMA BuildCyclesKeeps ==
  ASSUME NEW d \in TreeType, NEW cs \in SUBSET Cycles
  PROVE  /\ \A t \in Tasks : CycleOf[GroupOf[t]] \notin cs => BuildCycles(d, cs).task[t] = d.task[t]
         /\ \A g \in Groups : IF CycleOf[g] \in cs
                             THEN BuildCycles(d, cs).group[g].status = "Assigned"
                             ELSE BuildCycles(d, cs).group[g] = d.group[g]
<1>1. ASSUME NEW t \in Tasks, CycleOf[GroupOf[t]] \notin cs
      PROVE  BuildCycles(d, cs).task[t] = d.task[t]
  <2> DEFINE task == BuildCycles(d, cs).task
  <2>1. task = [u \in Tasks |->
                  IF u \in Template /\ CycleOf[GroupOf[u]] \in cs
                  THEN [status |-> "Assigned", finished |-> FALSE, verified |-> FALSE]
                  ELSE d.task[u]]
    BY BuildCyclesTasks
  <2> HIDE DEF task
  <2> QED
    BY <1>1, <2>1 DEF task
<1>2. ASSUME NEW g \in Groups
      PROVE  IF CycleOf[g] \in cs THEN BuildCycles(d, cs).group[g].status = "Assigned"
                                  ELSE BuildCycles(d, cs).group[g] = d.group[g]
  <2> DEFINE row == BuildCycles(d, cs).group[g]
             new == [GroupRow(BuildCycles(d, cs).task, g) EXCEPT !.status = "Assigned"]
  <2>1. /\ row = IF CycleOf[g] \in cs THEN new ELSE d.group[g]
        /\ CycleOf[g] \in cs => row.status = "Assigned"
    BY BuildCyclesGroups
  <2> HIDE DEF row, new
  <2> QED
    BY <2>1 DEF row
<1> QED
  BY <1>1, <1>2

\* A new group is Assigned as its tasks are, if it has any and had none before.
LEMMA BuildCyclesFresh ==
  ASSUME NEW d \in TreeType, NEW cs \in SUBSET Cycles, NEW g \in Groups, CycleOf[g] \in cs,
         \A t \in TasksOf(g) : ~Live(d.task[t]),
         TasksOf(g) \cap Template # {}
  PROVE  BuildCycles(d, cs).group[g] = GroupRow(BuildCycles(d, cs).task, g)
<1> DEFINE task == BuildCycles(d, cs).task
           live == {t \in TasksOf(g) : Live(task[t])}
<1>2. \A t \in TasksOf(g) : t \in Tasks /\ CycleOf[GroupOf[t]] \in cs
  BY DEF TasksOf
<1>3. \A t \in TasksOf(g) : task[t] = IF t \in Template
                                     THEN [status |-> "Assigned", finished |-> FALSE, verified |-> FALSE]
                                     ELSE d.task[t]
  <2>1. task = [t \in Tasks |->
                  IF t \in Template /\ CycleOf[GroupOf[t]] \in cs
                  THEN [status |-> "Assigned", finished |-> FALSE, verified |-> FALSE]
                  ELSE d.task[t]]
    BY BuildCyclesTasks
  <2> QED
    BY <1>2, <2>1
<1> HIDE DEF task
<1>4. live = TasksOf(g) \cap Template
  BY <1>3 DEF Live
<1>5. {task[t].status : t \in live} = {"Assigned"}
  BY <1>3, <1>4
<1>6. AggregateStatus({"Assigned"}) = "Assigned"
  <2> DEFINE counted == {"Assigned"} \ {"Deprecated"}
  <2>1. counted = {"Assigned"} /\ counted \cap {"Assigned", "InProgress", "Declined"} # {}
    OBVIOUS
  <2> QED
    BY <2>1 DEF AggregateStatus
<1>7. GroupRow(task, g).status = "Assigned"
  BY <1>5, <1>6 DEF GroupRow
<1>8. BuildCycles(d, cs).group[g] = [GroupRow(task, g) EXCEPT !.status = "Assigned"]
  BY BuildCyclesGroups DEF task
<1> QED
  BY <1>7, <1>8 DEF GroupRow, task
=============================================================================
