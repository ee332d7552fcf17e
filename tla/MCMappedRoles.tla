----------------------------- MODULE MCMappedRoles -----------------------------
(* Instances of MappedRoles for TLC. *)
EXTENDS MappedRoles, TLC

CONSTANTS w1, w2, a1, a2, p1, p2, control, regulation

\* A control snapshot with a regulation snapshot that is mapped to it.
Snapshots == {control, regulation}
Regulations == [o \in Snapshots |-> IF o = control THEN {regulation} ELSE {}]

Assign(a, people) == [kind |-> "people", asmnt |-> a, people |-> people]
Map(pairs) == [kind |-> "map", pairs |-> pairs]
Unmap(a, o, import) == [kind |-> "unmap", pair |-> <<a, o>>, import |-> import]

AllOperations ==
  {Assign(a1, {}), Assign(a1, {p1}), Assign(a1, {p1, p2}), Assign(a2, {p1})}
  \cup {Map({<<a1, control>>}), Map({<<a1, regulation>>}),
        Map({<<a1, control>>, <<a2, control>>})}
  \cup {Unmap(a1, o, FALSE) : o \in Snapshots} \cup {Unmap(a1, control, TRUE)}
================================================================================
