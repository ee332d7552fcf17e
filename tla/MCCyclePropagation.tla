-------------------------- MODULE MCCyclePropagation --------------------------
(* Instances of CyclePropagation for TLC. *)
EXTENDS CyclePropagation, TLC

CONSTANTS t1, t2, t3, g1, g2, c1, c2

\* g1 holds t1 and t2, g2 holds t3.
TwoGroups == [t \in Tasks |-> IF t = t3 THEN g2 ELSE g1]
\* One group, for requests that meet in it.
OneGroup == [t \in Tasks |-> g1]
\* Both groups in one cycle, or a cycle for each.
OneCycle == [g \in Groups |-> c1]
TwoCycles == [g \in Groups |-> IF g = g2 THEN c2 ELSE c1]

StartDays == [t \in Tasks |-> CASE t = t1 -> 1 [] t = t2 -> 3 [] t = t3 -> 2]
EndDays == [t \in Tasks |-> CASE t = t1 -> 4 [] t = t2 -> 5 [] t = t3 -> 6]

RequestSymmetry == Permutations(Requests)
=============================================================================
