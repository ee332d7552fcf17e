---------------------------- MODULE MCRequestCaches ----------------------------
(* Instances of RequestCaches for TLC. *)
EXTENDS RequestCaches, TLC

CONSTANTS w1, w2, u1, u2, task, cycle, assessment

\* The mappings of a cycle task lead to its cycle; cache.py registers the class
\* 'Assessments', which is not the name of the model.
Known == {task, cycle}
Mappings == [o \in Objects |-> IF o = task THEN {cycle} ELSE {}]

Changing(first, after) == [r \in Rounds |-> IF r = "first" THEN first ELSE after]

\* A PUT of a task, whose handlers propagate its status and commit.
PutTask == [kind |-> "put", target |-> task, changes |-> Changing({task}, {cycle}),
            roles |-> {}, own |-> TRUE, refs |-> {}]
\* A PUT that changes the people of an assessment, whose handlers leave a change
\* of the cycle to the second commit.
PutPeople == [kind |-> "put", target |-> assessment,
              changes |-> Changing({assessment}, {cycle}),
              roles |-> {"first"}, own |-> FALSE, refs |-> {}]
\* The deletion of another task of the cycle.
DeleteTask == [kind |-> "delete", target |-> task, changes |-> Changing({}, {cycle}),
               roles |-> {}, own |-> TRUE, refs |-> {}]
\* A clone that is mapped to the assessment; a handler copies its people.
PostClone == [kind |-> "post", target |-> task, changes |-> Changing({assessment}, {cycle}),
              roles |-> Rounds, own |-> FALSE, refs |-> {assessment}]
\* A bulk update of the task and of its cycle.
BulkUpdate == [kind |-> "patch", target |-> task, changes |-> Changing({task, cycle}, {}),
               roles |-> {}, own |-> FALSE, refs |-> {}]

AllWrites == {PutTask, PutPeople, DeleteTask, PostClone, BulkUpdate}
PeopleWrites == {PutPeople}

Symmetry == Permutations(Workers) \cup Permutations(Users)
=============================================================================
