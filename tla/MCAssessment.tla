----------------------------- MODULE MCAssessment -----------------------------
(* Instances of AssessmentRequests for TLC. *)
EXTENDS AssessmentRequests, TLC

CONSTANTS w1, w2

Move(status) == [kind |-> "put", status |-> status, change |-> "none", complete |-> TRUE]
Edit(change, complete) ==
  [kind |-> "put", status |-> "same", change |-> change, complete |-> complete]
Map(change, complete) ==
  [kind |-> "relationship", status |-> "same", change |-> change, complete |-> complete]
Document(change, complete) ==
  [kind |-> "document", status |-> "same", change |-> change, complete |-> complete]

\* A new assessment without mandatory pieces, and one in review.
NewOrInReview ==
  LET ready == [NewRow EXCEPT !.evidence = TRUE]
  IN  {ready, SetStatus(ready, "In Review")}

\* The moves that differ, edits of tracked and other attributes, and mappings.
AllOperations ==
  {Move(s) : s \in {"In Progress", "In Review", "Verified", "Deprecated"}}
  \cup {Edit("label", TRUE), [Move("In Review") EXCEPT !.change = "attribute"]}
  \cup {Map("attachment", FALSE), Document("attachment", TRUE)}

================================================================================
