---------------------------- MODULE AssessmentStatus ----------------------------
(****************************************************************************)
(* What the code computes about one assessment: the chain of validate_status *)
(* methods that every assignment of the status runs through, the changes      *)
(* that put an assessment back to "In Progress", and the notifications that   *)
(* a change asks for.  A date is present or absent; "evidence" says that no    *)
(* mandatory attribute value, comment or document is missing.                 *)
(****************************************************************************)
EXTENDS Naturals, FiniteSets

NotDone == {"Not Started", "In Progress", "Rework Needed"}
Done == {"In Review", "Verified", "Completed"}
Statuses == NotDone \cup Done \cup {"Deprecated"}
\* What can be stored: "Verified" is replaced by "Completed".
Stored == Statuses \ {"Verified"}

Row == [status : Stored, finished : BOOLEAN, verified : BOOLEAN, evidence : BOOLEAN]

NewRow == [status |-> "Not Started", finished |-> FALSE, verified |-> FALSE,
           evidence |-> FALSE]

-----------------------------------------------------------------------------
(* Setting the status.                                                       *)

(* Mutant: nothing is validated on completion. *)
RefusedReworkOnly(row, value) ==
  row.status = "Rework Needed" /\ value \in {"Not Started", "In Progress"}

(* ValidateOnComplete and Assessment.validate_status raise. *)
Refused(row, value) ==
  \/ row.status \in NotDone /\ value \in Done /\ ~row.evidence
  \/ row.status = "Rework Needed" /\ value \in {"Not Started", "In Progress"}

(* Mutants: a date is never unset; "Verified" is stored.                      *)
SetStatusKeepVerified(row, value) ==
  [row EXCEPT !.status = IF value = "Verified" THEN "Completed" ELSE value,
              !.verified = row.verified \/ value = "Verified",
              !.finished = value \in Done]
SetStatusVerified(row, value) ==
  [row EXCEPT !.status = value, !.verified = value = "Verified", !.finished = value \in Done]

(* VerifiedDate, then FinishedDate, on a value that was not refused.          *)
SetStatus(row, value) ==
  LET final == IF value = "Verified" THEN "Completed" ELSE value
  IN  [row EXCEPT
         !.status = final,
         !.verified = \/ value = "Verified"
                      \/ row.verified /\ ~(row.status \in Done /\ value \notin Done),
         !.finished = \/ row.status \in NotDone /\ final \in Done
                      \/ row.finished /\ ~(row.status \in Done /\ final \in NotDone)]

-----------------------------------------------------------------------------
(* AutoStatusChangeable.                                                     *)

(* The states that a change of each kind puts back to "In Progress": a first  *)
(* class attribute, a local or global custom attribute, and the mapping or     *)
(* unmapping of a document, a snapshot or a comment.  Other attributes, such   *)
(* as the labels, and people are not among the tracked ones.                   *)
MonitorStates(change) ==
  CASE change \in {"attribute", "global", "reference", "snapshot"} -> {"In Review", "Completed"}
    [] change \in {"local", "attachment"} -> {"In Review", "Completed", "Not Started"}
    [] change = "comment" -> {"Not Started"}
    [] OTHER -> {}

(* adjust_status_before_flush *)
ResetStatus(row, change) ==
  IF row.status \in MonitorStates(change) THEN SetStatus(row, "In Progress") ELSE row

-----------------------------------------------------------------------------
(* The notifications a change asks for.  A request deletes the rows of every  *)
(* type in "Transitions", "declined" and "updated" (remove_existing) or none;  *)
(* it adds rows; or it finds an unsent "updated" row and touches it.            *)

Types == {"started", "completed", "review", "verified", "reopened", "declined", "updated"}

Effect == [deletes : BOOLEAN, adds : SUBSET Types, touches : BOOLEAN]
Silence == [deletes |-> FALSE, adds |-> {}, touches |-> FALSE]

(* transitions_map *)
Transition(old, new) ==
  CASE old = "Not Started" /\ new = "In Progress" -> {"started"}
    [] old \in {"Not Started", "In Progress"} /\ new = "Completed" -> {"completed"}
    [] old \in {"Not Started", "In Progress"} /\ new = "In Review" -> {"review"}
    [] old = "In Review" /\ new = "Completed" -> {"verified"}
    [] old \in {"Completed", "In Review"} /\ new = "In Progress" -> {"reopened"}
    [] OTHER -> {}

(* What a modified assessment is in for, by its status before any reset.       *)
Reaction(status) ==
  CASE status \in Done -> {"reopened"}
    [] status = "Not Started" -> {"started"}
    [] OTHER -> {}

(* _add_assessment_updated_notif, when "unsent" has the types already there     *)
(* and the rows were deleted before or not.                                     *)
Updated(deleted, unsent) ==
  IF "updated" \in unsent /\ ~deleted THEN [adds |-> {}, touches |-> TRUE]
                                      ELSE [adds |-> {"updated"}, touches |-> FALSE]

(* handle_assignable_modified: the status went from old to new, and other       *)
(* attributes changed or not.  Setting "Deprecated" changes the end date.       *)
ModifiedEffect(old, new, edited, unsent) ==
  LET declined == IF old = "In Review" /\ new = "In Progress" /\ "declined" \notin unsent
                  THEN {"declined"} ELSE {}
      moved == Transition(old, new)
      changed == edited \/ (new = "Deprecated" /\ old # new)
      reaction == IF changed THEN Reaction(new) ELSE {}
      deletes == moved \cup reaction # {}
      updated == IF changed THEN Updated(deletes, unsent) ELSE [adds |-> {}, touches |-> FALSE]
  IN  [deletes |-> deletes, adds |-> declined \cup moved \cup reaction \cup updated.adds,
       touches |-> updated.touches]

(* handle_relationship_altered, in the order of its calls: the "updated" row is  *)
(* looked for before the others are deleted.                                     *)
RelatedEffect(status, change, unsent) ==
  LET updated == IF status # "Not Started" THEN Updated(FALSE, unsent)
                                           ELSE [adds |-> {}, touches |-> FALSE]
      started == IF status = "Not Started" THEN {"started"} ELSE {}
      reopened == IF status \in Done /\ change # "person" THEN {"reopened"} ELSE {}
  IN  IF change = "comment" THEN Silence
      ELSE [deletes |-> started \cup reopened # {},
            adds |-> updated.adds \cup started \cup reopened,
            touches |-> updated.touches]
=============================================================================
