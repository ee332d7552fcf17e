------------------------------ MODULE MCAutomapper ------------------------------
(* Instances of Automapper for TLC. *)
EXTENDS Automapper, TLC

CONSTANTS w1, w2,
  program, regulation, section, objective,
  issue, assessment1, assessment2, audit1, audit2, snapshot

AllObjects == {program, regulation, section, objective,
               issue, assessment1, assessment2, audit1, audit2, snapshot}

TypeOf ==
  [o \in AllObjects |->
     CASE o = program -> "Program"
       [] o = regulation -> "Regulation"
       [] o = section -> "Section"
       [] o = objective -> "Objective"
       [] o = issue -> "Issue"
       [] o = snapshot -> "Snapshot"
       [] o \in {assessment1, assessment2} -> "Assessment"
       [] OTHER -> "Audit"]

\* The rules of automapper/rules.py that these types meet.
SomeRules ==
  ({"Program"} \X {"Regulation"} \X {"Section", "Objective"})
  \cup {<<"Regulation", "Section", "Objective">>, <<"Section", "Objective", "Objective">>}
  \cup ({"Issue"} \X {"Assessment"} \X {"Audit", "Snapshot"})

\* A chain of objects, in one request or in several ...
PostedChain ==
  {{{program, regulation}}, {{regulation, section}},
   {{program, regulation}, {section, objective}},
   {{regulation, section}, {section, objective}}}
\* ... and an issue raised on assessments, or mapped to an audit.
PostedIssue ==
  {{{issue, assessment1}}, {{issue, assessment2}}, {{issue, audit1}},
   {{issue, assessment1}, {issue, assessment2}}, {{issue, snapshot}}}

\* Either assessment is mapped to its audit; the first one has a snapshot.
Starts ==
  {{}, {{assessment1, audit1}, {assessment2, audit2}, {assessment1, snapshot}},
   {{assessment1, audit1}, {assessment2, audit1}, {assessment1, snapshot},
    {assessment2, snapshot}}}

PostedAll == PostedChain \cup PostedIssue
SomeDenied == {{}, {regulation, snapshot}}
================================================================================
