------------------------------- MODULE Automapper -------------------------------
(****************************************************************************)
(* Requests that map and unmap objects, and the automapper: after the flush   *)
(* of new relationships it follows the rules from each of them and inserts     *)
(* the relationships they imply.  Mapping an issue to an audit, directly or     *)
(* by a rule, also sets the audit of the issue.                                *)
(*                                                                          *)
(* A relationship is the pair of the objects it maps; its direction is left     *)
(* out, so that the unique constraint, which is on the direction, too, holds     *)
(* for the pair.                                                              *)
(****************************************************************************)
EXTENDS Integers, FiniteSets

CONSTANTS
  Workers,     \* requests in service at the same time
  Objects,
  Type,        \* the type of each object
  Rules,       \* triples of types: top, mid, bottom
  Posted,      \* what a client may post: sets of pairs
  Denied,      \* what a user may be unable to edit: sets of objects
  StartPairs,  \* what may be mapped at the start: sets of pairs
  CountLimit,  \* COUNT_LIMIT
  MaxRequests, \* bound: mapping requests ever accepted
  MaxRemovals, \* bound: relationships ever deleted by a client
  None

Pair == {p \in SUBSET Objects : Cardinality(p) = 2}
OfType(t) == {o \in Objects : Type[o] = t}
Audits == OfType("Audit")
Issues == OfType("Issue")

Neighbours(o, pairs) == {x \in Objects : {o, x} \in pairs}
IsAuditIssue(pair) == \E a \in Audits, i \in Issues : pair = {a, i}

(* obj.type in rules[src.type, dst.type]: every rule is read from its top and its      *)
(* bottom.                                                                    *)
Mapping(src, dst, obj) ==
  <<Type[src], Type[dst], Type[obj]>> \in Rules \/ <<Type[obj], Type[dst], Type[src]>> \in Rules

(* _step: what the edge from src to dst asks for.                            *)
StepFrom(src, dst, pairs) ==
  {{o, src} : o \in {x \in Neighbours(dst, pairs) \ {src} : Mapping(src, dst, x)}}

Step(pair, pairs) == UNION {StepFrom(o[1], o[2], pairs) : o \in {e \in pair \X pair : e[1] # e[2]}}

(* What the rules imply from the edges of a set. *)
Implied(pairs) == UNION {Step(p, pairs) : p \in pairs}

ASSUME AutomapperAssumption ==
  /\ IsFiniteSet(Objects)
  /\ Type \in [Objects -> STRING]
  /\ Rules \subseteq STRING \X STRING \X STRING
  /\ Posted \subseteq SUBSET Pair
  /\ Denied \subseteq SUBSET Objects
  /\ StartPairs \subseteq SUBSET Pair
  /\ \A pairs \in StartPairs :
       Implied(pairs) \subseteq pairs /\ \A i \in Issues, a \in Audits : {a, i} \notin pairs
  /\ CountLimit \in Int /\ MaxRequests \in Nat /\ MaxRemovals \in Nat
  /\ None \notin Audits

(* The one rule of rules.py that maps an issue to a snapshot or to an audit is that    *)
(* of the assessments the issue was raised on.                                       *)
ASSUME IssueRuleAssumption ==
  \A rule \in Rules :
    {rule[1], rule[3]} \in {{"Issue", "Audit"}, {"Issue", "Snapshot"}} => rule[2] = "Assessment"

VARIABLES
  relationships,  \* the pairs in the table
  automapped,     \* those with an automapping_id
  auditOf,        \* Issue.audit_id
  session,        \* what each worker is doing
  requests,       \* mapping requests accepted so far
  removals,       \* relationships deleted by clients so far
  excused,        \* history: implied pairs that need not be there
  mixed           \* history: issues that overlapping requests mapped to two audits

table == <<relationships, automapped, auditOf>>
counters == <<requests, removals>>
history == <<excused, mixed>>
vars == <<table, session, counters, history>>

Idle == [pc |-> "idle"]
Busy == [pc : {"next", "map"},
         snap : SUBSET Pair,       \* the table when the request started
         posted : SUBSET Pair,     \* session.new
         todo : SUBSET Pair,       \* those the generator has still to come to
         queue : SUBSET Pair,
         processed : SUBSET Pair,
         related : SUBSET Pair,    \* related_cache and what it would read
         auto : SUBSET Pair,       \* auto_mappings, of the current relationship
         flushed : SUBSET Pair,    \* inserted for the relationships before it
         locked : SUBSET Objects,  \* what the user may not update
         refused : SUBSET Pair,    \* history: implied, and skipped for that
         over : BOOLEAN]           \* history: the limit was exceeded

TypeOK ==
  /\ relationships \subseteq Pair
  /\ automapped \subseteq relationships
  /\ auditOf \in [Issues -> Audits \cup {None}]
  /\ session \in [Workers -> Busy \cup {Idle}]
  /\ requests \in Nat /\ removals \in Nat
  /\ excused \subseteq Pair
  /\ mixed \subseteq Issues

Init ==
  /\ relationships \in StartPairs
  /\ automapped = {}
  /\ auditOf = [i \in Issues |-> None]
  /\ session = [w \in Workers |-> Idle]
  /\ requests = 0 /\ removals = 0
  /\ excused = {} /\ mixed = {}

-----------------------------------------------------------------------------
(* Mapping.                                                                  *)

(* The audits that new relationships map an issue to. *)
AnyAdded(i, pairs) == Neighbours(i, pairs)  \* forgets the type of the other end
NewAudits(i, pairs) == Neighbours(i, pairs) \cap Audits

(* handle_new_audit_issue_mapping: an issue that has an audit is not mapped to  *)
(* another, nor to two in one request.                                        *)
AuditAllowed(pairs) ==
  \A i \in Issues :
    NewAudits(i, pairs) # {} => Cardinality(NewAudits(i, pairs)) = 1 /\ auditOf[i] = None

(* A request posts relationships; they are flushed, and the generator begins.  *)
Post(w, pairs, locked) ==
  /\ session[w] = Idle
  /\ requests < MaxRequests
  /\ pairs \cap relationships = {}
  /\ AuditAllowed(pairs)
  /\ requests' = requests + 1
  /\ session' = [session EXCEPT ![w] =
       [pc |-> "next", snap |-> relationships, posted |-> pairs, todo |-> pairs,
        queue |-> {}, processed |-> {}, related |-> relationships \cup pairs,
        auto |-> {}, flushed |-> {}, locked |-> locked, refused |-> {}, over |-> FALSE]]
  /\ UNCHANGED <<table, removals, history>>

(* Mutants: the queue is replaced; the rules are looked up by (dst, src). *)
QueueReplaced(s, pair, pairs) == Step(pair, pairs) \ s.processed
RulesSwapped(s, pair, pairs) ==
  s.queue \cup (UNION {{{x, e[1]} : x \in {y \in Neighbours(e[2], pairs) \ pair : Mapping(e[2], e[1], y)}} :
                      e \in pair \X pair} \ s.processed)

(* The entries of a step that were not processed before. *)
Enqueued(s, pair, pairs) == s.queue \cup (Step(pair, pairs) \ s.processed)

(* generate_automappings takes the next relationship of the session.  What an   *)
(* earlier one left in the queue stays there.                                  *)
Generate(w, pair) ==
  LET s == session[w]
  IN  /\ s.pc = "next"
      /\ pair \in s.todo
      /\ session' = [session EXCEPT ![w] =
           [s EXCEPT !.pc = "map", !.todo = @ \ {pair}, !.auto = {},
                     !.queue = Enqueued(s, pair, s.related)]]
      /\ UNCHANGED <<table, counters, history>>

OverLimit(s) == Cardinality(s.auto) > CountLimit

(* A user may map two objects that both can be updated; that an issue belongs to  *)
(* the audit of its assessment does not depend on it.                            *)
MayMap(s, pair) == IsAuditIssue(pair) \/ pair \cap s.locked = {}

(* _check_single_audit_restriction *)
SecondAudit(s, pair) ==
  /\ IsAuditIssue(pair)
  /\ \E i \in pair \cap Issues : Neighbours(i, s.related) \cap Audits # {}

(* One round of the loop over the queue. *)
Popping(w, pair) ==
  /\ session[w].pc = "map"
  /\ pair \in session[w].queue
  /\ ~OverLimit(session[w])

SkipDenied(w, pair) ==
  /\ Popping(w, pair)
  /\ ~MayMap(session[w], pair)
  /\ session' = [session EXCEPT ![w].queue = @ \ {pair}, ![w].refused = @ \cup {pair}]
  /\ UNCHANGED <<table, counters, history>>

SkipExisting(w, pair) ==
  /\ Popping(w, pair)
  /\ MayMap(session[w], pair)
  /\ pair \in session[w].related
  /\ session' = [session EXCEPT ![w].queue = @ \ {pair}, ![w].processed = @ \cup {pair}]
  /\ UNCHANGED <<table, counters, history>>

Automap(w, pair) ==
  LET s == session[w]
      popped == [s EXCEPT !.queue = @ \ {pair}, !.processed = @ \cup {pair},
                          !.auto = @ \cup {pair}, !.related = @ \cup {pair}]
  IN  /\ Popping(w, pair)
      /\ MayMap(s, pair)
      /\ pair \notin s.related
      /\ ~SecondAudit(s, pair)
      /\ session' = [session EXCEPT ![w] =
           [popped EXCEPT !.queue = Enqueued(popped, pair, popped.related)]]
      /\ UNCHANGED <<table, counters, history>>

(* ValidationError: the request is refused and rolled back. *)
RefuseSecondAudit(w, pair) ==
  /\ Popping(w, pair)
  /\ pair \notin session[w].related
  /\ SecondAudit(session[w], pair)
  /\ session' = [session EXCEPT ![w] = Idle]
  /\ UNCHANGED <<table, counters, history>>

(* _flush inserts what was found, unless that is too much. *)
Flush(w) ==
  LET s == session[w]
  IN  /\ s.pc = "map"
      /\ s.queue = {} \/ OverLimit(s)
      /\ session' = [session EXCEPT ![w] =
           [s EXCEPT !.pc = "next", !.auto = {},
                     !.flushed = IF OverLimit(s) THEN @ ELSE @ \cup s.auto,
                     !.over = @ \/ OverLimit(s)]]
      /\ UNCHANGED <<table, counters, history>>

(* The commit.  INSERT IGNORE leaves out the pairs another request has inserted    *)
(* since; _set_audit_id_for_issues and the hook set the audits of the others.       *)
Commit(w) ==
  LET s == session[w]
      added == (s.posted \cup s.flushed) \ relationships
      \* what the request could not see, and what may be missing for it
      unseen == relationships \ s.snap
      missed == {p \in Implied(relationships') : s.over \/ p \in s.refused \/ p \in s.snap
                    \/ \E m \in Objects, q \in unseen, n \in added :
                         m \in q \cap n /\ p = (q \cup n) \ {m}}
  IN  /\ s.pc = "next" /\ s.todo = {}
      /\ s.posted \cap relationships = {}
      /\ relationships' = relationships \cup added
      /\ automapped' = automapped \cup (added \cap s.flushed)
      /\ auditOf' = [i \in Issues |->
           IF NewAudits(i, added) = {} THEN auditOf[i] ELSE CHOOSE a \in NewAudits(i, added) : TRUE]
      /\ excused' = (excused \cup missed) \cap (Implied(relationships') \ relationships')
      /\ mixed' = mixed \cup
           {i \in Issues : NewAudits(i, added) # {} /\ Neighbours(i, unseen) \cap Audits # {}}
      /\ session' = [session EXCEPT ![w] = Idle]
      /\ UNCHANGED counters

(* IntegrityError: another request has posted one of the pairs since. *)
Collide(w) ==
  /\ session[w].pc # "idle"
  /\ session[w].posted \cap relationships # {}
  /\ session' = [session EXCEPT ![w] = Idle]
  /\ UNCHANGED <<table, counters, history>>

-----------------------------------------------------------------------------
(* Unmapping.                                                                *)

(* allow_unmap_from_audit, when some of the pairs are being deleted.           *)
Releasable(issue, deleted) ==
  \A x \in Neighbours(issue, relationships \ deleted) : Type[x] \notin {"Assessment", "Snapshot"}

(* The issues whose audit is unset.  The mutant deletes the cascade without hooks. *)
FreedByHand(pair, cascade) == {i \in Issues : \E a \in Audits : pair = {a, i}}
Freed(pair, cascade) == {i \in Issues : \E a \in Audits : {a, i} \in {pair} \cup cascade}

(* The relationships are deleted if the hook lets them go; it unsets the audits. *)
Delete(pair, cascade) ==
  LET deleted == {pair} \cup cascade
      freed == Freed(pair, cascade)
  IN  /\ removals < MaxRemovals
      /\ pair \in relationships
      /\ \A i \in freed : Releasable(i, deleted)
      /\ removals' = removals + 1
      /\ relationships' = relationships \ deleted
      /\ automapped' = automapped \ deleted
      /\ auditOf' = [i \in Issues |-> IF i \in freed THEN None ELSE auditOf[i]]
      /\ excused' = (excused \cup {pair}) \cap (Implied(relationships') \ relationships')
      /\ UNCHANGED <<session, requests, mixed>>

Unmap(pair) == Delete(pair, {})

(* unmap_issue_cascade: with the mapping of the issue to an assessment go its      *)
(* automapped snapshots that no other of its assessments has, and its audit when    *)
(* it was the last one, in which case an issue without an audit fails the request.  *)
OtherAssessments(asmnt, issue) ==
  (Neighbours(issue, relationships) \cap OfType("Assessment")) \ {asmnt}

Cascade(asmnt, issue) ==
  LET others == OtherAssessments(asmnt, issue)
      snapshots(as) == {s \in OfType("Snapshot") : \E x \in as : {x, s} \in relationships}
      loose == snapshots({asmnt}) \ snapshots(others)
  IN  automapped \cap ({{s, issue} : s \in loose}
        \cup IF others = {} THEN {{auditOf[issue], issue}} ELSE {})

UnmapCascade(asmnt, issue) ==
  /\ OtherAssessments(asmnt, issue) = {} => auditOf[issue] # None
  /\ Delete({asmnt, issue}, Cascade(asmnt, issue))

Next ==
  \/ \E w \in Workers :
       \/ \E pairs \in Posted, locked \in Denied : Post(w, pairs, locked)
       \/ session[w] # Idle /\
            \/ \E pair \in session[w].todo : Generate(w, pair)
            \/ \E pair \in session[w].queue :
                 SkipDenied(w, pair) \/ SkipExisting(w, pair)
                   \/ Automap(w, pair) \/ RefuseSecondAudit(w, pair)
            \/ Flush(w) \/ Commit(w) \/ Collide(w)
  \/ \E pair \in relationships : Unmap(pair)
  \/ \E asmnt \in OfType("Assessment"), issue \in Issues : UnmapCascade(asmnt, issue)

Spec == Init /\ [][Next]_vars

-----------------------------------------------------------------------------
(* Properties. *)

(* Whatever the rules imply from two relationships is there, too: "If the edge    *)
(* already exists it means that auto mappings for it have already been processed    *)
(* and it is safe to cut here".  Excused are pairs that the user may not map, that   *)
(* a client has deleted, that were too many, and that two requests imply only         *)
(* together.  A cascade deletes nothing that is still implied.                         *)
Closed == Implied(relationships) \subseteq relationships \cup excused

(* An issue is mapped to one audit at most, and that is its audit, unless two requests   *)
(* overlapped.                                                                          *)
AuditIsMapped ==
  \A i \in Issues \ mixed :
    Neighbours(i, relationships) \cap Audits = {auditOf[i]} \ {None}

(* The automapper inserts only what a rule implies from relationships its request         *)
(* saw or made, unless an earlier relationship of the request went over the limit.         *)
AutoIsImplied ==
  [][\A p \in automapped' \ automapped :
       \E w \in Workers : session[w] # Idle /\ session'[w] = Idle
         /\ (session[w].over \/ p \in Implied(session[w].snap \cup relationships'))]_vars
=============================================================================
