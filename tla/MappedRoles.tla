------------------------------- MODULE MappedRoles -------------------------------
(****************************************************************************)
(* The access control lists that follow relationships.  Whoever is assigned   *)
(* to an assessment has a mapped role on every object the assessment is        *)
(* mapped to, and on the regulations and objectives whose snapshots are mapped  *)
(* to one of its control snapshots.  The rows are written by hooks of the       *)
(* requests that assign people and that map and unmap objects.                 *)
(*                                                                          *)
(* A request computes its rows from the snapshot of its transaction and         *)
(* writes them with its commit; the foreign key and the unique constraint of     *)
(* the table work on the committed rows.                                       *)
(****************************************************************************)
EXTENDS Naturals, FiniteSets

CONSTANTS
  Workers,          \* requests in service at the same time
  Assessments,
  People,           \* each in one assignee role
  Objects,          \* what assessments are mapped to
  RelatedSnapshots, \* related_regulation_snaps of each object, none if it is no control
  Operations,       \* what the clients ask for
  MaxRequests       \* bound: requests ever accepted

(* The people of an assessment are PUT; relationships are POSTed, DELETEd, or    *)
(* deleted by an import, which sends no signal.                                 *)
Operation ==
  [kind : {"people"}, asmnt : Assessments, people : SUBSET People]
  \cup [kind : {"map"}, pairs : SUBSET (Assessments \X Objects) \ {{}}]
  \cup [kind : {"unmap"}, pair : Assessments \X Objects, import : BOOLEAN]

ASSUME RolesAssumption ==
  /\ RelatedSnapshots \in [Objects -> SUBSET Objects]
  /\ Operations \subseteq Operation
  /\ MaxRequests \in Nat

VARIABLES
  assigned,      \* rows without a parent, of people assigned to assessments
  mapped,        \* rows with a parent: pairs of the parent and the mapped object
  relationships, \* pairs of an assessment and an object
  session,       \* what each worker is doing
  requests,      \* requests accepted so far
  excused        \* history: mapped roles that may be missing or left over

table == <<assigned, mapped, relationships>>
vars == <<table, session, requests, excused>>

(* The id of a row is the number of the request that inserted it: the unique     *)
(* constraint of the table contains parent_id, and does not hold where that is    *)
(* NULL, so one person may be assigned twice.                                   *)
Row == [asmnt : Assessments, person : People, id : 1 .. MaxRequests]
Idle == [pc |-> "idle"]
Busy == [pc : {"busy"}, op : Operations, id : 1 .. MaxRequests, rows : SUBSET Row,
         roles : SUBSET (Row \X Objects), pairs : SUBSET (Assessments \X Objects)]

TypeOK ==
  /\ assigned \subseteq Row
  /\ mapped \subseteq assigned \X Objects
  /\ relationships \subseteq Assessments \X Objects
  /\ session \in [Workers -> Busy \cup {Idle}]
  /\ requests \in 0 .. MaxRequests
  /\ excused \subseteq assigned \X Objects

RowsOf(a, rows) == {r \in rows : r.asmnt = a}
PeopleOf(rows) == {r.person : r \in rows}
MappedTo(a, pairs) == {o \in Objects : <<a, o>> \in pairs}

(* add_related_snapshots *)
WithSnapshots(objects) == objects \cup UNION {RelatedSnapshots[o] : o \in objects}

(* What everybody's roles should be, computed from nothing. *)
Required(rows, pairs) ==
  {x \in rows \X Objects : x[2] \in WithSnapshots(MappedTo(x[1].asmnt, pairs))}

Init ==
  /\ assigned = {} /\ mapped = {} /\ relationships = {}
  /\ session = [w \in Workers |-> Idle]
  /\ requests = 0
  /\ excused = {}

Begin(w, op) ==
  /\ session[w] = Idle
  /\ requests < MaxRequests
  /\ CASE op.kind = "people" -> op.people # PeopleOf(RowsOf(op.asmnt, assigned))
       [] op.kind = "map" -> op.pairs \cap relationships = {}
       [] op.kind = "unmap" -> op.pair \in relationships
  /\ requests' = requests + 1
  /\ session' = [session EXCEPT ![w] =
       [pc |-> "busy", op |-> op, id |-> requests + 1,
        rows |-> assigned, roles |-> mapped, pairs |-> relationships]]
  /\ UNCHANGED <<table, excused>>

-----------------------------------------------------------------------------
(* What a request inserts.                                                   *)

(* Mutant: a new assignee gets no roles on the related snapshots. *)
RolesOfMappedOnly(new, pairs) == {x \in new \X Objects : x[2] \in MappedTo(x[1].asmnt, pairs)}

(* handle_acl_creation: the roles of people who are newly assigned. *)
RolesOfNew(new, pairs) ==
  {x \in new \X Objects : x[2] \in WithSnapshots(MappedTo(x[1].asmnt, pairs))}

(* handle_relationship_creation: the roles of those assigned already.  "owner"    *)
(* is the assessment that snapshot_ids keeps for a snapshot, which is one of those *)
(* the request maps to it; the others get no roles on the related snapshots.       *)
RolesOfPairs(rows, pairs, owner) ==
  {x \in rows \X Objects :
     \/ <<x[1].asmnt, x[2]>> \in pairs
     \/ \E o \in DOMAIN owner : owner[o] = x[1].asmnt /\ x[2] \in RelatedSnapshots[o]}

Owners(rows, pairs) ==
  LET base(o) == {a \in Assessments : <<a, o>> \in pairs /\ RowsOf(a, rows) # {}}
      objects == {o \in Objects : base(o) # {}}
  IN  {f \in [objects -> Assessments] : \A o \in objects : f[o] \in base(o)}

(* create_related_roles leaves out the rows it finds in the table.  A row whose     *)
(* parent is gone, or that another request inserted since, fails the flush.          *)
Missing(s, roles) == roles \ s.roles
Insertable(roles) == roles \subseteq (assigned \X Objects) \ mapped

(* The excuses end with the difference they excuse. *)
Excuse(w, blame) ==
  LET required == Required(assigned', relationships')
  IN  /\ excused' = (excused \cup blame) \cap ((required \ mapped') \cup (mapped' \ required))
      /\ session' = [session EXCEPT ![w] = Idle]
      /\ UNCHANGED requests

(* Rows that the request has not seen, and roles that are gone since it saw them. *)
Unseen(s) == {x \in assigned \X Objects : x[1] \notin s.rows} \cup (s.roles \ mapped)

-----------------------------------------------------------------------------
(* ON DELETE CASCADE of parent_id; the mutant is a key without it.                   *)
KeepOrphans(gone) == mapped
WithoutChildren(gone) == {x \in mapped : x[1] \notin gone}

(* Roleable.access_control_list: people who left lose one row each, and with it       *)
(* their mapped roles; people who came get a row and theirs.                          *)
CommitPeople(w) ==
  LET s == session[w]
      a == s.op.asmnt
      old == RowsOf(a, s.rows)
      left == PeopleOf(old) \ s.op.people
      new == {[asmnt |-> a, person |-> p, id |-> s.id] : p \in s.op.people \ PeopleOf(old)}
      changed == {x \in new \X Objects : (<<a, x[2]>> \in relationships) # (<<a, x[2]>> \in s.pairs)
                    \/ \E o \in Objects : x[2] \in RelatedSnapshots[o]
                         /\ (<<a, o>> \in relationships) # (<<a, o>> \in s.pairs)}
  IN  /\ s.pc = "busy" /\ s.op.kind = "people"
      /\ \E gone \in SUBSET {r \in old : r.person \in left} :
           /\ PeopleOf(gone) = left /\ Cardinality(gone) = Cardinality(left)
           /\ assigned' = (assigned \ gone) \cup new
           /\ mapped' = WithoutChildren(gone) \cup RolesOfNew(new, s.pairs)
      /\ UNCHANGED relationships
      /\ Excuse(w, changed)

CommitMap(w) ==
  LET s == session[w]
      pairs == s.op.pairs
  IN  /\ s.pc = "busy" /\ s.op.kind = "map"
      /\ pairs \cap relationships = {}
      /\ \E owner \in Owners(s.rows, pairs) :
           LET roles == Missing(s, RolesOfPairs(s.rows, pairs, owner))
               overwritten == {x \in assigned \X Objects : \E o \in DOMAIN owner :
                                 owner[o] # x[1].asmnt /\ x[2] \in RelatedSnapshots[o]}
           IN  /\ Insertable(roles)
               /\ relationships' = relationships \cup pairs
               /\ mapped' = mapped \cup roles
               /\ UNCHANGED assigned
               /\ Excuse(w, (Unseen(s) \cap Required(assigned, pairs)) \cup overwritten)

(* Mutant: no roles are deleted.                                                    *)
DeletedOfNobody(s) == {}

(* handle_relationship_delete: the roles on the object that was unmapped, and on no   *)
(* other.  An import deletes the relationship only.                                  *)
DeletedRoles(s) ==
  {x \in mapped : ~s.op.import /\ x[1] \in RowsOf(s.op.pair[1], s.rows) /\ x[2] = s.op.pair[2]}

CommitUnmap(w) ==
  LET s == session[w]
      left == {x \in assigned \X Objects :
                 x[1].asmnt = s.op.pair[1] /\ x[2] \in WithSnapshots({s.op.pair[2]})}
  IN  /\ s.pc = "busy" /\ s.op.kind = "unmap"
      /\ relationships' = relationships \ {s.op.pair}
      /\ mapped' = mapped \ DeletedRoles(s)
      /\ UNCHANGED assigned
      /\ Excuse(w, {x \in left : \/ s.op.import
                                 \/ x \in Unseen(s)
                                 \/ x[2] # s.op.pair[2]
                                 \/ x \in Required(assigned, relationships')})

(* IntegrityError: nothing is kept. *)
Fail(w) ==
  LET s == session[w]
  IN  /\ s.pc = "busy" /\ s.op.kind = "map"
      /\ \/ s.op.pairs \cap relationships # {}
         \/ \E owner \in Owners(s.rows, s.op.pairs) :
              ~Insertable(Missing(s, RolesOfPairs(s.rows, s.op.pairs, owner)))
      /\ session' = [session EXCEPT ![w] = Idle]
      /\ UNCHANGED <<table, requests, excused>>

Next == \E w \in Workers :
  \/ \E op \in Operations : Begin(w, op)
  \/ CommitPeople(w) \/ CommitMap(w) \/ CommitUnmap(w) \/ Fail(w)

Spec == Init /\ [][Next]_vars

-----------------------------------------------------------------------------
(* Properties. *)

(* Whoever is assigned has the mapped roles that follow: "Mapped Assignee roles      *)
(* should be created for all snapshots, not only for control that related to          *)
(* assessment" (test_mapped_regulations_acl).  Excused are roles on which two          *)
(* requests overlapped, roles on snapshots related to a control that one request maps   *)
(* to several assessments, and those lost because the object was mapped directly, too.   *)
RolesComplete == Required(assigned, relationships) \ mapped \subseteq excused

(* Nobody keeps a mapped role without a reason: handle_relationship_delete is to           *)
(* "delete mapped AC roles if object unmapped from Assessment".  Excused are overlapping    *)
(* requests, imports, and snapshots that were related to the one that was unmapped.          *)
RolesJustified == mapped \ Required(assigned, relationships) \subseteq excused
=============================================================================
