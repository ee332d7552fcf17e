---------------------------- MODULE MappedRolesProofs ----------------------------
(* Proofs about MappedRoles.  RolesComplete and RolesJustified are inductive      *)
(* once TypeOK holds: every commit excuses, in the step itself, the roles that      *)
(* it leaves out or leaves behind.                                                *)
EXTENDS MappedRoles, TLAPS

USE RolesAssumption

-----------------------------------------------------------------------------
(* What roles are required. *)

(* Membership in Required, written out. *)
LEMMA RequiredMember ==
  ASSUME NEW rows, NEW pairs, NEW r \in rows, NEW o \in Objects
  PROVE  <<r, o>> \in Required(rows, pairs) <=>
           \/ <<r.asmnt, o>> \in pairs
           \/ \E c \in Objects : <<r.asmnt, c>> \in pairs /\ o \in RelatedSnapshots[c]
BY DEF Required, WithSnapshots, MappedTo

(* Required holds pairs of a row and an object. *)
LEMMA RequiredPairs ==
  ASSUME NEW rows, NEW pairs
  PROVE  Required(rows, pairs) \subseteq rows \X Objects
BY DEF Required

(* More relationships require more roles. *)
LEMMA RequiredGrows ==
  ASSUME NEW rows, NEW few, NEW many, few \subseteq many
  PROVE  Required(rows, few) \subseteq Required(rows, many)
<1> SUFFICES ASSUME NEW x \in Required(rows, few)
             PROVE  x \in Required(rows, many)
  OBVIOUS
<1>1. PICK r \in rows, o \in Objects : x = <<r, o>>
  BY RequiredPairs
<1> QED
  BY <1>1, RequiredMember

(* A role is required of a row whatever the other rows are. *)
LEMMA RequiredOfRow ==
  ASSUME NEW some, NEW other, NEW pairs, NEW r \in some \cap other, NEW o \in Objects
  PROVE  <<r, o>> \in Required(some, pairs) <=> <<r, o>> \in Required(other, pairs)
BY RequiredMember

(* Snapshots of a request are sets of rows, and sessions are records. *)
LEMMA BusySession ==
  ASSUME TypeOK, NEW w \in Workers, session[w].pc = "busy"
  PROVE  /\ session[w] \in Busy
         /\ session[w].op \in Operation
         /\ session[w].id \in 1 .. MaxRequests
         /\ session[w].rows \subseteq Row
         /\ session[w].pairs \subseteq Assessments \X Objects
<1>1. session[w] \in Busy \cup {Idle}
  BY DEF TypeOK
<1>2. session[w] # Idle
  BY DEF Idle
<1> QED
  BY <1>1, <1>2 DEF Busy

(* The members of an operation, by its kind. *)
LEMMA OperationFields ==
  ASSUME NEW op \in Operation
  PROVE  /\ op.kind = "people" => op.asmnt \in Assessments /\ op.people \subseteq People
         /\ op.kind = "map" => op.pairs \subseteq Assessments \X Objects
         /\ op.kind = "unmap" => op.pair \in Assessments \X Objects /\ op.import \in BOOLEAN
BY DEF Operation

-----------------------------------------------------------------------------
(* Types. *)

(* A commit leaves excused roles within the assigned rows. *)
LEMMA ExcuseTypes ==
  ASSUME TypeOK, NEW w \in Workers, NEW blame, Excuse(w, blame),
         mapped' \subseteq assigned' \X Objects
  PROVE  /\ session' \in [Workers -> Busy \cup {Idle}]
         /\ requests' \in 0 .. MaxRequests
         /\ excused' \subseteq assigned' \X Objects
<1>1. session' = [session EXCEPT ![w] = Idle] /\ requests' = requests
  BY DEF Excuse
<1>2. excused' \subseteq Required(assigned', relationships') \cup mapped'
  BY DEF Excuse
<1>3. Required(assigned', relationships') \subseteq assigned' \X Objects
  BY DEF Required
<1> QED
  BY <1>1, <1>2, <1>3 DEF TypeOK

(* Every step keeps the types: a mapped role hangs on a row that exists (the       *)
(* cascade of parent_id, and the foreign key of what is inserted).                *)
LEMMA TypeStep ==
  ASSUME TypeOK, [Next]_vars
  PROVE  TypeOK'
<1>1. CASE UNCHANGED vars
  BY <1>1 DEF TypeOK, vars, table
<1>2. ASSUME NEW w \in Workers, NEW op \in Operations, Begin(w, op)
      PROVE  TypeOK'
  <2> DEFINE s == [pc |-> "busy", op |-> op, id |-> requests + 1,
                   rows |-> assigned, roles |-> mapped, pairs |-> relationships]
  <2>1. requests' = requests + 1 /\ requests' \in 0 .. MaxRequests
        /\ requests + 1 \in 1 .. MaxRequests
    BY <1>2 DEF Begin, TypeOK
  <2>2. /\ assigned \in SUBSET Row /\ mapped \in SUBSET (Row \X Objects)
        /\ relationships \in SUBSET (Assessments \X Objects)
    BY DEF TypeOK
  <2>3. s \in Busy
    BY <2>1, <2>2 DEF Busy
  <2>4. session' = [session EXCEPT ![w] = s]
    BY <1>2 DEF Begin
  <2> HIDE DEF s
  <2>5. session' \in [Workers -> Busy \cup {Idle}]
    BY <2>3, <2>4 DEF TypeOK
  <2>6. UNCHANGED <<assigned, mapped, relationships, excused>>
    BY <1>2 DEF Begin, table
  <2> QED
    BY <2>1, <2>5, <2>6 DEF TypeOK
<1>3. ASSUME NEW w \in Workers, CommitPeople(w)
      PROVE  TypeOK'
  <2> DEFINE a == session[w].op.asmnt
             old == RowsOf(a, session[w].rows)
             new == {[asmnt |-> a, person |-> p, id |-> session[w].id] :
                       p \in session[w].op.people \ PeopleOf(old)}
  <2>1. session[w].pc = "busy" /\ session[w].op.kind = "people"
    BY <1>3 DEF CommitPeople
  <2>2. a \in Assessments /\ session[w].op.people \subseteq People
        /\ session[w].id \in 1 .. MaxRequests
    BY <2>1, BusySession, OperationFields
  <2>3. new \subseteq Row
    BY <2>2 DEF Row
  <2>4. PICK gone : /\ assigned' = (assigned \ gone) \cup new
                    /\ mapped' = WithoutChildren(gone) \cup RolesOfNew(new, session[w].pairs)
    BY <1>3 DEF CommitPeople
  <2>5. relationships' = relationships /\ \E blame : Excuse(w, blame)
    BY <1>3 DEF CommitPeople
  <2> HIDE DEF new, old, a
  <2>6. assigned' \subseteq Row
    BY <2>3, <2>4 DEF TypeOK
  <2>7. mapped' \subseteq assigned' \X Objects
    BY <2>4 DEF TypeOK, WithoutChildren, RolesOfNew
  <2> QED
    BY <2>5, <2>6, <2>7, ExcuseTypes DEF TypeOK
<1>4. ASSUME NEW w \in Workers, CommitMap(w)
      PROVE  TypeOK'
  <2>1. session[w].pc = "busy" /\ session[w].op.kind = "map"
    BY <1>4 DEF CommitMap
  <2>2. session[w].op.pairs \subseteq Assessments \X Objects
    BY <2>1, BusySession, OperationFields
  <2>3. /\ assigned' = assigned
        /\ relationships' = relationships \cup session[w].op.pairs
        /\ \E roles : mapped' = mapped \cup roles /\ Insertable(roles)
        /\ \E blame : Excuse(w, blame)
    BY <1>4 DEF CommitMap
  <2>4. mapped' \subseteq assigned' \X Objects
    BY <2>3 DEF TypeOK, Insertable
  <2> QED
    BY <2>2, <2>3, <2>4, ExcuseTypes DEF TypeOK
<1>5. ASSUME NEW w \in Workers, CommitUnmap(w)
      PROVE  TypeOK'
  <2>1. /\ assigned' = assigned
        /\ relationships' \subseteq relationships
        /\ mapped' \subseteq mapped
        /\ \E blame : Excuse(w, blame)
    BY <1>5 DEF CommitUnmap
  <2>2. mapped' \subseteq assigned' \X Objects
    BY <2>1 DEF TypeOK
  <2> QED
    BY <2>1, <2>2, ExcuseTypes DEF TypeOK
<1>6. ASSUME NEW w \in Workers, Fail(w)
      PROVE  TypeOK'
  BY <1>6 DEF Fail, TypeOK, table
<1> QED
  BY <1>1, <1>2, <1>3, <1>4, <1>5, <1>6 DEF Next

(* Types: no mapped role outlives the row of its parent, whatever requests overlap. *)
THEOREM TypeCorrect == Spec => []TypeOK
<1>1. Init => TypeOK
  BY DEF Init, TypeOK
<1>2. TypeOK /\ [Next]_vars => TypeOK'
  BY TypeStep
<1> QED
  BY <1>1, <1>2, PTL DEF Spec

-----------------------------------------------------------------------------
(* An excuse holds as long as the difference it excuses. *)

LEMMA StillExcused ==
  ASSUME NEW w, NEW blame, Excuse(w, blame), NEW x \in excused \cup blame,
         \/ x \in Required(assigned', relationships') \ mapped'
         \/ x \in mapped' \ Required(assigned', relationships')
  PROVE  x \in excused'
BY DEF Excuse

-----------------------------------------------------------------------------
(* Completeness, one lemma for each kind of commit. *)

(* New assignees get the roles of the relationships their request saw; the rest is   *)
(* blamed on the relationships that changed since.                                *)
LEMMA CompleteAfterPeople ==
  ASSUME TypeOK, RolesComplete, NEW w \in Workers, CommitPeople(w)
  PROVE  RolesComplete'
<1> DEFINE s == session[w]
           a == s.op.asmnt
           old == RowsOf(a, s.rows)
           left == PeopleOf(old) \ s.op.people
           new == {[asmnt |-> a, person |-> p, id |-> s.id] : p \in s.op.people \ PeopleOf(old)}
           changed == {x \in new \X Objects : (<<a, x[2]>> \in relationships) # (<<a, x[2]>> \in s.pairs)
                         \/ \E o \in Objects : x[2] \in RelatedSnapshots[o]
                              /\ (<<a, o>> \in relationships) # (<<a, o>> \in s.pairs)}
<1>1. PICK gone : /\ assigned' = (assigned \ gone) \cup new
                  /\ mapped' = WithoutChildren(gone) \cup RolesOfNew(new, s.pairs)
  BY DEF CommitPeople
<1>2. relationships' = relationships /\ Excuse(w, changed)
  BY DEF CommitPeople
<1>3. \A r \in new : r.asmnt = a
  OBVIOUS
<1>4. \A r \in new, o \in Objects :
        <<r, o>> \in changed <=>
          \/ (<<a, o>> \in relationships) # (<<a, o>> \in s.pairs)
          \/ \E c \in Objects : o \in RelatedSnapshots[c]
               /\ (<<a, c>> \in relationships) # (<<a, c>> \in s.pairs)
  OBVIOUS
<1> HIDE DEF new, changed, a, old, left, s
<1>5. SUFFICES ASSUME NEW x \in Required(assigned', relationships') \ mapped'
               PROVE  x \in excused'
  BY DEF RolesComplete
<1>6. PICK r \in assigned', o \in Objects : x = <<r, o>>
  BY RequiredPairs
<1>7. SUFFICES x \in excused \cup changed
  BY <1>2, <1>5, StillExcused
<1>8. CASE r \in new
  <2>1. <<r, o>> \notin RolesOfNew(new, s.pairs)
    BY <1>1, <1>5, <1>6
  <2>2. <<r, o>> \notin Required(new, s.pairs)
    BY <2>1 DEF RolesOfNew, Required
  <2>3. ~(\/ <<a, o>> \in s.pairs
          \/ \E c \in Objects : <<a, c>> \in s.pairs /\ o \in RelatedSnapshots[c])
    BY <2>2, <1>3, <1>8, RequiredMember
  <2>4. \/ <<a, o>> \in relationships
        \/ \E c \in Objects : <<a, c>> \in relationships /\ o \in RelatedSnapshots[c]
    <3>1. <<r, o>> \in Required(assigned', relationships)
      BY <1>2, <1>5, <1>6
    <3> QED
      BY <3>1, <1>3, <1>8, RequiredMember
  <2> QED
    BY <2>3, <2>4, <1>4, <1>6, <1>8
<1>9. CASE r \notin new
  <2>1. r \in assigned /\ r \notin gone
    BY <1>1, <1>6, <1>9
  <2>2. x \in Required(assigned, relationships)
    BY <2>1, <1>2, <1>5, <1>6, RequiredOfRow
  <2>3. x \notin mapped
    BY <2>1, <1>1, <1>5, <1>6 DEF WithoutChildren
  <2> QED
    BY <2>2, <2>3 DEF RolesComplete
<1> QED
  BY <1>8, <1>9

(* A request that maps objects creates the roles of the rows it saw; missing are       *)
(* those of other rows, those deleted since, and those of assessments that             *)
(* snapshot_ids overwrote.                                                          *)
LEMMA CompleteAfterMap ==
  ASSUME TypeOK, RolesComplete, NEW w \in Workers, CommitMap(w)
  PROVE  RolesComplete'
<1> DEFINE s == session[w]
           pairs == s.op.pairs
<1>1. PICK owner \in Owners(s.rows, pairs) :
        LET roles == Missing(s, RolesOfPairs(s.rows, pairs, owner))
            overwritten == {x \in assigned \X Objects : \E o \in DOMAIN owner :
                              owner[o] # x[1].asmnt /\ x[2] \in RelatedSnapshots[o]}
        IN  /\ Insertable(roles)
            /\ relationships' = relationships \cup pairs
            /\ mapped' = mapped \cup roles
            /\ UNCHANGED assigned
            /\ Excuse(w, (Unseen(s) \cap Required(assigned, pairs)) \cup overwritten)
  BY DEF CommitMap
<1> DEFINE overwritten == {x \in assigned \X Objects : \E o \in DOMAIN owner :
                             owner[o] # x[1].asmnt /\ x[2] \in RelatedSnapshots[o]}
           blame == (Unseen(s) \cap Required(assigned, pairs)) \cup overwritten
<1>2. /\ relationships' = relationships \cup pairs
      /\ mapped' = mapped \cup Missing(s, RolesOfPairs(s.rows, pairs, owner))
      /\ assigned' = assigned
      /\ Excuse(w, blame)
  BY <1>1
<1>3. s.rows \subseteq Row /\ pairs \subseteq Assessments \X Objects
  BY BusySession, OperationFields DEF CommitMap
<1>4. SUFFICES ASSUME NEW x \in Required(assigned', relationships') \ mapped'
               PROVE  x \in excused'
  BY DEF RolesComplete
<1> HIDE DEF blame
<1>5. PICK r \in assigned, o \in Objects : x = <<r, o>>
  BY <1>2, RequiredPairs
<1>6. SUFFICES x \in excused \cup blame
  BY <1>2, <1>4, StillExcused
<1>7. CASE x \in Required(assigned, relationships)
  BY <1>2, <1>4, <1>7 DEF RolesComplete
<1>8. CASE x \notin Required(assigned, relationships)
  <2>1. \/ <<r.asmnt, o>> \in pairs
        \/ \E c \in Objects : <<r.asmnt, c>> \in pairs /\ o \in RelatedSnapshots[c]
    <3>1. <<r, o>> \in Required(assigned, relationships \cup pairs)
      BY <1>2, <1>4, <1>5
    <3>2. <<r, o>> \notin Required(assigned, relationships)
      BY <1>5, <1>8
    <3> HIDE DEF pairs
    <3>3. ~(\/ <<r.asmnt, o>> \in relationships
            \/ \E c \in Objects : <<r.asmnt, c>> \in relationships /\ o \in RelatedSnapshots[c])
      BY <3>2, RequiredMember
    <3>4. \/ <<r.asmnt, o>> \in relationships \cup pairs
          \/ \E c \in Objects : <<r.asmnt, c>> \in relationships \cup pairs
                                 /\ o \in RelatedSnapshots[c]
      BY <3>1, RequiredMember
    <3> QED
      BY <3>3, <3>4
  <2>2. x \in Required(assigned, pairs)
    BY <2>1, <1>5, RequiredMember
  <2>3. SUFFICES ASSUME x \notin Unseen(s)
                 PROVE  x \in overwritten
    BY <2>2 DEF blame
  <2>4. r \in s.rows
    BY <2>3, <1>5 DEF Unseen
  <2>5. x \notin RolesOfPairs(s.rows, pairs, owner)
    BY <1>2, <1>4, <2>3 DEF Missing, Unseen
  <2>6. PICK c \in Objects : <<r.asmnt, c>> \in pairs /\ o \in RelatedSnapshots[c]
    BY <2>1, <2>4, <2>5, <1>5 DEF RolesOfPairs
  <2>7. r.asmnt \in Assessments
    BY <2>4, <1>3 DEF Row
  <2>8. c \in DOMAIN owner
    <3>1. r \in RowsOf(r.asmnt, s.rows)
      BY <2>4 DEF RowsOf
    <3> QED
      BY <3>1, <2>6, <2>7 DEF Owners
  <2>9. owner[c] # r.asmnt
    BY <2>4, <2>5, <2>6, <2>8, <1>5 DEF RolesOfPairs
  <2> QED
    BY <2>6, <2>8, <2>9, <1>5
<1> QED
  BY <1>7, <1>8

(* Unmapping removes a role that is still required only when it stays required through   *)
(* another object.                                                                    *)
LEMMA CompleteAfterUnmap ==
  ASSUME TypeOK, RolesComplete, NEW w \in Workers, CommitUnmap(w)
  PROVE  RolesComplete'
<1> DEFINE s == session[w]
           left == {x \in assigned \X Objects :
                      x[1].asmnt = s.op.pair[1] /\ x[2] \in WithSnapshots({s.op.pair[2]})}
           blame == {x \in left : \/ s.op.import
                                  \/ x \in Unseen(s)
                                  \/ x[2] # s.op.pair[2]
                                  \/ x \in Required(assigned, relationships')}
<1>1. /\ relationships' \subseteq relationships
      /\ mapped' = mapped \ DeletedRoles(s)
      /\ assigned' = assigned
      /\ Excuse(w, blame)
  BY DEF CommitUnmap
<1>2. SUFFICES ASSUME NEW x \in Required(assigned', relationships') \ mapped'
               PROVE  x \in excused \cup blame
  BY <1>1, StillExcused DEF RolesComplete
<1>3. x \in Required(assigned, relationships') /\ x \in Required(assigned, relationships)
  BY <1>1, <1>2, RequiredGrows
<1>4. PICK r \in assigned, o \in Objects : x = <<r, o>>
  BY <1>3, RequiredPairs
<1>5. CASE x \in mapped
  <2>1. x \in DeletedRoles(s)
    BY <1>1, <1>2, <1>5
  <2>2. r.asmnt = s.op.pair[1] /\ o = s.op.pair[2]
    BY <2>1, <1>4 DEF DeletedRoles, RowsOf
  <2>3. o \in WithSnapshots({s.op.pair[2]})
    BY <2>2 DEF WithSnapshots
  <2> QED
    BY <2>2, <2>3, <1>3, <1>4
<1>6. CASE x \notin mapped
  BY <1>3, <1>6 DEF RolesComplete
<1> QED
  BY <1>5, <1>6

(* Completeness: whoever is assigned has the roles that follow, but for the excused. *)
THEOREM CompleteRoles == Spec => []RolesComplete
<1>1. Init => RolesComplete
  BY DEF Init, RolesComplete, Required
<1>2. TypeOK /\ RolesComplete /\ [Next]_vars => RolesComplete'
  <2> SUFFICES ASSUME TypeOK, RolesComplete, [Next]_vars
               PROVE  RolesComplete'
    OBVIOUS
  <2>1. ASSUME UNCHANGED <<table, excused>>
        PROVE  RolesComplete'
    BY <2>1 DEF RolesComplete, table
  <2>2. CASE UNCHANGED vars
    BY <2>1, <2>2 DEF vars
  <2>3. ASSUME NEW w \in Workers, \/ \E op \in Operations : Begin(w, op)
                                  \/ Fail(w)
        PROVE  RolesComplete'
    BY <2>1, <2>3 DEF Begin, Fail
  <2> QED
    BY <2>2, <2>3, CompleteAfterPeople, CompleteAfterMap, CompleteAfterUnmap DEF Next
<1> QED
  BY <1>1, <1>2, TypeCorrect, PTL DEF Spec

-----------------------------------------------------------------------------
(* Justification, one lemma for each kind of commit. *)

(* A request that assigns people creates roles of the relationships it saw, some of        *)
(* which may be gone; the roles of those who leave go with their rows.                   *)
LEMMA JustifiedAfterPeople ==
  ASSUME TypeOK, RolesJustified, NEW w \in Workers, CommitPeople(w)
  PROVE  RolesJustified'
<1> DEFINE s == session[w]
           a == s.op.asmnt
           old == RowsOf(a, s.rows)
           left == PeopleOf(old) \ s.op.people
           new == {[asmnt |-> a, person |-> p, id |-> s.id] : p \in s.op.people \ PeopleOf(old)}
           changed == {x \in new \X Objects : (<<a, x[2]>> \in relationships) # (<<a, x[2]>> \in s.pairs)
                         \/ \E o \in Objects : x[2] \in RelatedSnapshots[o]
                              /\ (<<a, o>> \in relationships) # (<<a, o>> \in s.pairs)}
<1>1. PICK gone : /\ assigned' = (assigned \ gone) \cup new
                  /\ mapped' = WithoutChildren(gone) \cup RolesOfNew(new, s.pairs)
  BY DEF CommitPeople
<1>2. relationships' = relationships /\ Excuse(w, changed)
  BY DEF CommitPeople
<1>3. \A r \in new : r.asmnt = a
  OBVIOUS
<1>4. \A r \in new, o \in Objects :
        <<r, o>> \in changed <=>
          \/ (<<a, o>> \in relationships) # (<<a, o>> \in s.pairs)
          \/ \E c \in Objects : o \in RelatedSnapshots[c]
               /\ (<<a, c>> \in relationships) # (<<a, c>> \in s.pairs)
  OBVIOUS
<1> HIDE DEF new, changed, a, old, left, s
<1>5. SUFFICES ASSUME NEW x \in mapped' \ Required(assigned', relationships')
               PROVE  x \in excused'
  BY DEF RolesJustified
<1>6. SUFFICES x \in excused \cup changed
  BY <1>2, <1>5, StillExcused
<1>7. CASE x \in RolesOfNew(new, s.pairs)
  <2>1. PICK r \in new, o \in Objects : x = <<r, o>>
    BY <1>7 DEF RolesOfNew
  <2>2. <<r, o>> \in Required(new, s.pairs)
    BY <1>7, <2>1 DEF RolesOfNew, Required
  <2>3. \/ <<a, o>> \in s.pairs
        \/ \E c \in Objects : <<a, c>> \in s.pairs /\ o \in RelatedSnapshots[c]
    BY <2>2, <1>3, RequiredMember
  <2>4. r \in assigned' /\ <<r, o>> \notin Required(assigned', relationships)
    BY <1>1, <1>2, <1>5, <2>1
  <2>5. ~(\/ <<a, o>> \in relationships
          \/ \E c \in Objects : <<a, c>> \in relationships /\ o \in RelatedSnapshots[c])
    BY <2>4, <1>3, RequiredMember
  <2> QED
    BY <2>1, <2>3, <2>5, <1>4
<1>8. CASE x \in WithoutChildren(gone)
  <2>1. PICK r \in assigned \ gone, o \in Objects : x = <<r, o>>
    BY <1>8 DEF WithoutChildren, TypeOK
  <2>2. x \in mapped /\ x \notin Required(assigned, relationships)
    BY <2>1, <1>1, <1>2, <1>5, <1>8, RequiredOfRow DEF WithoutChildren
  <2> QED
    BY <2>2 DEF RolesJustified
<1> QED
  BY <1>1, <1>5, <1>7, <1>8

(* A request that maps objects creates no role that its relationships do not require:       *)
(* the assessment that snapshot_ids keeps is one of those the request maps.                 *)
LEMMA JustifiedAfterMap ==
  ASSUME TypeOK, RolesJustified, NEW w \in Workers, CommitMap(w)
  PROVE  RolesJustified'
<1> DEFINE s == session[w]
           pairs == s.op.pairs
<1>1. PICK owner, blame :
        /\ owner \in Owners(s.rows, pairs)
        /\ Insertable(Missing(s, RolesOfPairs(s.rows, pairs, owner)))
        /\ relationships' = relationships \cup pairs
        /\ mapped' = mapped \cup Missing(s, RolesOfPairs(s.rows, pairs, owner))
        /\ assigned' = assigned
        /\ Excuse(w, blame)
  BY DEF CommitMap
<1>2. SUFFICES ASSUME NEW x \in mapped' \ Required(assigned', relationships')
               PROVE  x \in excused
  BY <1>1, StillExcused DEF RolesJustified
<1>3. x \notin Required(assigned, relationships) /\ x \notin Required(assigned, pairs)
  BY <1>1, <1>2, RequiredGrows
<1>4. ASSUME x \in RolesOfPairs(s.rows, pairs, owner), x \in assigned \X Objects
      PROVE  FALSE
  <2>1. PICK r \in assigned, o \in Objects : x = <<r, o>>
    BY <1>4
  <2>2. \/ <<r.asmnt, o>> \in pairs
        \/ \E c \in DOMAIN owner : owner[c] = r.asmnt /\ o \in RelatedSnapshots[c]
    BY <1>4, <2>1 DEF RolesOfPairs
  <2>3. \A c \in DOMAIN owner : c \in Objects /\ <<owner[c], c>> \in pairs
    BY <1>1 DEF Owners
  <2>4. <<r, o>> \in Required(assigned, pairs)
    <3> HIDE DEF pairs
    <3> QED
      BY <2>2, <2>3, RequiredMember
  <2> QED
    BY <2>1, <2>4, <1>3
<1>5. x \in mapped
  BY <1>1, <1>2, <1>4 DEF Insertable, Missing
<1> QED
  BY <1>3, <1>5 DEF RolesJustified

(* What unmapping leaves behind is of an import, of rows the request has not seen, or on     *)
(* snapshots that are related to the one unmapped.                                        *)
LEMMA JustifiedAfterUnmap ==
  ASSUME TypeOK, RolesJustified, NEW w \in Workers, CommitUnmap(w)
  PROVE  RolesJustified'
<1> DEFINE s == session[w]
           left == {x \in assigned \X Objects :
                      x[1].asmnt = s.op.pair[1] /\ x[2] \in WithSnapshots({s.op.pair[2]})}
           blame == {x \in left : \/ s.op.import
                                  \/ x \in Unseen(s)
                                  \/ x[2] # s.op.pair[2]
                                  \/ x \in Required(assigned, relationships')}
<1>1. /\ relationships' = relationships \ {s.op.pair}
      /\ mapped' = mapped \ DeletedRoles(s)
      /\ assigned' = assigned
      /\ Excuse(w, blame)
  BY DEF CommitUnmap
<1>2. s.op.pair \in Assessments \X Objects /\ s.op.import \in BOOLEAN
  BY BusySession, OperationFields DEF CommitUnmap
<1>3. SUFFICES ASSUME NEW x \in mapped' \ Required(assigned', relationships')
               PROVE  x \in excused \cup blame
  BY <1>1, StillExcused DEF RolesJustified
<1>4. PICK r \in assigned, o \in Objects : x = <<r, o>>
  BY <1>1, <1>3 DEF TypeOK
<1>5. x \in mapped /\ x \notin DeletedRoles(s) /\ x \notin Required(assigned, relationships')
  BY <1>1, <1>3
<1>6. CASE x \notin Required(assigned, relationships)
  BY <1>5, <1>6 DEF RolesJustified
<1>7. CASE x \in Required(assigned, relationships)
  <2>1. PICK c \in Objects : /\ <<r.asmnt, c>> \in relationships
                             /\ <<r.asmnt, c>> \notin relationships'
                             /\ o = c \/ o \in RelatedSnapshots[c]
    <3>1. \/ <<r.asmnt, o>> \in relationships
          \/ \E c \in Objects : <<r.asmnt, c>> \in relationships /\ o \in RelatedSnapshots[c]
      BY <1>4, <1>7, RequiredMember
    <3>2. ~(\/ <<r.asmnt, o>> \in relationships'
            \/ \E c \in Objects : <<r.asmnt, c>> \in relationships' /\ o \in RelatedSnapshots[c])
      BY <1>4, <1>5, RequiredMember
    <3> QED
      BY <3>1, <3>2
  <2>2. s.op.pair = <<r.asmnt, c>>
    BY <1>1, <2>1
  <2>3. x \in left
    BY <1>4, <2>1, <2>2 DEF WithSnapshots
  <2>4. s.op.import \/ r \notin s.rows \/ o # s.op.pair[2]
    BY <1>2, <1>4, <1>5, <2>2 DEF DeletedRoles, RowsOf
  <2>5. r \notin s.rows => x \in Unseen(s)
    BY <1>4 DEF Unseen
  <2> QED
    BY <1>4, <2>3, <2>4, <2>5
<1> QED
  BY <1>6, <1>7

(* Justification: nobody keeps a mapped role without a reason, but for the excused.          *)
THEOREM JustifiedRoles == Spec => []RolesJustified
<1>1. Init => RolesJustified
  BY DEF Init, RolesJustified
<1>2. TypeOK /\ RolesJustified /\ [Next]_vars => RolesJustified'
  <2> SUFFICES ASSUME TypeOK, RolesJustified, [Next]_vars
               PROVE  RolesJustified'
    OBVIOUS
  <2>1. ASSUME UNCHANGED <<table, excused>>
        PROVE  RolesJustified'
    BY <2>1 DEF RolesJustified, table
  <2>2. CASE UNCHANGED vars
    BY <2>1, <2>2 DEF vars
  <2>3. ASSUME NEW w \in Workers, \/ \E op \in Operations : Begin(w, op)
                                  \/ Fail(w)
        PROVE  RolesJustified'
    BY <2>1, <2>3 DEF Begin, Fail
  <2> QED
    BY <2>2, <2>3, JustifiedAfterPeople, JustifiedAfterMap, JustifiedAfterUnmap DEF Next
<1> QED
  BY <1>1, <1>2, TypeCorrect, PTL DEF Spec
=============================================================================
