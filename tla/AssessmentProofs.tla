---------------------------- MODULE AssessmentProofs ----------------------------
(* Proofs about AssessmentRequests: the dates and the evidence of the committed     *)
(* row, the If-Match check, and the notifications.                                  *)
EXTENDS AssessmentRequests, FiniteSetTheorems, TLAPS

USE AssessmentAssumption

-----------------------------------------------------------------------------
(* One row. *)

(* What DatesFollowStatus and DoneIsComplete ask of a row that is not deprecated.    *)
Good(x) ==
  /\ x.status # "Deprecated"
  /\ x.finished <=> x.status \in Done
  /\ x.verified => x.status \in Done
  /\ x.status \in Done => x.evidence

(* Setting a status gives a row again; "Verified" is stored as "Completed". *)
LEMMA SetStatusType ==
  ASSUME NEW x \in Row, NEW value \in Statuses
  PROVE  /\ SetStatus(x, value) \in Row
         /\ SetStatus(x, value).status = IF value = "Verified" THEN "Completed" ELSE value
         /\ SetStatus(x, value).evidence = x.evidence
         /\ SetStatus(x, value).finished <=>
              \/ x.status \in NotDone /\ value \in Done
              \/ x.finished /\ ~(x.status \in Done /\ value \in NotDone)
         /\ SetStatus(x, value).verified <=>
              \/ value = "Verified"
              \/ x.verified /\ ~(x.status \in Done /\ value \notin Done)
<1> DEFINE final == IF value = "Verified" THEN "Completed" ELSE value
<1>1. final \in Stored /\ (final \in Done <=> value \in Done) /\ (final \in NotDone <=> value \in NotDone)
  BY DEF Stored, Statuses, Done, NotDone
<1>2. SetStatus(x, value) =
        [x EXCEPT !.status = final,
                  !.verified = \/ value = "Verified"
                               \/ x.verified /\ ~(x.status \in Done /\ value \notin Done),
                  !.finished = \/ x.status \in NotDone /\ final \in Done
                               \/ x.finished /\ ~(x.status \in Done /\ final \in NotDone)]
  BY DEF SetStatus
<1> HIDE DEF final
<1>3. /\ SetStatus(x, value) \in Row
      /\ SetStatus(x, value).status = final /\ SetStatus(x, value).evidence = x.evidence
      /\ SetStatus(x, value).finished <=>
           \/ x.status \in NotDone /\ final \in Done
           \/ x.finished /\ ~(x.status \in Done /\ final \in NotDone)
      /\ SetStatus(x, value).verified <=>
           \/ value = "Verified"
           \/ x.verified /\ ~(x.status \in Done /\ value \notin Done)
  BY <1>1, <1>2 DEF Row
<1> QED
  BY <1>1, <1>3 DEF final

(* The same, by the kind of transition. *)
LEMMA SetStatusFields ==
  ASSUME NEW x \in Row, NEW value \in Statuses, NEW y, y = SetStatus(x, value)
  PROVE  /\ y \in Row
         /\ y.evidence = x.evidence
         /\ y.status \in Done <=> value \in Done
         /\ y.status \in NotDone <=> value \in NotDone
         /\ y.status = "Deprecated" <=> value = "Deprecated"
         /\ x.status \in NotDone /\ value \in Done => y.finished
         /\ x.status \in Done /\ value \in NotDone => ~y.finished /\ ~y.verified
         /\ x.status \in NotDone /\ value \in NotDone =>
              (y.finished <=> x.finished) /\ (y.verified <=> x.verified)
         /\ x.status \in Done /\ value \in Done => (y.finished <=> x.finished)
<1>1. /\ y \in Row /\ y.evidence = x.evidence
      /\ y.status = IF value = "Verified" THEN "Completed" ELSE value
  BY SetStatusType
<1>2. /\ y.status \in Done <=> value \in Done
      /\ y.status \in NotDone <=> value \in NotDone
      /\ y.status = "Deprecated" <=> value = "Deprecated"
  BY <1>1 DEF Statuses, Done, NotDone
<1>3. /\ x.status \in Done => x.status \notin NotDone
      /\ value \in Done => value \notin NotDone
      /\ value = "Verified" => value \in Done
  BY DEF Done, NotDone
<1>4. x.status \in NotDone /\ value \in Done => y.finished
  BY SetStatusType, <1>3
<1>5. x.status \in Done /\ value \in NotDone => ~y.finished /\ ~y.verified
  BY SetStatusType, <1>3
<1>6. x.status \in NotDone /\ value \in NotDone =>
        (y.finished <=> x.finished) /\ (y.verified <=> x.verified)
  BY SetStatusType, <1>3
<1>7. x.status \in Done /\ value \in Done => (y.finished <=> x.finished)
  BY SetStatusType, <1>3
<1> QED
  BY <1>1, <1>2, <1>4, <1>5, <1>6, <1>7

(* What a request makes of the row it loaded: it may set the status, a change may       *)
(* reset it, and the change may add or remove a mandatory piece.                          *)
Decided(x, set, change, complete) ==
  LET new == ResetStatus(set, change)
  IN  IF change \in Mandatory THEN [new EXCEPT !.evidence = complete] ELSE new

(* A reset keeps a good row good but for the evidence, and makes a row that it        *)
(* moves good whatever it was.                                                        *)
LEMMA ResetFields ==
  ASSUME NEW x \in Row, NEW change, NEW y, y = ResetStatus(x, change)
  PROVE  /\ y \in Row
         /\ y.evidence = x.evidence
         /\ \/ y = x /\ x.status \notin MonitorStates(change)
            \/ /\ y.status \in NotDone /\ x.status \in Done
               /\ ~y.finished /\ ~y.verified
            \/ /\ y.status \in NotDone /\ x.status \in NotDone
               /\ (y.finished <=> x.finished) /\ (y.verified <=> x.verified)
<1>1. CASE x.status \notin MonitorStates(change)
  BY <1>1 DEF ResetStatus
<1>2. CASE x.status \in MonitorStates(change)
  <2>1. y = SetStatus(x, "In Progress")
    BY <1>2 DEF ResetStatus
  <2>2. x.status \in Done \cup NotDone
    BY <1>2 DEF MonitorStates, Done, NotDone
  <2>3. "In Progress" \in Statuses /\ "In Progress" \in NotDone /\ "In Progress" \notin Done
    BY DEF Statuses, NotDone, Done
  <2>4. PICK value \in Statuses : value \in NotDone /\ value \notin Done /\ y = SetStatus(x, value)
    BY <2>1, <2>3
  <2>5. /\ y \in Row /\ y.evidence = x.evidence /\ y.status \in NotDone
        /\ x.status \in Done => ~y.finished /\ ~y.verified
        /\ x.status \in NotDone => (y.finished <=> x.finished) /\ (y.verified <=> x.verified)
    BY <2>4, SetStatusFields
  <2> QED
    BY <2>2, <2>5
<1> QED
  BY <1>1, <1>2

(* The statuses are split in three. *)
LEMMA StatusParts ==
  ASSUME NEW x \in Row
  PROVE  /\ x.status \in Done \/ x.status \in NotDone \/ x.status = "Deprecated"
         /\ x.status \in Done => x.status \notin NotDone
         /\ x.status = "Deprecated" => x.status \notin Done \cup NotDone
         /\ x.status \in Done => x.status \in {"In Review", "Completed"}
BY DEF Row, Stored, Statuses, Done, NotDone

(* Only the mandatory pieces of a row change. *)
LEMMA EvidenceFields ==
  ASSUME NEW y \in Row, NEW complete \in BOOLEAN, NEW n, n = [y EXCEPT !.evidence = complete]
  PROVE  /\ n \in Row /\ n.status = y.status /\ n.finished = y.finished
         /\ n.verified = y.verified /\ n.evidence = complete
BY DEF Row

(* A request that keeps the status: a change of the row or its surroundings, and the reset. *)
LEMMA KeptDecision ==
  ASSUME NEW x \in Row, NEW change, NEW complete \in BOOLEAN, NEW n,
         n = Decided(x, x, change, complete)
  PROVE  /\ n \in Row
         /\ \/ x.status \in NotDone /\ n.status \in Done
            \/ x.status \in Done /\ n.status \in NotDone
            => Good(n)
         /\ Good(x) /\ (change = "comment" /\ n.status \in Done => n.evidence) => Good(n)
<1> DEFINE y == ResetStatus(x, change)
<1>1. /\ y \in Row
      /\ \/ y = x /\ x.status \notin MonitorStates(change)
         \/ /\ y.status \in NotDone /\ x.status \in Done
            /\ ~y.finished /\ ~y.verified
         \/ /\ y.status \in NotDone /\ x.status \in NotDone
            /\ (y.finished <=> x.finished) /\ (y.verified <=> x.verified)
  BY ResetFields
<1>2. n = IF change \in Mandatory THEN [y EXCEPT !.evidence = complete] ELSE y
  BY DEF Decided
<1> HIDE DEF y
<1>3. /\ n \in Row /\ n.status = y.status
      /\ (n.finished <=> y.finished) /\ (n.verified <=> y.verified)
      /\ change \notin Mandatory => n = y
  BY <1>1, <1>2, EvidenceFields
<1>4. CASE y = x /\ x.status \notin MonitorStates(change)
  <2>1. n.status = x.status
    BY <1>3, <1>4
  <2>2. ASSUME Good(x), change = "comment" /\ n.status \in Done => n.evidence
        PROVE  Good(n)
    <3>1. CASE n.status \notin Done
      BY <2>1, <2>2, <3>1, <1>3, <1>4 DEF Good
    <3>2. CASE n.status \in Done
      <4>1. x.status \in {"In Review", "Completed"}
        BY <2>1, <3>2, StatusParts
      <4>2. change \in Mandatory => change = "comment"
        BY <4>1, <1>4 DEF Mandatory, MonitorStates
      <4>3. n.evidence
        BY <4>2, <2>2, <3>2, <1>3, <1>4, <2>1 DEF Good
      <4> QED
        BY <4>3, <2>1, <2>2, <1>3, <1>4 DEF Good
    <3> QED
      BY <3>1, <3>2
  <2> QED
    BY <1>3, <2>1, <2>2, StatusParts
<1>5. CASE y.status \in NotDone /\ x.status \in Done /\ ~y.finished /\ ~y.verified
  BY <1>3, <1>5, StatusParts DEF Good
<1>6. CASE /\ y.status \in NotDone /\ x.status \in NotDone
           /\ (y.finished <=> x.finished) /\ (y.verified <=> x.verified)
  BY <1>3, <1>6, StatusParts DEF Good
<1> QED
  BY <1>1, <1>4, <1>5, <1>6

(* A request that sets the status, and does not change a mandatory piece. *)
LEMMA SetDecision ==
  ASSUME NEW x \in Row, NEW value \in Statuses, ~Refused(x, value), NEW change,
         change \notin Mandatory, NEW complete, NEW n,
         n = Decided(x, SetStatus(x, value), change, complete)
  PROVE  /\ n \in Row
         /\ \/ x.status \in NotDone /\ n.status \in Done
            \/ x.status \in Done /\ n.status \in NotDone
            => Good(n)
         /\ Good(x) /\ n.status # "Deprecated" => Good(n)
<1> DEFINE s == SetStatus(x, value)
<1>1. /\ s \in Row
      /\ s.evidence = x.evidence
      /\ x.status \in NotDone /\ s.status \in Done => s.finished
      /\ x.status \in Done /\ s.status \in NotDone => ~s.finished /\ ~s.verified
      /\ x.status \in NotDone /\ s.status \in NotDone =>
           (s.finished <=> x.finished) /\ (s.verified <=> x.verified)
      /\ x.status \in Done /\ s.status \in Done => (s.finished <=> x.finished)
      /\ s.status \in Done <=> value \in Done
  BY SetStatusFields
<1>2. x.status \in NotDone /\ s.status \in Done => s.evidence
  BY <1>1 DEF Refused
<1>3. n = ResetStatus(s, change)
  BY DEF Decided
<1> HIDE DEF s
<1>4. /\ n \in Row
      /\ n.evidence = s.evidence
      /\ \/ n = s
         \/ n.status \in NotDone /\ s.status \in Done /\ ~n.finished /\ ~n.verified
         \/ /\ n.status \in NotDone /\ s.status \in NotDone
            /\ (n.finished <=> s.finished) /\ (n.verified <=> s.verified)
  BY <1>1, <1>3, ResetFields
<1>5. CASE n = s
  BY <1>1, <1>2, <1>5, StatusParts DEF Good
<1>6. CASE n.status \in NotDone /\ s.status \in Done /\ ~n.finished /\ ~n.verified
  BY <1>4, <1>6, StatusParts DEF Good
<1>7. CASE /\ n.status \in NotDone /\ s.status \in NotDone
           /\ (n.finished <=> s.finished) /\ (n.verified <=> s.verified)
  BY <1>1, <1>4, <1>7, StatusParts DEF Good
<1> QED
  BY <1>4, <1>5, <1>6, <1>7

-----------------------------------------------------------------------------
(* The invariant. *)

(* The decision of an open request makes the row good where it moves it, and keeps it   *)
(* good where it does not unsettle it; a request that is not stale decided on the row.   *)
Decisive(r, current) ==
  /\ Settles(r) => Good(r.new)
  /\ Good(r.loaded) /\ ~Unsettles(r) => Good(r.new)
  /\ ~r.stale => r.loaded = current

(* What deletes notifications adds one. *)
Telling(r) == r.effect.deletes => r.effect.adds # {}

RequestInv ==
  \A w \in Workers : request[w].pc = "open" =>
    Decisive(request[w], row) /\ Telling(request[w]) /\ IsFiniteSet(request[w].touched)

TableInv == IsFiniteSet(notices) /\ IsFiniteSet(digest.list)

RowInv == ~unsure => Good(row)

(* News is in an unsent row; what came while the digest ran is in one it did not read.  *)
NewsInv ==
  /\ news /\ ~late => \E n \in notices : ~n.sent
  /\ digest.news /\ ~late => \E n \in notices : ~n.sent /\ n.key \notin digest.list

IInv == TypeOK /\ RequestInv /\ TableInv /\ RowInv /\ NewsInv

-----------------------------------------------------------------------------
(* Records. *)

(* An open request is a record. *)
LEMMA OpenRecord ==
  ASSUME TypeOK, NEW w \in Workers, request[w].pc = "open"
  PROVE  /\ request[w] \in Open /\ request[w].op \in Operation
         /\ request[w].new \in Row /\ request[w].loaded \in Row
         /\ request[w].effect \in Effect /\ request[w].touched \subseteq Key
         /\ request[w].seen \in Nat /\ request[w].edition \in Nat
         /\ request[w].stale \in BOOLEAN
<1>1. request[w] \in Open \cup {Idle} /\ request[w] # Idle
  BY DEF TypeOK, Idle
<1> QED
  BY <1>1 DEF Open

(* The fields of an operation. *)
LEMMA OperationFields ==
  ASSUME NEW op \in Operation
  PROVE  /\ op.complete \in BOOLEAN
         /\ op.status = "same" \/ (op.status \in Statuses /\ op.change \notin Mandatory)
BY DEF Operation, Mandatory

(* A request that only becomes stale stays an open request. *)
LEMMA StaleRecord ==
  ASSUME NEW r \in Open, NEW n, n = [r EXCEPT !.stale = TRUE]
  PROVE  /\ n \in Open /\ n.pc = r.pc /\ n.op = r.op /\ n.loaded = r.loaded /\ n.new = r.new
         /\ n.edition = r.edition /\ n.seen = r.seen /\ n.effect = r.effect
         /\ n.touched = r.touched /\ n.stale
BY DEF Open

-----------------------------------------------------------------------------
(* New keys. *)

LEMMA ImageFinite ==
  ASSUME NEW S, IsFiniteSet(S), NEW f, f = [x \in S |-> f[x]]
  PROVE  IsFiniteSet({f[x] : x \in S}) /\ Cardinality({f[x] : x \in S}) <= Cardinality(S)
<1>1. f \in Surjection(S, {f[x] : x \in S})
  BY DEF Surjection
<1> QED
  BY <1>1, FS_Surjection

(* A number that no key in a finite set has. *)
LEMMA UnusedNumber ==
  ASSUME NEW used, IsFiniteSet(used)
  PROVE  Cardinality(used) \in Nat /\ \E n \in 0 .. Cardinality(used) : \A k \in used : k[1] # n
<1> DEFINE c == Cardinality(used)
           f == [k \in used |-> k[1]]
           T == {f[k] : k \in used}
<1>1. c \in Nat
  BY FS_CardinalityType
<1>2. f = [k \in used |-> f[k]]
  OBVIOUS
<1> HIDE DEF f
<1>3. IsFiniteSet(T) /\ Cardinality(T) <= c
  BY <1>2, ImageFinite
<1>4. IsFiniteSet(0 .. c) /\ Cardinality(0 .. c) = c + 1
  BY <1>1, FS_Interval
<1>5. ~(0 .. c \subseteq T)
  <2>1. SUFFICES ASSUME 0 .. c \subseteq T
                 PROVE  FALSE
    OBVIOUS
  <2>2. Cardinality(0 .. c) <= Cardinality(T)
    BY <2>1, <1>3, FS_Subset
  <2>3. Cardinality(T) \in Nat
    BY <1>3, FS_CardinalityType
  <2> QED
    BY <2>2, <2>3, <1>1, <1>3, <1>4
<1>6. PICK n \in 0 .. c : n \notin T
  BY <1>5
<1>7. \A k \in used : k[1] # n
  BY <1>6 DEF f
<1> QED
  BY <1>1, <1>6, <1>7

(* The keys in use are finitely many, and the new one is not among them. *)
LEMMA NewIdIsNew ==
  ASSUME TypeOK, RequestInv, TableInv
  PROVE  NewId \in Nat /\ \A k \in Keys \cup digest.list : k[1] # NewId
<1> DEFINE busy == {v \in Workers : request[v].pc = "open"}
           touched == UNION {request[w].touched : w \in busy}
           used == Keys \cup digest.list \cup touched
<1>1. IsFiniteSet(Keys)
  <2> DEFINE f == [n \in notices |-> n.key]
  <2>1. f = [n \in notices |-> f[n]]
    OBVIOUS
  <2>2. Keys = {f[n] : n \in notices}
    BY DEF Keys
  <2> HIDE DEF f
  <2> QED
    BY <2>1, <2>2, ImageFinite DEF TableInv
<1>2. IsFiniteSet(touched)
  <2> DEFINE f == [w \in busy |-> request[w].touched]
             sets == {f[w] : w \in busy}
  <2>1. f = [w \in busy |-> f[w]]
    OBVIOUS
  <2>2. IsFiniteSet(busy)
    BY FS_Subset
  <2>3. \A x \in sets : IsFiniteSet(x)
    BY DEF RequestInv
  <2>4. touched = UNION sets
    OBVIOUS
  <2> HIDE DEF f, busy, touched
  <2>5. IsFiniteSet(sets)
    BY <2>1, <2>2, ImageFinite
  <2> HIDE DEF sets
  <2> QED
    BY <2>3, <2>4, <2>5, FS_UNION
<1>3. NewId = CHOOSE n \in 0 .. Cardinality(used) : \A k \in used : k[1] # n
  BY DEF NewId
<1> HIDE DEF touched, busy
<1>4. IsFiniteSet(used)
  BY <1>1, <1>2, FS_Union DEF TableInv
<1>5. Cardinality(used) \in Nat /\ \E n \in 0 .. Cardinality(used) : \A k \in used : k[1] # n
  <2> HIDE DEF used
  <2> QED
    BY <1>4, UnusedNumber
<1>6. NewId \in 0 .. Cardinality(used) /\ \A k \in used : k[1] # NewId
  <2> HIDE DEF used
  <2> QED
    BY <1>3, <1>5
<1> QED
  BY <1>5, <1>6

-----------------------------------------------------------------------------
(* What the handlers ask for: a deletion comes with a new row of a type that was deleted. *)

LEMMA TransitionTypes ==
  ASSUME NEW old, NEW new
  PROVE  Transition(old, new) \subseteq Types /\ Reaction(new) \subseteq Types
BY DEF Transition, Reaction, Types

LEMMA UpdatedFields ==
  ASSUME NEW deleted, NEW unsent, NEW u, u = Updated(deleted, unsent)
  PROVE  u.adds \subseteq Types /\ u.touches \in BOOLEAN
BY DEF Updated, Types

LEMMA ModifiedTells ==
  ASSUME NEW old, NEW new, NEW edited, NEW unsent, NEW e,
         e = ModifiedEffect(old, new, edited, unsent)
  PROVE  e \in Effect /\ (e.deletes => e.adds # {})
<1> DEFINE declined == IF old = "In Review" /\ new = "In Progress" /\ "declined" \notin unsent
                       THEN {"declined"} ELSE {}
           moved == Transition(old, new)
           changed == edited \/ (new = "Deprecated" /\ old # new)
           reaction == IF changed THEN Reaction(new) ELSE {}
           deletes == moved \cup reaction # {}
           updated == IF changed THEN Updated(deletes, unsent) ELSE [adds |-> {}, touches |-> FALSE]
<1>1. e = [deletes |-> deletes, adds |-> declined \cup moved \cup reaction \cup updated.adds,
           touches |-> updated.touches]
  BY DEF ModifiedEffect
<1>2. declined \subseteq Types /\ moved \subseteq Types /\ reaction \subseteq Types
  BY TransitionTypes DEF Types
<1>3. updated.adds \subseteq Types /\ updated.touches \in BOOLEAN
  BY UpdatedFields
<1>4. deletes \in BOOLEAN /\ (deletes => moved \cup reaction # {})
  OBVIOUS
<1> HIDE DEF declined, moved, reaction, updated, deletes, changed
<1> QED
  BY <1>1, <1>2, <1>3, <1>4 DEF Effect

LEMMA RelatedTells ==
  ASSUME NEW status, NEW change, NEW unsent, NEW e, e = RelatedEffect(status, change, unsent)
  PROVE  e \in Effect /\ (e.deletes => e.adds # {})
<1> DEFINE updated == IF status # "Not Started" THEN Updated(FALSE, unsent)
                                                ELSE [adds |-> {}, touches |-> FALSE]
           started == IF status = "Not Started" THEN {"started"} ELSE {}
           reopened == IF status \in Done /\ change # "person" THEN {"reopened"} ELSE {}
           deletes == started \cup reopened # {}
<1>1. e = IF change = "comment" THEN Silence
          ELSE [deletes |-> deletes, adds |-> updated.adds \cup started \cup reopened,
                touches |-> updated.touches]
  BY DEF RelatedEffect
<1>2. started \subseteq Types /\ reopened \subseteq Types
  BY DEF Types
<1>3. updated.adds \subseteq Types /\ updated.touches \in BOOLEAN
  BY UpdatedFields
<1>4. deletes \in BOOLEAN /\ (deletes => started \cup reopened # {})
  OBVIOUS
<1>5. Silence \in Effect /\ ~Silence.deletes
  BY DEF Silence, Effect
<1> HIDE DEF updated, started, reopened, deletes
<1> QED
  BY <1>1, <1>2, <1>3, <1>4, <1>5 DEF Effect

-----------------------------------------------------------------------------
(* A request starts. *)

(* The table, the row and the page stay; the other requests, too. *)
LEMMA AcceptKeeps ==
  ASSUME IInv, NEW w \in Workers, NEW op \in Operations, NEW new, NEW effect \in Effect,
         effect.deletes => effect.adds # {},
         Accept(w, op, new, effect), NEW n,
         n = IF op.change \in Mandatory THEN [new EXCEPT !.evidence = op.complete] ELSE new,
         n \in Row,
         \/ row.status \in NotDone /\ n.status \in Done
         \/ row.status \in Done /\ n.status \in NotDone
         => Good(n),
         /\ Good(row) /\ n.status # "Deprecated"
         /\ op.change = "comment" /\ n.status \in Done => n.evidence
         => Good(n)
  PROVE  IInv'
<1> DEFINE r == [pc |-> "open", op |-> op, loaded |-> row, edition |-> edition,
                 seen |-> page.edition, stale |-> FALSE, effect |-> effect, new |-> n,
                 touched |-> IF effect.touches THEN {k \in Unsent : k[2] = "updated"} ELSE {}]
<1>1. /\ request' = [request EXCEPT ![w] = r]
      /\ accepted' = accepted + 1
      /\ UNCHANGED <<assessment, page, notices, digest, history>>
  BY DEF Accept
<1>2. row \in Row /\ edition \in Nat /\ page.edition \in Nat /\ effect \in Effect
  BY DEF IInv, TypeOK, Page
<1>3. Unsent \subseteq Key /\ Unsent \subseteq Keys
  BY DEF IInv, TypeOK, Unsent, Notice, Keys
<1>4. r.touched \subseteq Unsent
  OBVIOUS
<1>5. IsFiniteSet(Unsent)
  <2> DEFINE f == [x \in {m \in notices : ~m.sent} |-> x.key]
  <2>1. IsFiniteSet({m \in notices : ~m.sent})
    BY FS_Subset DEF IInv, TableInv
  <2>2. f = [x \in {m \in notices : ~m.sent} |-> f[x]]
    OBVIOUS
  <2>3. Unsent = {f[x] : x \in {m \in notices : ~m.sent}}
    BY DEF Unsent
  <2> HIDE DEF f
  <2> QED
    BY <2>1, <2>2, <2>3, ImageFinite
<1>6. /\ r.pc = "open" /\ r.op = op /\ r.loaded = row /\ r.new = n /\ ~r.stale
      /\ r.edition = edition /\ r.seen = page.edition /\ r.effect = effect
  OBVIOUS
<1>7. r \in Open
  BY <1>2, <1>3, <1>4 DEF Open
<1>8. IsFiniteSet(r.touched)
  <2> HIDE DEF r
  <2> QED
    BY <1>4, <1>5, FS_Subset
<1> HIDE DEF r
<1>9. request'[w] = r /\ \A v \in Workers : v # w => request'[v] = request[v]
  BY <1>1 DEF IInv, TypeOK
<1>10. TypeOK'
  <2>1. request' \in [Workers -> Open \cup {Idle}] /\ accepted' \in Nat
    BY <1>1, <1>7 DEF IInv, TypeOK
  <2> QED
    BY <1>1, <2>1 DEF IInv, TypeOK, assessment, history
<1>11. RequestInv'
  <2>1. Decisive(r, row) /\ Telling(r)
    <3>1. Settles(r) => Good(n)
      BY <1>6 DEF Settles
    <3>2. ~Unsettles(r) => n.status # "Deprecated" /\ (op.change = "comment" /\ n.status \in Done => n.evidence)
      BY <1>6 DEF Unsettles
    <3> QED
      BY <1>6, <3>1, <3>2 DEF Decisive, Telling
  <2>2. row' = row
    BY <1>1 DEF assessment
  <2> QED
    BY <1>8, <1>9, <2>1, <2>2 DEF IInv, RequestInv
<1>12. TableInv' /\ RowInv' /\ NewsInv'
  BY <1>1 DEF IInv, TableInv, RowInv, NewsInv, assessment, history
<1> QED
  BY <1>10, <1>11, <1>12 DEF IInv

(* A PUT is validated. *)
LEMMA PutKeeps ==
  ASSUME IInv, NEW w \in Workers, NEW op \in Operations, Put(w, op)
  PROVE  IInv'
<1> DEFINE set == IF op.status = "same" THEN row ELSE SetStatus(row, op.status)
           effect == ModifiedEffect(row.status, set.status, op.change # "none", UnsentTypes)
           new == ResetStatus(set, op.change)
           n == IF op.change \in Mandatory THEN [new EXCEPT !.evidence = op.complete] ELSE new
<1>1. /\ Accept(w, op, new, effect)
      /\ op.status = "same" \/ ~Refused(row, op.status)
  BY DEF Put
<1>2. effect \in Effect /\ (effect.deletes => effect.adds # {})
  BY ModifiedTells
<1>3. row \in Row
  BY DEF IInv, TypeOK
<1>4. /\ op.complete \in BOOLEAN
      /\ op.status = "same" \/ (op.status \in Statuses /\ op.change \notin Mandatory)
  BY OperationFields
<1>5. n = Decided(row, set, op.change, op.complete)
  BY DEF Decided
<1> HIDE DEF effect, n
<1>6. /\ n \in Row
      /\ \/ row.status \in NotDone /\ n.status \in Done
         \/ row.status \in Done /\ n.status \in NotDone
         => Good(n)
      /\ /\ Good(row) /\ n.status # "Deprecated"
         /\ op.change = "comment" /\ n.status \in Done => n.evidence
         => Good(n)
  <2>1. CASE op.status = "same"
    BY <2>1, <1>3, <1>4, <1>5, KeptDecision
  <2>2. CASE op.status # "same"
    BY <2>2, <1>1, <1>3, <1>4, <1>5, SetDecision
  <2> QED
    BY <2>1, <2>2
<1>7. n = IF op.change \in Mandatory THEN [new EXCEPT !.evidence = op.complete] ELSE new
  BY DEF n
<1> HIDE DEF new, set
<1> QED
  BY <1>1, <1>2, <1>6, <1>7, AcceptKeeps

(* A mapping, or a change of a mapped document, keeps the status or resets it. *)
LEMMA OtherKeeps ==
  ASSUME IInv, NEW w \in Workers, NEW op \in Operations, Relate(w, op) \/ ChangeDocument(w, op)
  PROVE  IInv'
<1> DEFINE new == ResetStatus(row, op.change)
           n == IF op.change \in Mandatory THEN [new EXCEPT !.evidence = op.complete] ELSE new
<1>1. PICK effect : /\ Accept(w, op, new, effect)
                    /\ effect \in {RelatedEffect(row.status, op.change, UnsentTypes), Silence}
  BY DEF Relate, ChangeDocument
<1>2. effect \in Effect /\ (effect.deletes => effect.adds # {})
  <2>1. CASE effect = Silence
    BY <2>1 DEF Silence, Effect
  <2>2. CASE effect = RelatedEffect(row.status, op.change, UnsentTypes)
    BY <2>2, RelatedTells
  <2> QED
    BY <1>1, <2>1, <2>2
<1>3. row \in Row /\ op.complete \in BOOLEAN
  BY OperationFields DEF IInv, TypeOK
<1>4. n = Decided(row, row, op.change, op.complete)
  BY DEF Decided
<1> HIDE DEF n
<1>5. /\ n \in Row
      /\ \/ row.status \in NotDone /\ n.status \in Done
         \/ row.status \in Done /\ n.status \in NotDone
         => Good(n)
      /\ /\ Good(row) /\ n.status # "Deprecated"
         /\ op.change = "comment" /\ n.status \in Done => n.evidence
         => Good(n)
  BY <1>3, <1>4, KeptDecision
<1>6. n = IF op.change \in Mandatory THEN [new EXCEPT !.evidence = op.complete] ELSE new
  BY DEF n
<1> HIDE DEF new
<1> QED
  BY <1>1, <1>2, <1>5, <1>6, AcceptKeeps

-----------------------------------------------------------------------------
(* A request commits. *)

(* What is written: all of a current decision, nothing of one that changed nothing. *)
LEMMA WrittenRow ==
  ASSUME TypeOK, NEW w \in Workers, request[w].pc = "open", Decisive(request[w], row)
  PROVE  /\ Written(request[w]) \in Row
         /\ ~request[w].stale => Written(request[w]) = request[w].new
         /\ request[w].new = request[w].loaded => Written(request[w]) = row
<1> DEFINE r == request[w]
<1>1. r.new \in Row /\ r.loaded \in Row /\ row \in Row /\ r.stale \in BOOLEAN
  BY OpenRecord DEF TypeOK
<1>2. ~r.stale => r.loaded = row
  BY DEF Decisive
<1> HIDE DEF r
<1>3. Written(r) \in Row
  BY <1>1 DEF Written, Row
<1>4. \A x, y \in Row : x.status = y.status /\ x.finished = y.finished
                       /\ x.verified = y.verified /\ x.evidence = y.evidence => x = y
  BY DEF Row
<1>5. r.loaded = row => Written(r) = r.new
  <2>1. ASSUME r.loaded = row
        PROVE  /\ Written(r).status = r.new.status /\ Written(r).finished = r.new.finished
               /\ Written(r).verified = r.new.verified /\ Written(r).evidence = r.new.evidence
    BY <2>1 DEF Written
  <2> QED
    BY <2>1, <1>1, <1>3, <1>4
<1>6. r.new = r.loaded => Written(r) = row
  <2>1. ASSUME r.new = r.loaded
        PROVE  /\ Written(r).status = row.status /\ Written(r).finished = row.finished
               /\ Written(r).verified = row.verified /\ Written(r).evidence = row.evidence
    BY <2>1 DEF Written
  <2> QED
    BY <2>1, <1>1, <1>3, <1>4
<1> QED
  BY <1>2, <1>3, <1>5, <1>6 DEF r

(* A few types of notifications make finitely many rows. *)
LEMMA AddedRows ==
  ASSUME NEW id, NEW adds \in SUBSET Types, NEW added,
         added = {[key |-> <<id, t>>, sent |-> FALSE] : t \in adds}
  PROVE  IsFiniteSet(added)
<1>1. IsFiniteSet({}) /\ \A S, x : IsFiniteSet(S) => IsFiniteSet(S \cup {x})
  BY FS_EmptySet, FS_AddElement
<1>2. Types = (((((({} \cup {"started"}) \cup {"completed"}) \cup {"review"}) \cup {"verified"})
                \cup {"reopened"}) \cup {"declined"}) \cup {"updated"}
  BY DEF Types
<1>3. IsFiniteSet(Types)
  BY <1>1, <1>2, Zenon
<1>4. IsFiniteSet(adds)
  BY <1>3, FS_Subset
<1> DEFINE f == [t \in adds |-> [key |-> <<id, t>>, sent |-> FALSE]]
<1>5. f = [t \in adds |-> f[t]] /\ added = {f[t] : t \in adds}
  OBVIOUS
<1> HIDE DEF f
<1> QED
  BY <1>4, <1>5, ImageFinite

LEMMA CommitKeeps ==
  ASSUME IInv, NEW w \in Workers, Commit(w)
  PROVE  IInv'
<1> DEFINE r == request[w]
           changes == r.op.kind = "put" \/ r.new # r.loaded
           writes == r.op.kind = "put" \/ \E c \in {"status", "finished", "verified"} :
                                            r.new[c] # r.loaded[c]
           tells == r.effect.adds # {} \/ r.touched # {}
           added == {[key |-> <<NewId, t>>, sent |-> FALSE] : t \in r.effect.adds}
           touchedLate == \E n \in notices : n.key \in r.touched /\ (n.sent \/ n.key \in digest.list)
<1>1. /\ r.pc = "open" /\ ~Doomed(r)
      /\ row' = Written(r)
      /\ \/ writes /\ stamp' = stamp + 1
         \/ stamp' = stamp
      /\ edition' = IF writes THEN edition + 1 ELSE edition
      /\ notices' = (IF r.effect.deletes THEN {} ELSE notices) \cup added
      /\ digest' = [digest EXCEPT !.news = digest.news \/ (digest.pc # "idle" /\ tells)]
      /\ news' = (news \/ tells)
      /\ unsure' = \/ r.stale /\ changes
                   \/ (unsure \/ Unsettles(r)) /\ ~Settles(r)
      /\ late' = (late \/ touchedLate)
      /\ page' = page /\ accepted' = accepted
  BY DEF Commit
<1>2. request' = [v \in Workers |->
        CASE v = w -> Idle
          [] v # w /\ request[v].pc = "open" /\ changes -> [request[v] EXCEPT !.stale = TRUE]
          [] OTHER -> request[v]]
  BY DEF Commit
<1>3. /\ TypeOK /\ RequestInv /\ TableInv /\ RowInv /\ NewsInv
  BY DEF IInv
<1>4. /\ r.new \in Row /\ r.loaded \in Row /\ r.effect \in Effect /\ r.stale \in BOOLEAN
      /\ Decisive(r, row) /\ Telling(r) /\ IsFiniteSet(r.touched)
  BY <1>1, <1>3, OpenRecord DEF RequestInv
<1>5. /\ Written(r) \in Row
      /\ ~r.stale => Written(r) = r.new
      /\ ~changes => Written(r) = row
  BY <1>1, <1>3, <1>4, WrittenRow
<1>6. NewId \in Nat /\ \A k \in Keys \cup digest.list : k[1] # NewId
  BY <1>3, NewIdIsNew
<1>7. /\ \A v \in Workers : v # w =>
           \/ request'[v] = request[v] /\ (request[v].pc = "open" => ~changes)
           \/ request[v].pc = "open" /\ changes /\ request'[v] = [request[v] EXCEPT !.stale = TRUE]
      /\ request'[w] = Idle
  BY <1>2
<1> HIDE DEF r, writes, touchedLate, added
<1>8. ASSUME NEW v \in Workers, v # w, request'[v].pc = "open"
      PROVE  /\ request[v].pc = "open" /\ request'[v] \in Open
             /\ request'[v].op = request[v].op /\ request'[v].loaded = request[v].loaded
             /\ request'[v].new = request[v].new /\ request'[v].seen = request[v].seen
             /\ request'[v].edition = request[v].edition /\ request'[v].effect = request[v].effect
             /\ request'[v].touched = request[v].touched
             /\ request'[v].stale \/ (request'[v] = request[v] /\ ~changes)
  <2>1. request[v].pc = "open" => request[v] \in Open
    BY <1>3, OpenRecord
  <2>2. CASE request'[v] = request[v] /\ (request[v].pc = "open" => ~changes)
    BY <1>8, <2>1, <2>2
  <2>3. CASE request[v].pc = "open" /\ changes /\ request'[v] = [request[v] EXCEPT !.stale = TRUE]
    BY <2>1, <2>3, StaleRecord
  <2> QED
    BY <1>7, <1>8, <2>2, <2>3
<1> HIDE DEF changes
<1>9. TypeOK'
  <2>1. request' \in [Workers -> Open \cup {Idle}]
    <3>1. ASSUME NEW v \in Workers
          PROVE  request'[v] \in Open \cup {Idle}
      <4>1. CASE v = w
        BY <1>7, <4>1
      <4>2. CASE v # w /\ request'[v] = request[v]
        BY <1>3, <4>2 DEF TypeOK
      <4>3. CASE request[v].pc = "open" /\ request'[v] = [request[v] EXCEPT !.stale = TRUE]
        BY <1>3, <4>3, OpenRecord, StaleRecord
      <4> QED
        BY <1>7, <4>1, <4>2, <4>3
    <3>2. request' = [v \in Workers |-> request'[v]]
      BY <1>2
    <3> QED
      BY <3>1, <3>2
  <2>2. stamp' \in Nat /\ edition' \in Nat
    <3>1. stamp' \in {stamp, stamp + 1} /\ edition' \in {edition, edition + 1}
      BY <1>1
    <3>2. stamp \in Nat /\ edition \in Nat
      BY <1>3 DEF TypeOK
    <3> QED
      BY <3>1, <3>2
  <2>3. added \subseteq Notice
    <3>1. r.effect.adds \subseteq Types
      BY <1>4 DEF Effect
    <3>2. ASSUME NEW t \in Types
          PROVE  [key |-> <<NewId, t>>, sent |-> FALSE] \in Notice
      BY <1>6 DEF Notice, Key
    <3> QED
      BY <3>1, <3>2 DEF added
  <2>4. notices' \subseteq Notice
    BY <1>1, <1>3, <2>3 DEF TypeOK
  <2>5. digest' \in [pc : {"idle", "mail", "mark"}, list : SUBSET Key, news : BOOLEAN]
    <3>1. (digest.news \/ (digest.pc # "idle" /\ tells)) \in BOOLEAN
      OBVIOUS
    <3>2. digest \in [pc : {"idle", "mail", "mark"}, list : SUBSET Key, news : BOOLEAN]
      BY <1>3 DEF TypeOK
    <3> HIDE DEF tells
    <3> QED
      BY <1>1, <3>1, <3>2
  <2>6. news' \in BOOLEAN /\ unsure' \in BOOLEAN /\ late' \in BOOLEAN
    BY <1>1
  <2>7. row' \in Row /\ page' \in Page /\ accepted' \in Nat
    BY <1>1, <1>3, <1>5 DEF TypeOK
  <2> QED
    BY <2>1, <2>2, <2>4, <2>5, <2>6, <2>7 DEF TypeOK
<1>10. RequestInv'
  <2>1. SUFFICES ASSUME NEW v \in Workers, request'[v].pc = "open"
                 PROVE  /\ Decisive(request'[v], row') /\ Telling(request'[v])
                        /\ IsFiniteSet(request'[v].touched)
    BY DEF RequestInv, Decisive, Settles, Unsettles, Telling
  <2>2. v # w
    BY <2>1, <1>7 DEF Idle
  <2>3. /\ Decisive(request[v], row) /\ Telling(request[v]) /\ IsFiniteSet(request[v].touched)
    BY <1>3, <1>8, <2>1, <2>2 DEF RequestInv
  <2>4. Telling(request'[v]) /\ IsFiniteSet(request'[v].touched)
    BY <1>8, <2>1, <2>2, <2>3 DEF Telling
  <2>5. CASE request'[v].stale
    BY <1>8, <2>1, <2>2, <2>3, <2>4, <2>5 DEF Decisive, Settles, Unsettles
  <2>6. CASE request'[v] = request[v] /\ ~changes
    BY <1>1, <1>5, <2>3, <2>4, <2>6
  <2> QED
    BY <1>8, <2>1, <2>2, <2>5, <2>6
<1>11. RowInv'
  <2>1. SUFFICES ASSUME ~unsure'
                 PROVE  Good(row')
    BY DEF RowInv, Good
  <2>2. ~(r.stale /\ changes) /\ (Settles(r) \/ (~unsure /\ ~Unsettles(r)))
    BY <1>1, <2>1
  <2>3. CASE ~r.stale
    BY <1>1, <1>3, <1>4, <1>5, <2>2, <2>3 DEF Decisive, RowInv
  <2>4. CASE ~changes
    <3>1. r.new = r.loaded
      BY <2>4 DEF changes
    <3>2. ~Settles(r)
      BY <3>1, <1>4, StatusParts DEF Settles
    <3> QED
      BY <1>1, <1>3, <1>5, <2>2, <2>4, <3>2 DEF RowInv
  <2> QED
    BY <1>4, <2>2, <2>3, <2>4
<1>12. TableInv'
  <2>1. r.effect.adds \in SUBSET Types
    BY <1>4 DEF Effect
  <2>2. IsFiniteSet(added)
    BY <2>1, AddedRows DEF added
  <2>3. IsFiniteSet(IF r.effect.deletes THEN {} ELSE notices)
    BY <1>3, FS_EmptySet DEF TableInv
  <2>4. IsFiniteSet(notices')
    BY <1>1, <2>2, <2>3, FS_Union
  <2>5. digest'.list = digest.list
    BY <1>1, <1>3 DEF TypeOK
  <2> QED
    BY <1>3, <2>4, <2>5 DEF TableInv
<1>13. NewsInv'
  <2>1. digest'.list = digest.list /\ (digest'.news => digest.news \/ tells)
    <3>1. digest \in [pc : {"idle", "mail", "mark"}, list : SUBSET Key, news : BOOLEAN]
      BY <1>3 DEF TypeOK
    <3> HIDE DEF tells
    <3> QED
      BY <1>1, <3>1
  <2>2. ASSUME tells, ~late'
        PROVE  \E n \in notices' : ~n.sent /\ n.key \notin digest.list
    <3>1. CASE r.effect.adds # {}
      <4>1. PICK t : t \in r.effect.adds
        BY <3>1
      <4> DEFINE n == [key |-> <<NewId, t>>, sent |-> FALSE]
      <4>2. n \in notices'
        BY <1>1, <4>1 DEF added
      <4>3. ~n.sent /\ n.key \notin digest.list
        BY <1>6
      <4> QED
        BY <4>2, <4>3
    <3>2. CASE r.touched # {}
      <4>1. ~r.effect.deletes /\ r.touched \subseteq Keys
        BY <1>1, <3>2 DEF Doomed
      <4>2. PICK n \in notices : n.key \in r.touched
        BY <4>1, <3>2 DEF Keys
      <4>3. ~n.sent /\ n.key \notin digest.list
        BY <1>1, <2>2, <4>2 DEF touchedLate
      <4>4. n \in notices'
        BY <1>1, <4>1, <4>2
      <4> QED
        BY <4>3, <4>4
    <3> QED
      BY <2>2, <3>1, <3>2
  <2>3. ASSUME ~tells
        PROVE  notices' = notices
    <3>1. ~r.effect.deletes /\ r.effect.adds = {}
      BY <1>4, <2>3 DEF Telling
    <3> QED
      BY <1>1, <3>1 DEF added
  <2>4. ~late' => ~late
    BY <1>1
  <2> HIDE DEF tells
  <2>5. CASE tells
    BY <2>1, <2>2, <2>5 DEF NewsInv
  <2>6. CASE ~tells
    BY <1>1, <1>3, <2>1, <2>3, <2>4, <2>6 DEF NewsInv
  <2> QED
    BY <2>5, <2>6
<1> QED
  BY <1>9, <1>10, <1>11, <1>12, <1>13 DEF IInv

-----------------------------------------------------------------------------
(* The client, a failed request, and the digest. *)

LEMMA PageKeeps ==
  ASSUME IInv, ReadPage
  PROVE  IInv'
<1>1. /\ page' = [stamp |-> stamp, edition |-> edition]
      /\ UNCHANGED <<assessment, request, accepted, notices, digest, history>>
  BY DEF ReadPage
<1>2. stamp \in Nat /\ edition \in Nat
  BY DEF IInv, TypeOK
<1>3. page' \in Page
  BY <1>1, <1>2 DEF Page
<1>4. TypeOK'
  BY <1>1, <1>3 DEF IInv, TypeOK, assessment, history
<1>5. RequestInv' /\ TableInv' /\ RowInv' /\ NewsInv'
  BY <1>1 DEF IInv, RequestInv, Decisive, Settles, Unsettles, Telling, TableInv, RowInv,
              NewsInv, assessment, history
<1> QED
  BY <1>4, <1>5 DEF IInv

LEMMA AbortKeeps ==
  ASSUME IInv, NEW w \in Workers, Abort(w)
  PROVE  IInv'
<1>1. /\ request' = [request EXCEPT ![w] = Idle]
      /\ UNCHANGED <<assessment, page, accepted, notices, digest, history>>
  BY DEF Abort
<1>2. request'[w].pc # "open" /\ \A v \in Workers : v # w => request'[v] = request[v]
  BY <1>1 DEF IInv, TypeOK, Idle
<1>3. TypeOK'
  BY <1>1 DEF IInv, TypeOK, assessment, history
<1>4. RequestInv'
  BY <1>1, <1>2 DEF IInv, RequestInv, Decisive, Settles, Unsettles, Telling, assessment, history
<1>5. TableInv' /\ RowInv' /\ NewsInv'
  BY <1>1 DEF IInv, TableInv, RowInv, NewsInv, assessment, history
<1> QED
  BY <1>3, <1>4, <1>5 DEF IInv

(* The digest reads and writes notifications only. *)
LEMMA DigestFrame ==
  ASSUME IInv, UNCHANGED <<assessment, page, request, accepted, unsure, late>>,
         notices' \subseteq Notice, IsFiniteSet(notices'), news' \in BOOLEAN,
         digest' \in [pc : {"idle", "mail", "mark"}, list : SUBSET Key, news : BOOLEAN],
         IsFiniteSet(digest'.list), NewsInv'
  PROVE  IInv'
<1>1. TypeOK'
  BY DEF IInv, TypeOK, assessment
<1>2. RequestInv' /\ RowInv' /\ TableInv'
  BY DEF IInv, RequestInv, Decisive, Settles, Unsettles, Telling, RowInv, TableInv, assessment
<1> QED
  BY <1>1, <1>2 DEF IInv

LEMMA DigestKeeps ==
  ASSUME IInv, Digest
  PROVE  IInv'
<1>1. /\ digest \in [pc : {"idle", "mail", "mark"}, list : SUBSET Key, news : BOOLEAN]
      /\ notices \subseteq Notice /\ IsFiniteSet(notices) /\ IsFiniteSet(digest.list)
      /\ news \in BOOLEAN /\ NewsInv
  BY DEF IInv, TypeOK, TableInv
<1>2. /\ NoDigest \in [pc : {"idle", "mail", "mark"}, list : SUBSET Key, news : BOOLEAN]
      /\ IsFiniteSet(NoDigest.list) /\ ~NoDigest.news
  BY FS_EmptySet DEF NoDigest
<1>3. CASE ReadDigest
  <2>1. /\ digest' = [pc |-> "mail", list |-> Unsent, news |-> FALSE]
        /\ UNCHANGED <<assessment, page, request, accepted, notices, history>>
    BY <1>3 DEF ReadDigest
  <2>2. Unsent \subseteq Key
    BY <1>1 DEF Unsent, Notice
  <2>3. IsFiniteSet(Unsent)
    <3> DEFINE f == [x \in {m \in notices : ~m.sent} |-> x.key]
    <3>1. IsFiniteSet({m \in notices : ~m.sent})
      BY <1>1, FS_Subset
    <3>2. f = [x \in {m \in notices : ~m.sent} |-> f[x]]
          /\ Unsent = {f[x] : x \in {m \in notices : ~m.sent}}
      BY DEF Unsent
    <3> HIDE DEF f
    <3> QED
      BY <3>1, <3>2, ImageFinite
  <2>4. NewsInv'
    BY <1>1, <2>1 DEF NewsInv, history
  <2> QED
    BY <1>1, <2>1, <2>2, <2>3, <2>4, DigestFrame DEF history
<1>4. CASE SendMails
  <2>1. /\ digest' = [digest EXCEPT !.pc = "mark"]
        /\ UNCHANGED <<assessment, page, request, accepted, notices, history>>
    BY <1>4 DEF SendMails
  <2>2. /\ digest'.list = digest.list /\ digest'.news = digest.news
        /\ digest' \in [pc : {"idle", "mail", "mark"}, list : SUBSET Key, news : BOOLEAN]
    BY <1>1, <2>1
  <2>3. NewsInv'
    BY <1>1, <2>1, <2>2 DEF NewsInv, history
  <2> QED
    BY <1>1, <2>1, <2>2, <2>3, DigestFrame DEF history
<1>5. CASE MailFails
  <2>1. digest' = NoDigest /\ UNCHANGED <<assessment, page, request, accepted, notices, history>>
    BY <1>5 DEF MailFails
  <2>2. NewsInv'
    BY <1>1, <1>2, <2>1 DEF NewsInv, history
  <2> QED
    BY <1>1, <1>2, <2>1, <2>2, DigestFrame DEF history
<1>6. CASE MarkSent
  <2>1. digest' = NoDigest /\ UNCHANGED <<assessment, page, request, accepted, unsure, late>>
    BY <1>6 DEF MarkSent
  <2>2. CASE ~(digest.list \subseteq Keys)
    <3>1. UNCHANGED <<notices, news>>
      BY <1>6, <2>2 DEF MarkSent
    <3>2. NewsInv'
      BY <1>1, <1>2, <2>1, <3>1 DEF NewsInv
    <3> QED
      BY <1>1, <1>2, <2>1, <3>1, <3>2, DigestFrame
  <2>3. CASE digest.list \subseteq Keys
    <3> DEFINE kept == {m \in notices : m.key \notin digest.list \/ InUse(m.key)}
               f == [n \in kept |-> [n EXCEPT !.sent = n.sent \/ n.key \in digest.list]]
    <3>1. /\ notices' = {[n EXCEPT !.sent = n.sent \/ n.key \in digest.list] : n \in kept}
          /\ news' = digest.news
      BY <1>6, <2>3 DEF MarkSent
    <3>2. kept \subseteq notices
      OBVIOUS
    <3>3. f = [n \in kept |-> f[n]] /\ notices' = {f[n] : n \in kept}
      BY <3>1
    <3>4. \A n \in kept : f[n] \in Notice /\ f[n].key = n.key
                         /\ (f[n].sent <=> n.sent \/ n.key \in digest.list)
      <4>1. ASSUME NEW n \in Notice, NEW b \in BOOLEAN
            PROVE  /\ [n EXCEPT !.sent = b] \in Notice /\ [n EXCEPT !.sent = b].key = n.key
                   /\ [n EXCEPT !.sent = b].sent = b
        BY DEF Notice
      <4>2. \A n \in kept : (n.sent \/ n.key \in digest.list) \in BOOLEAN /\ n \in Notice
        BY <1>1
      <4> HIDE DEF kept
      <4> QED
        BY <4>1, <4>2
    <3>5. \A n \in notices : ~n.sent /\ n.key \notin digest.list => n \in kept
      OBVIOUS
    <3> HIDE DEF f, kept
    <3>6. IsFiniteSet(notices')
      BY <1>1, <3>2, <3>3, FS_Subset, ImageFinite
    <3>7. notices' \subseteq Notice
      BY <3>3, <3>4
    <3>8. NewsInv'
      <4>1. ASSUME news', ~late'
            PROVE  \E n \in notices' : ~n.sent
        <5>1. PICK n \in notices : ~n.sent /\ n.key \notin digest.list
          BY <1>1, <2>1, <3>1, <4>1 DEF NewsInv
        <5>2. n \in kept
          BY <5>1, <3>5
        <5>3. f[n] \in notices' /\ ~f[n].sent
          BY <3>3, <3>4, <5>1, <5>2
        <5> QED
          BY <5>3
      <4> QED
        BY <1>2, <2>1, <4>1 DEF NewsInv
    <3> QED
      BY <1>1, <1>2, <2>1, <3>1, <3>6, <3>7, <3>8, DigestFrame
  <2> QED
    BY <2>2, <2>3
<1> QED
  BY <1>3, <1>4, <1>5, <1>6 DEF Digest

-----------------------------------------------------------------------------
(* Theorems. *)

LEMMA InvariantInit == Init => IInv
<1> SUFFICES ASSUME Init
             PROVE  IInv
  OBVIOUS
<1>1. /\ row \in Row /\ (row.finished <=> row.status \in Done) /\ row.status # "Deprecated"
      /\ (row.verified => row.status \in Done) /\ (row.status \in Done => row.evidence)
  BY DEF Init
<1>2. TypeOK
  BY <1>1 DEF Init, TypeOK, Page, NoDigest
<1>3. RequestInv
  BY DEF Init, RequestInv, Idle
<1>4. TableInv
  BY FS_EmptySet DEF Init, TableInv, NoDigest
<1>5. RowInv /\ NewsInv
  BY <1>1 DEF Init, RowInv, Good, NewsInv, NoDigest
<1> QED
  BY <1>2, <1>3, <1>4, <1>5 DEF IInv

LEMMA InvariantStep == IInv /\ [Next]_vars => IInv'
<1> SUFFICES ASSUME IInv, [Next]_vars
             PROVE  IInv'
  OBVIOUS
<1>1. CASE UNCHANGED vars
  <2>1. TypeOK' /\ RequestInv' /\ TableInv' /\ RowInv'
    BY <1>1 DEF IInv, TypeOK, RequestInv, Decisive, Settles, Unsettles, Telling, TableInv, RowInv,
                vars, assessment, history
  <2>2. NewsInv'
    BY <1>1 DEF IInv, NewsInv, vars, assessment, history
  <2> QED
    BY <2>1, <2>2 DEF IInv
<1>2. CASE Next
  BY <1>2, PageKeeps, CommitKeeps, AbortKeeps, PutKeeps, OtherKeeps, DigestKeeps DEF Next
<1> QED
  BY <1>1, <1>2

(* The strengthened invariant holds throughout. *)
THEOREM Invariant == Spec => []IInv
<1> QED
  BY InvariantInit, InvariantStep, PTL DEF Spec

(* Types: whatever the handlers compute can be stored. *)
THEOREM TypeCorrect == Spec => []TypeOK
<1>1. IInv => TypeOK
  BY DEF IInv
<1> QED
  BY <1>1, Invariant, PTL

(* Dates: they follow the status, once it has moved on a current row. *)
THEOREM DatesFollowStatusAlways == Spec => []DatesFollowStatus
<1>1. IInv => DatesFollowStatus
  BY DEF IInv, RowInv, Good, DatesFollowStatus
<1> QED
  BY <1>1, Invariant, PTL

(* Completeness: a done assessment lacks no mandatory piece. *)
THEOREM DoneIsCompleteAlways == Spec => []DoneIsComplete
<1>1. IInv => DoneIsComplete
  BY DEF IInv, RowInv, Good, DoneIsComplete
<1> QED
  BY <1>1, Invariant, PTL

(* Notifications: what was asked for and not mailed is in the table, unsent. *)
THEOREM NewsIsQueuedAlways == Spec => []NewsIsQueued
<1>1. IInv => NewsIsQueued
  BY DEF IInv, NewsInv, NewsIsQueued, Unsent
<1> QED
  BY <1>1, Invariant, PTL
=============================================================================
