--------------------------- MODULE AutomapperProofs ---------------------------
(****************************************************************************)
(* Proofs about Automapper: for any rules, objects and number of overlapping   *)
(* requests, the table stays closed under the rules, an issue has the audit it  *)
(* is mapped to, and the automapper inserts nothing that no rule implies.      *)
(****************************************************************************)
EXTENDS Automapper, FiniteSetTheorems, TLAPS

----------------------------------------------------------------------------
(* Pairs and rules *)

\* The edges q and n, which meet in an object, imply p.
Triangle(q, n, p) ==
  \E a, b, m \in Objects : /\ a # b /\ q = {a, m} /\ n = {b, m} /\ p = {a, b}
                           /\ Mapping(a, m, b)

LEMMA PairIs == \A a, b \in Objects : a # b => {a, b} \in Pair
<1> SUFFICES ASSUME NEW a \in Objects, NEW b \in Objects, a # b
             PROVE  Cardinality({a, b}) = 2
  BY DEF Pair
<1>1. IsFiniteSet({a}) /\ Cardinality({a}) = 1
  BY FS_Singleton
<1>2. Cardinality({a} \cup {b}) = 2
  BY <1>1, FS_AddElement
<1>3. {a} \cup {b} = {a, b}
  OBVIOUS
<1> QED
  BY <1>2, <1>3

LEMMA PairOf == \A p \in Pair : \E a, b \in Objects : a # b /\ p = {a, b}
<1> SUFFICES ASSUME NEW p \in SUBSET Objects, Cardinality(p) = 2
             PROVE  \E a, b \in Objects : a # b /\ p = {a, b}
  BY DEF Pair
<1>1. IsFiniteSet(p)
  BY AutomapperAssumption, FS_Subset
<1>2. p # {}
  BY <1>1, FS_EmptySet
<1>3. PICK a \in p : TRUE
  BY <1>2
<1>4. IsFiniteSet(p \ {a}) /\ Cardinality(p \ {a}) = 1
  BY <1>1, <1>3, FS_RemoveElement
<1>5. PICK b : p \ {a} = {b}
  BY <1>4, FS_Singleton
<1> QED
  BY <1>3, <1>5

\* The two ends of a pair are not the same object.
LEMMA PairEnds == \A a, b : {a, b} \in Pair => a \in Objects /\ b \in Objects /\ a # b
<1> SUFFICES ASSUME NEW a, NEW b, {a, b} \in Pair
             PROVE  a \in Objects /\ b \in Objects /\ a # b
  OBVIOUS
<1>1. PICK c, d \in Objects : c # d /\ {a, b} = {c, d}
  BY PairOf
<1> QED
  BY <1>1

LEMMA MappingSymmetric == \A a, m, b : Mapping(a, m, b) <=> Mapping(b, m, a)
BY DEF Mapping

LEMMA TriangleSymmetric == \A q, n, p : Triangle(q, n, p) <=> Triangle(n, q, p)
BY MappingSymmetric DEF Triangle

\* _step, from either end of the edge.
LEMMA StepIs ==
  ASSUME NEW P \in SUBSET Pair, NEW q \in Pair
  PROVE  \A p : p \in Step(q, P) <=> \E n \in P : Triangle(q, n, p)
<1>1. ASSUME NEW p, p \in Step(q, P)
      PROVE  \E n \in P : Triangle(q, n, p)
  <2>1. PICK o \in {e \in q \X q : e[1] # e[2]} : p \in StepFrom(o[1], o[2], P)
    BY <1>1 DEF Step
  <2> DEFINE a == o[1]
             m == o[2]
  <2>2. a \in q /\ m \in q /\ a # m
    BY <2>1
  <2>3. q = {a, m} /\ a \in Objects /\ m \in Objects
    BY <2>2, PairOf
  <2> HIDE DEF a, m
  <2>4. PICK b \in Objects : {m, b} \in P /\ b # a /\ Mapping(a, m, b) /\ p = {b, a}
    BY <2>1 DEF StepFrom, Neighbours, a, m
  <2>5. Triangle(q, {b, m}, p)
    BY <2>3, <2>4 DEF Triangle
  <2>6. {b, m} = {m, b}
    OBVIOUS
  <2> QED
    BY <2>4, <2>5, <2>6
<1>2. ASSUME NEW p, NEW n \in P, Triangle(q, n, p)
      PROVE  p \in Step(q, P)
  <2>1. PICK a, b, m \in Objects : /\ a # b /\ q = {a, m} /\ n = {b, m} /\ p = {a, b}
                                   /\ Mapping(a, m, b)
    BY <1>2 DEF Triangle
  <2>2. a # m
    BY <2>1, PairEnds
  <2>3. {m, b} \in P /\ p = {b, a}
    BY <2>1
  <2>4. p \in StepFrom(a, m, P)
    BY <2>1, <2>3 DEF StepFrom, Neighbours
  <2>5. <<a, m>> \in {e \in q \X q : e[1] # e[2]}
    BY <2>1, <2>2
  <2> QED
    BY <2>4, <2>5 DEF Step
<1> QED
  BY <1>1, <1>2

LEMMA ImpliedIs ==
  ASSUME NEW P \in SUBSET Pair
  PROVE  \A p : p \in Implied(P) <=> \E q, n \in P : Triangle(q, n, p)
<1>1. \A p : p \in Implied(P) <=> \E q \in P : p \in Step(q, P)
  BY DEF Implied
<1> QED
  BY <1>1, StepIs

\* What is implied is a pair of objects, and more relationships imply more.
LEMMA ImpliedType ==
  ASSUME NEW P \in SUBSET Pair
  PROVE  Implied(P) \subseteq Pair
BY ImpliedIs, PairIs DEF Triangle

LEMMA ImpliedGrows ==
  ASSUME NEW P \in SUBSET Pair, NEW Q \in SUBSET Pair, P \subseteq Q
  PROVE  Implied(P) \subseteq Implied(Q)
BY ImpliedIs

LEMMA StepImplied ==
  ASSUME NEW P \in SUBSET Pair, NEW q \in P
  PROVE  Step(q, P) \subseteq Implied(P)
BY StepIs, ImpliedIs

LEMMA StepType ==
  ASSUME NEW P \in SUBSET Pair, NEW q \in Pair
  PROVE  Step(q, P) \subseteq Pair
<1>1. \A n, p : Triangle(q, n, p) => p \in Pair
  BY PairIs DEF Triangle
<1> QED
  BY <1>1, StepIs

----------------------------------------------------------------------------
(* The inductive invariant of a session *)

\* What the request has made so far, and the part of it whose consequences have
\* been followed.
Kept(s) == s.posted \cup s.flushed \cup s.auto
Handled(s) == (s.posted \ s.todo) \cup s.flushed \cup s.auto

\* related_cache holds what the request saw and made; until the limit is exceeded
\* it holds nothing else, and whatever an edge that was followed implies is
\* there, in the queue, or refused.
Follows(s) ==
  /\ s.snap \cup Kept(s) \subseteq s.related
  /\ s.todo \subseteq s.posted
  /\ ~s.over =>
       /\ s.related \subseteq s.snap \cup Kept(s)
       /\ s.processed \subseteq s.related
       /\ s.pc = "next" => s.queue = {} /\ s.auto = {}
       /\ s.queue \cup s.auto \cup s.flushed \subseteq Implied(s.related)
       /\ \A n \in Handled(s) : Step(n, s.related) \subseteq s.related \cup s.queue \cup s.refused

\* An issue that the request maps to an audit has no other audit in related_cache.
OneAudit(s, exempt) ==
  \A i \in Issues \ exempt : NewAudits(i, Kept(s)) # {} =>
    \A a, b \in NewAudits(i, s.related) : a = b

SessionOK(s) == s # Idle => Follows(s) /\ OneAudit(s, mixed)

\* New audits of an issue come with new pairs.
LEMMA NewAuditsIs ==
  \A i, P, a : a \in NewAudits(i, P) <=> a \in Audits /\ {i, a} \in P
BY DEF NewAudits, Neighbours, Audits, OfType

LEMMA NewAuditsJoin ==
  ASSUME NEW i, NEW P, NEW Q
  PROVE  NewAudits(i, P \cup Q) = NewAudits(i, P) \cup NewAudits(i, Q)
BY DEF NewAudits, Neighbours

\* Pairs that map an issue to no audit leave its audits alone.
LEMMA OtherPairs ==
  ASSUME NEW i, NEW P, NEW Q, \A a \in Audits : {i, a} \notin Q
  PROVE  NewAudits(i, P \cup Q) = NewAudits(i, P)
<1>1. NewAudits(i, Q) = {}
  BY NewAuditsIs
<1>2. NewAudits(i, P \cup Q) = NewAudits(i, P) \cup NewAudits(i, Q)
  BY NewAuditsJoin
<1> QED
  BY <1>1, <1>2

LEMMA GenerateKeeps ==
  ASSUME NEW s \in Busy, Follows(s), NEW exempt, OneAudit(s, exempt),
         s.pc = "next", NEW pair \in s.todo
  PROVE  LET x == [s EXCEPT !.pc = "map", !.todo = @ \ {pair}, !.auto = {},
                            !.queue = Enqueued(s, pair, s.related)]
         IN  x \in Busy /\ Follows(x) /\ OneAudit(x, exempt)
<1> DEFINE queue == Enqueued(s, pair, s.related)
           x == [s EXCEPT !.pc = "map", !.todo = @ \ {pair}, !.auto = {}, !.queue = queue]
<1>0. /\ s.related \in SUBSET Pair /\ s.posted \in SUBSET Pair /\ s.queue \in SUBSET Pair
      /\ s.todo \in SUBSET Pair
  BY DEF Busy
<1>1. s.todo \subseteq s.posted /\ s.snap \cup Kept(s) \subseteq s.related
  BY DEF Follows
<1>2. pair \in s.related /\ pair \in Pair /\ pair \in s.posted
  BY <1>0, <1>1 DEF Kept
<1>3. queue = s.queue \cup (Step(pair, s.related) \ s.processed)
  BY DEF Enqueued
<1>4. Step(pair, s.related) \subseteq Pair /\ Step(pair, s.related) \subseteq Implied(s.related)
  BY <1>0, <1>2, StepType, StepImplied
<1>5. queue \in SUBSET Pair
  BY <1>0, <1>3, <1>4
<1> HIDE DEF queue
<1>6. /\ x \in Busy
      /\ x.snap = s.snap /\ x.posted = s.posted /\ x.todo = s.todo \ {pair} /\ x.queue = queue
      /\ x.processed = s.processed /\ x.related = s.related /\ x.auto = {}
      /\ x.flushed = s.flushed /\ x.refused = s.refused /\ x.over = s.over /\ x.pc = "map"
  BY <1>5 DEF Busy
<1> HIDE DEF x
<1>7. Kept(x) \subseteq Kept(s) /\ Kept(s) \subseteq Kept(x) \cup s.auto
  BY <1>6 DEF Kept
<1>8. ~s.over => Handled(x) \subseteq Handled(s) \cup {pair}
  BY <1>6 DEF Handled
<1>9. Follows(x)
  <2>1. x.snap \cup Kept(x) \subseteq x.related /\ x.todo \subseteq x.posted
    BY <1>1, <1>6, <1>7
  <2>2. ASSUME ~x.over
        PROVE  /\ x.related \subseteq x.snap \cup Kept(x)
               /\ x.processed \subseteq x.related
               /\ x.queue \cup x.auto \cup x.flushed \subseteq Implied(x.related)
               /\ \A n \in Handled(x) : Step(n, x.related) \subseteq x.related \cup x.queue \cup x.refused
    <3>1. /\ s.auto = {}
          /\ s.related \subseteq s.snap \cup Kept(s)
          /\ s.processed \subseteq s.related
          /\ s.queue \cup s.auto \cup s.flushed \subseteq Implied(s.related)
          /\ \A n \in Handled(s) : Step(n, s.related) \subseteq s.related \cup s.queue \cup s.refused
      BY <1>6, <2>2 DEF Follows
    <3>2. ASSUME NEW n \in Handled(x)
          PROVE  Step(n, x.related) \subseteq x.related \cup x.queue \cup x.refused
      <4>1. CASE n = pair
        BY <1>3, <1>6, <3>1, <4>1
      <4>2. CASE n # pair
        BY <1>3, <1>6, <1>8, <2>2, <3>1, <4>2
      <4> QED
        BY <4>1, <4>2
    <3> QED
      BY <1>3, <1>4, <1>6, <1>7, <3>1, <3>2
  <2>3. x.pc # "next"
    BY <1>6
  <2> QED
    BY <2>1, <2>2, <2>3 DEF Follows
<1>10. OneAudit(x, exempt)
  <2>1. \A i : NewAudits(i, Kept(x)) \subseteq NewAudits(i, Kept(s))
    BY <1>7, NewAuditsIs
  <2> QED
    BY <1>6, <2>1 DEF OneAudit
<1> QED
  BY <1>6, <1>9, <1>10 DEF x, queue

LEMMA SkipKeeps ==
  ASSUME NEW s \in Busy, Follows(s), NEW exempt, OneAudit(s, exempt),
         s.pc = "map", NEW pair \in s.queue
  PROVE  /\ LET x == [s EXCEPT !.queue = @ \ {pair}, !.refused = @ \cup {pair}]
            IN  x \in Busy /\ Follows(x) /\ OneAudit(x, exempt)
         /\ pair \in s.related =>
              LET x == [s EXCEPT !.queue = @ \ {pair}, !.processed = @ \cup {pair}]
              IN  x \in Busy /\ Follows(x) /\ OneAudit(x, exempt)
<1>1. ASSUME NEW x \in Busy,
             x.snap = s.snap, x.posted = s.posted, x.todo = s.todo, x.queue = s.queue \ {pair},
             x.processed \subseteq s.processed \cup s.related, x.related = s.related,
             x.auto = s.auto, x.flushed = s.flushed, x.over = s.over, x.pc = "map",
             s.refused \subseteq x.refused, pair \in x.refused \/ pair \in s.related
      PROVE  Follows(x) /\ OneAudit(x, exempt)
  <2>1. Kept(x) = Kept(s) /\ Handled(x) = Handled(s)
    BY <1>1 DEF Kept, Handled
  <2>2. x.snap \cup Kept(x) \subseteq x.related /\ x.todo \subseteq x.posted
    BY <1>1, <2>1 DEF Follows
  <2>3. ASSUME ~x.over
        PROVE  /\ x.related \subseteq x.snap \cup Kept(x)
               /\ x.processed \subseteq x.related
               /\ x.queue \cup x.auto \cup x.flushed \subseteq Implied(x.related)
               /\ \A n \in Handled(x) : Step(n, x.related) \subseteq x.related \cup x.queue \cup x.refused
    <3>1. /\ s.related \subseteq s.snap \cup Kept(s)
          /\ s.processed \subseteq s.related
          /\ s.queue \cup s.auto \cup s.flushed \subseteq Implied(s.related)
          /\ \A n \in Handled(s) : Step(n, s.related) \subseteq s.related \cup s.queue \cup s.refused
      BY <1>1, <2>3 DEF Follows
    <3>2. s.related \cup s.queue \cup s.refused \subseteq x.related \cup x.queue \cup x.refused
      BY <1>1
    <3> QED
      BY <1>1, <2>1, <3>1, <3>2
  <2> QED
    BY <1>1, <2>1, <2>2, <2>3 DEF Follows, OneAudit
<1>2. pair \in Pair
  BY DEF Busy
<1>3. LET x == [s EXCEPT !.queue = @ \ {pair}, !.refused = @ \cup {pair}]
      IN  x \in Busy /\ Follows(x) /\ OneAudit(x, exempt)
  <2> DEFINE x == [s EXCEPT !.queue = @ \ {pair}, !.refused = @ \cup {pair}]
  <2>1. /\ x \in Busy
        /\ x.snap = s.snap /\ x.posted = s.posted /\ x.todo = s.todo /\ x.queue = s.queue \ {pair}
        /\ x.processed = s.processed /\ x.related = s.related /\ x.auto = s.auto
        /\ x.flushed = s.flushed /\ x.refused = s.refused \cup {pair} /\ x.over = s.over /\ x.pc = "map"
    BY <1>2 DEF Busy
  <2> HIDE DEF x
  <2>2. Follows(x) /\ OneAudit(x, exempt)
    BY <1>1, <2>1
  <2> QED
    BY <2>1, <2>2 DEF x
<1>4. ASSUME pair \in s.related
      PROVE  LET x == [s EXCEPT !.queue = @ \ {pair}, !.processed = @ \cup {pair}]
             IN  x \in Busy /\ Follows(x) /\ OneAudit(x, exempt)
  <2> DEFINE x == [s EXCEPT !.queue = @ \ {pair}, !.processed = @ \cup {pair}]
  <2>1. /\ x \in Busy
        /\ x.snap = s.snap /\ x.posted = s.posted /\ x.todo = s.todo /\ x.queue = s.queue \ {pair}
        /\ x.processed = s.processed \cup {pair} /\ x.related = s.related /\ x.auto = s.auto
        /\ x.flushed = s.flushed /\ x.refused = s.refused /\ x.over = s.over /\ x.pc = "map"
    BY <1>2 DEF Busy
  <2> HIDE DEF x
  <2>2. Follows(x) /\ OneAudit(x, exempt)
    BY <1>1, <1>4, <2>1
  <2> QED
    BY <2>1, <2>2 DEF x
<1> QED
  BY <1>3, <1>4

LEMMA AutomapKeeps ==
  ASSUME NEW s \in Busy, Follows(s), NEW exempt, OneAudit(s, exempt),
         s.pc = "map", NEW pair \in s.queue, ~SecondAudit(s, pair)
  PROVE  LET popped == [s EXCEPT !.queue = @ \ {pair}, !.processed = @ \cup {pair},
                                 !.auto = @ \cup {pair}, !.related = @ \cup {pair}]
             x == [popped EXCEPT !.queue = Enqueued(popped, pair, popped.related)]
         IN  x \in Busy /\ Follows(x) /\ OneAudit(x, exempt)
<1> DEFINE popped == [s EXCEPT !.queue = @ \ {pair}, !.processed = @ \cup {pair},
                               !.auto = @ \cup {pair}, !.related = @ \cup {pair}]
           queue == Enqueued(popped, pair, popped.related)
           x == [popped EXCEPT !.queue = queue]
           related == s.related \cup {pair}
           step == Step(pair, related)
<1>0. /\ s.related \in SUBSET Pair /\ s.queue \in SUBSET Pair /\ pair \in Pair
      /\ s.processed \in SUBSET Pair /\ s.auto \in SUBSET Pair
  BY DEF Busy
<1>1. s.todo \subseteq s.posted /\ s.snap \cup Kept(s) \subseteq s.related
  BY DEF Follows
<1>2. /\ popped \in Busy
      /\ popped.snap = s.snap /\ popped.posted = s.posted /\ popped.todo = s.todo
      /\ popped.queue = s.queue \ {pair} /\ popped.processed = s.processed \cup {pair}
      /\ popped.related = related /\ popped.auto = s.auto \cup {pair}
      /\ popped.flushed = s.flushed /\ popped.refused = s.refused /\ popped.over = s.over
      /\ popped.pc = "map"
  BY <1>0 DEF Busy
<1> HIDE DEF popped
<1>3. queue = (s.queue \ {pair}) \cup (step \ (s.processed \cup {pair}))
  BY <1>2 DEF Enqueued
<1>4. related \in SUBSET Pair /\ pair \in related /\ s.related \subseteq related
  BY <1>0
<1>5. step \subseteq Pair /\ step \subseteq Implied(related) /\ Implied(s.related) \subseteq Implied(related)
  BY <1>0, <1>4, StepType, StepImplied, ImpliedGrows
<1>6. \A p : p \in step <=> \E n \in related : Triangle(pair, n, p)
  BY <1>0, <1>4, StepIs
<1> HIDE DEF step
<1>7. queue \in SUBSET Pair
  BY <1>0, <1>3, <1>5
<1> HIDE DEF queue
<1>8. /\ x \in Busy
      /\ x.snap = s.snap /\ x.posted = s.posted /\ x.todo = s.todo /\ x.queue = queue
      /\ x.processed = s.processed \cup {pair} /\ x.related = related
      /\ x.auto = s.auto \cup {pair} /\ x.flushed = s.flushed /\ x.refused = s.refused
      /\ x.over = s.over /\ x.pc = "map"
  BY <1>2, <1>7 DEF Busy
<1> HIDE DEF x
<1>9. Kept(x) = Kept(s) \cup {pair} /\ Handled(x) = Handled(s) \cup {pair}
  BY <1>8 DEF Kept, Handled
<1>10. Follows(x)
  <2>1. x.snap \cup Kept(x) \subseteq x.related /\ x.todo \subseteq x.posted
    BY <1>1, <1>8, <1>9
  <2>2. ASSUME ~x.over
        PROVE  /\ x.related \subseteq x.snap \cup Kept(x)
               /\ x.processed \subseteq x.related
               /\ x.queue \cup x.auto \cup x.flushed \subseteq Implied(x.related)
               /\ \A n \in Handled(x) : Step(n, x.related) \subseteq x.related \cup x.queue \cup x.refused
    <3>1. /\ s.related \subseteq s.snap \cup Kept(s)
          /\ s.processed \subseteq s.related
          /\ s.queue \cup s.auto \cup s.flushed \subseteq Implied(s.related)
          /\ \A n \in Handled(s) : Step(n, s.related) \subseteq s.related \cup s.queue \cup s.refused
      BY <1>8, <2>2 DEF Follows
    <3>2. step \subseteq related \cup queue
      BY <1>3, <3>1
    <3>3. ASSUME NEW n \in Handled(s)
          PROVE  Step(n, related) \subseteq related \cup queue \cup s.refused
      <4>0. n \in s.related
        BY <1>1 DEF Handled, Kept
      <4>1. SUFFICES ASSUME NEW p, NEW q \in related, Triangle(n, q, p)
                     PROVE  p \in related \cup queue \cup s.refused
        BY <1>0, <1>4, <4>0, StepIs
      <4>2. CASE q = pair
        <5>1. p \in step
          BY <1>4, <1>6, <4>0, <4>1, <4>2, TriangleSymmetric
        <5> QED
          BY <3>2, <5>1
      <4>3. CASE q \in s.related
        <5>1. p \in Step(n, s.related)
          BY <1>0, <4>0, <4>1, <4>3, StepIs
        <5> QED
          BY <1>3, <3>1, <5>1
      <4> QED
        BY <4>2, <4>3
    <3>4. \A n \in Handled(x) : Step(n, x.related) \subseteq x.related \cup x.queue \cup x.refused
      BY <1>8, <1>9, <3>2, <3>3 DEF step
    <3>5. x.queue \cup x.auto \cup x.flushed \subseteq Implied(x.related)
      BY <1>3, <1>5, <1>8, <3>1
    <3>6. x.related \subseteq x.snap \cup Kept(x) /\ x.processed \subseteq x.related
      BY <1>8, <1>9, <3>1
    <3> QED
      BY <3>4, <3>5, <3>6
  <2>3. x.pc # "next"
    BY <1>8
  <2> QED
    BY <2>1, <2>2, <2>3 DEF Follows
<1>11. OneAudit(x, exempt)
  <2> SUFFICES ASSUME NEW i \in Issues \ exempt, NewAudits(i, Kept(x)) # {},
                      NEW a \in NewAudits(i, related), NEW b \in NewAudits(i, related)
               PROVE  a = b
    BY <1>8 DEF OneAudit
  <2>1. CASE \E c \in Audits : {i, c} = pair
    <3>1. IsAuditIssue(pair) /\ i \in pair
      BY <2>1 DEF IsAuditIssue
    <3>2. Neighbours(i, s.related) \cap Audits = {}
      BY <3>1 DEF SecondAudit
    <3>3. ASSUME NEW c \in NewAudits(i, related)
          PROVE  {i, c} = pair
      <4>1. c \in Audits /\ {i, c} \in related
        BY NewAuditsIs
      <4>2. {i, c} \notin s.related
        BY <3>2, <4>1, NewAuditsIs DEF NewAudits
      <4> QED
        BY <4>1, <4>2
    <3>4. {i, a} = pair /\ {i, b} = pair
      BY <3>3
    <3>5. pair \in Pair
      BY <1>0
    <3> QED
      BY <3>4, <3>5, PairEnds
  <2>2. CASE ~\E c \in Audits : {i, c} = pair
    <3>1. /\ NewAudits(i, s.related \cup {pair}) = NewAudits(i, s.related)
          /\ NewAudits(i, Kept(s) \cup {pair}) = NewAudits(i, Kept(s))
      BY <2>2, OtherPairs
    <3>2. NewAudits(i, related) = NewAudits(i, s.related) /\ NewAudits(i, Kept(x)) = NewAudits(i, Kept(s))
      BY <1>9, <3>1
    <3> QED
      BY <3>2 DEF OneAudit
  <2> QED
    BY <2>1, <2>2
<1> QED
  BY <1>8, <1>10, <1>11 DEF x, queue, popped

LEMMA FlushKeeps ==
  ASSUME NEW s \in Busy, Follows(s), NEW exempt, OneAudit(s, exempt),
         s.pc = "map", s.queue = {} \/ OverLimit(s)
  PROVE  LET x == [s EXCEPT !.pc = "next", !.auto = {},
                            !.flushed = IF OverLimit(s) THEN @ ELSE @ \cup s.auto,
                            !.over = @ \/ OverLimit(s)]
         IN  x \in Busy /\ Follows(x) /\ OneAudit(x, exempt)
<1> DEFINE over == OverLimit(s)
           x == [s EXCEPT !.pc = "next", !.auto = {},
                          !.flushed = IF over THEN @ ELSE @ \cup s.auto,
                          !.over = @ \/ over]
<1>0. over \in BOOLEAN
  BY DEF OverLimit
<1>1. /\ s.auto \in SUBSET Pair /\ s.flushed \in SUBSET Pair /\ s.over \in BOOLEAN
  BY DEF Busy
<1>2. s.queue = {} \/ over
  OBVIOUS
<1> HIDE DEF over
<1>3. /\ x \in Busy
      /\ x.snap = s.snap /\ x.posted = s.posted /\ x.todo = s.todo /\ x.queue = s.queue
      /\ x.processed = s.processed /\ x.related = s.related /\ x.auto = {}
      /\ x.refused = s.refused /\ x.pc = "next"
      /\ x.flushed = IF over THEN s.flushed ELSE s.flushed \cup s.auto
      /\ x.over = (s.over \/ over)
  BY <1>0, <1>1 DEF Busy
<1> HIDE DEF x
<1>4. Kept(x) \subseteq Kept(s)
  BY <1>3 DEF Kept
<1>5. ~x.over => Kept(x) = Kept(s) /\ Handled(x) = Handled(s)
  BY <1>3 DEF Kept, Handled
<1>6. Follows(x)
  <2>1. x.snap \cup Kept(x) \subseteq x.related /\ x.todo \subseteq x.posted
    BY <1>3, <1>4 DEF Follows
  <2>2. ASSUME ~x.over
        PROVE  /\ x.related \subseteq x.snap \cup Kept(x)
               /\ x.processed \subseteq x.related
               /\ x.queue = {} /\ x.auto = {}
               /\ x.queue \cup x.auto \cup x.flushed \subseteq Implied(x.related)
               /\ \A n \in Handled(x) : Step(n, x.related) \subseteq x.related \cup x.queue \cup x.refused
    <3>1. ~s.over /\ ~over
      BY <1>3, <2>2
    <3>2. /\ s.related \subseteq s.snap \cup Kept(s)
          /\ s.processed \subseteq s.related
          /\ s.queue \cup s.auto \cup s.flushed \subseteq Implied(s.related)
          /\ \A n \in Handled(s) : Step(n, s.related) \subseteq s.related \cup s.queue \cup s.refused
      BY <3>1 DEF Follows
    <3> QED
      BY <1>2, <1>3, <1>5, <2>2, <3>1, <3>2
  <2> QED
    BY <2>1, <2>2 DEF Follows
<1>7. OneAudit(x, exempt)
  <2>1. \A i : NewAudits(i, Kept(x)) \subseteq NewAudits(i, Kept(s))
    BY <1>4, NewAuditsIs
  <2> QED
    BY <1>3, <2>1 DEF OneAudit
<1> QED
  BY <1>3, <1>6, <1>7 DEF x, over

----------------------------------------------------------------------------
(* The steps of one request, up to its commit *)

Sessions == \A w \in Workers : SessionOK(session[w])

\* A step that only moves a request on: the table stays as it is.
Moves(w) ==
  /\ \E x \in Busy \cup {Idle} : session' = [session EXCEPT ![w] = x] /\ SessionOK(x)
  /\ requests' \in Nat
  /\ UNCHANGED <<table, removals, history>>

LEMMA PostMoves ==
  ASSUME TypeOK, AuditIsMapped, NEW w \in Workers, NEW pairs \in Posted, NEW locked \in Denied,
         Post(w, pairs, locked)
  PROVE  Moves(w)
<1> DEFINE x == [pc |-> "next", snap |-> relationships, posted |-> pairs, todo |-> pairs,
                 queue |-> {}, processed |-> {}, related |-> relationships \cup pairs,
                 auto |-> {}, flushed |-> {}, locked |-> locked, refused |-> {}, over |-> FALSE]
<1>1. relationships \in SUBSET Pair /\ pairs \in SUBSET Pair /\ locked \in SUBSET Objects
  BY AutomapperAssumption DEF TypeOK
<1>2. x \in Busy
  BY <1>1 DEF Busy
<1>3. /\ x.snap = relationships /\ x.posted = pairs /\ x.todo = pairs /\ x.queue = {}
      /\ x.processed = {} /\ x.related = relationships \cup pairs /\ x.auto = {} /\ x.flushed = {}
  OBVIOUS
<1>4. session' = [session EXCEPT ![w] = x] /\ requests' = requests + 1 /\ AuditAllowed(pairs)
      /\ UNCHANGED <<table, removals, history>>
  BY DEF Post
<1> HIDE DEF x
<1>5. Kept(x) = pairs /\ Handled(x) = {}
  BY <1>3 DEF Kept, Handled
<1>6. Follows(x)
  BY <1>3, <1>5 DEF Follows
<1>7. OneAudit(x, mixed)
  <2> SUFFICES ASSUME NEW i \in Issues \ mixed, NewAudits(i, pairs) # {},
                      NEW a \in NewAudits(i, relationships \cup pairs),
                      NEW b \in NewAudits(i, relationships \cup pairs)
               PROVE  a = b
    BY <1>3, <1>5 DEF OneAudit
  <2>1. Cardinality(NewAudits(i, pairs)) = 1 /\ auditOf[i] = None
    BY <1>4 DEF AuditAllowed
  <2>2. NewAudits(i, relationships) = {}
    BY <2>1 DEF AuditIsMapped, NewAudits
  <2>3. a \in NewAudits(i, pairs) /\ b \in NewAudits(i, pairs)
    BY <2>2, NewAuditsJoin
  <2>4. IsFiniteSet(NewAudits(i, pairs))
    <3>1. NewAudits(i, pairs) \subseteq Objects
      BY DEF NewAudits, Neighbours
    <3> QED
      BY <3>1, AutomapperAssumption, FS_Subset
  <2>5. \E c : NewAudits(i, pairs) = {c}
    BY <2>1, <2>4, FS_Singleton
  <2> QED
    BY <2>3, <2>5
<1>8. requests' \in Nat
  BY <1>4 DEF TypeOK
<1> QED
  BY <1>2, <1>4, <1>6, <1>7, <1>8 DEF Moves, SessionOK

LEMMA GeneratorMoves ==
  ASSUME TypeOK, Sessions, NEW w \in Workers, session[w] # Idle
  PROVE  /\ \A pair \in session[w].todo : Generate(w, pair) => Moves(w)
         /\ \A pair \in session[w].queue :
              SkipDenied(w, pair) \/ SkipExisting(w, pair) \/ Automap(w, pair)
                \/ RefuseSecondAudit(w, pair) => Moves(w)
         /\ Flush(w) \/ Collide(w) => Moves(w)
<1> DEFINE s == session[w]
<1>1. s \in Busy /\ requests \in Nat
  BY DEF TypeOK
<1>2. Follows(s) /\ OneAudit(s, mixed)
  BY DEF Sessions, SessionOK
<1>3. ASSUME NEW x \in Busy, Follows(x), OneAudit(x, mixed), session' = [session EXCEPT ![w] = x],
             UNCHANGED <<table, counters, history>>
      PROVE  Moves(w)
  BY <1>1, <1>3 DEF Moves, SessionOK, counters
<1>4. ASSUME session' = [session EXCEPT ![w] = Idle], UNCHANGED <<table, counters, history>>
      PROVE  Moves(w)
  BY <1>1, <1>4 DEF Moves, SessionOK, counters
<1>5. ASSUME NEW pair \in s.todo, Generate(w, pair)
      PROVE  Moves(w)
  <2> DEFINE x == [s EXCEPT !.pc = "map", !.todo = @ \ {pair}, !.auto = {},
                            !.queue = Enqueued(s, pair, s.related)]
  <2>1. s.pc = "next" /\ session' = [session EXCEPT ![w] = x] /\ UNCHANGED <<table, counters, history>>
    BY <1>5 DEF Generate
  <2> HIDE DEF s
  <2>2. x \in Busy /\ Follows(x) /\ OneAudit(x, mixed)
    BY <1>1, <1>2, <1>5, <2>1, GenerateKeeps
  <2> HIDE DEF x
  <2> QED
    BY <1>3, <2>1, <2>2
<1>6. ASSUME NEW pair \in s.queue, SkipDenied(w, pair)
      PROVE  Moves(w)
  <2> DEFINE x == [s EXCEPT !.queue = @ \ {pair}, !.refused = @ \cup {pair}]
  <2>1. /\ s.pc = "map" /\ session' = [session EXCEPT ![w] = x]
        /\ UNCHANGED <<table, counters, history>>
    BY <1>1, <1>6 DEF SkipDenied, Popping, TypeOK
  <2> HIDE DEF s
  <2>2. x \in Busy /\ Follows(x) /\ OneAudit(x, mixed)
    BY <1>1, <1>2, <1>6, <2>1, SkipKeeps
  <2> HIDE DEF x
  <2> QED
    BY <1>3, <2>1, <2>2
<1>7. ASSUME NEW pair \in s.queue, SkipExisting(w, pair)
      PROVE  Moves(w)
  <2> DEFINE x == [s EXCEPT !.queue = @ \ {pair}, !.processed = @ \cup {pair}]
  <2>1. /\ s.pc = "map" /\ pair \in s.related /\ session' = [session EXCEPT ![w] = x]
        /\ UNCHANGED <<table, counters, history>>
    BY <1>1, <1>7 DEF SkipExisting, Popping, TypeOK
  <2> HIDE DEF s
  <2>2. x \in Busy /\ Follows(x) /\ OneAudit(x, mixed)
    BY <1>1, <1>2, <1>7, <2>1, SkipKeeps
  <2> HIDE DEF x
  <2> QED
    BY <1>3, <2>1, <2>2
<1>8. ASSUME NEW pair \in s.queue, Automap(w, pair)
      PROVE  Moves(w)
  <2> DEFINE popped == [s EXCEPT !.queue = @ \ {pair}, !.processed = @ \cup {pair},
                                 !.auto = @ \cup {pair}, !.related = @ \cup {pair}]
             x == [popped EXCEPT !.queue = Enqueued(popped, pair, popped.related)]
  <2>1. /\ s.pc = "map" /\ ~SecondAudit(s, pair) /\ session' = [session EXCEPT ![w] = x]
        /\ UNCHANGED <<table, counters, history>>
    BY <1>8 DEF Automap, Popping
  <2> HIDE DEF s
  <2>2. x \in Busy /\ Follows(x) /\ OneAudit(x, mixed)
    BY <1>1, <1>2, <1>8, <2>1, AutomapKeeps
  <2> HIDE DEF x
  <2> QED
    BY <1>3, <2>1, <2>2
<1>9. ASSUME NEW pair \in s.queue, RefuseSecondAudit(w, pair)
      PROVE  Moves(w)
  BY <1>4, <1>9 DEF RefuseSecondAudit
<1>10. ASSUME Flush(w)
       PROVE  Moves(w)
  <2> DEFINE x == [s EXCEPT !.pc = "next", !.auto = {},
                            !.flushed = IF OverLimit(s) THEN @ ELSE @ \cup s.auto,
                            !.over = @ \/ OverLimit(s)]
  <2>1. /\ s.pc = "map" /\ (s.queue = {} \/ OverLimit(s)) /\ session' = [session EXCEPT ![w] = x]
        /\ UNCHANGED <<table, counters, history>>
    BY <1>10 DEF Flush
  <2> HIDE DEF s
  <2>2. x \in Busy /\ Follows(x) /\ OneAudit(x, mixed)
    BY <1>1, <1>2, <2>1, FlushKeeps
  <2> HIDE DEF x
  <2> QED
    BY <1>3, <2>1, <2>2
<1>11. ASSUME Collide(w)
       PROVE  Moves(w)
  BY <1>4, <1>11 DEF Collide
<1> QED
  BY <1>5, <1>6, <1>7, <1>8, <1>9, <1>10, <1>11

----------------------------------------------------------------------------
(* The commit *)

\* What a request inserts, and what was inserted while it ran.
Added(s) == (s.posted \cup s.flushed) \ relationships
Unseen(s) == relationships \ s.snap

\* A request that has come to its commit, or has gone over the limit before, made
\* what its relationships imply with those it saw.
LEMMA DoneIsClosed ==
  ASSUME NEW s \in Busy, Follows(s), s.pc = "next", s.todo = {}, ~s.over
  PROVE  /\ s.related = s.snap \cup s.posted \cup s.flushed
         /\ s.flushed \subseteq Implied(s.related)
         /\ \A n \in s.posted \cup s.flushed, q \in s.related :
              \A p : Triangle(q, n, p) => p \in s.related \cup s.refused
<1>1. /\ s.snap \cup Kept(s) \subseteq s.related
      /\ s.related \subseteq s.snap \cup Kept(s)
      /\ s.queue = {} /\ s.auto = {}
      /\ s.queue \cup s.auto \cup s.flushed \subseteq Implied(s.related)
      /\ \A n \in Handled(s) : Step(n, s.related) \subseteq s.related \cup s.queue \cup s.refused
  BY DEF Follows
<1>2. Handled(s) = s.posted \cup s.flushed /\ Kept(s) = s.posted \cup s.flushed
  BY <1>1 DEF Handled, Kept
<1>3. s.related \in SUBSET Pair /\ s.posted \in SUBSET Pair /\ s.flushed \in SUBSET Pair
  BY DEF Busy
<1>4. ASSUME NEW n \in s.posted \cup s.flushed, NEW q \in s.related, NEW p, Triangle(q, n, p)
      PROVE  p \in s.related \cup s.refused
  <2>1. Triangle(n, q, p)
    BY <1>4, TriangleSymmetric
  <2>2. p \in Step(n, s.related)
    BY <1>3, <2>1, StepIs
  <2> QED
    BY <1>1, <1>2, <2>2
<1> QED
  BY <1>1, <1>2, <1>4

\* The commit in terms of the names above.
LEMMA CommitIs ==
  ASSUME TypeOK, NEW w \in Workers, Commit(w)
  PROVE  LET s == session[w]
             missed == {p \in Implied(relationships') : s.over \/ p \in s.refused \/ p \in s.snap
                           \/ \E m \in Objects, q \in Unseen(s), n \in Added(s) :
                                m \in q \cap n /\ p = (q \cup n) \ {m}}
         IN  /\ s \in Busy /\ s.pc = "next" /\ s.todo = {}
             /\ relationships' = relationships \cup Added(s)
             /\ automapped' = automapped \cup (Added(s) \cap s.flushed)
             /\ auditOf' = [i \in Issues |->
                  IF NewAudits(i, Added(s)) = {} THEN auditOf[i]
                  ELSE CHOOSE a \in NewAudits(i, Added(s)) : TRUE]
             /\ excused' = (excused \cup missed) \cap (Implied(relationships') \ relationships')
             /\ mixed' = mixed \cup
                  {i \in Issues : NewAudits(i, Added(s)) # {} /\ NewAudits(i, Unseen(s)) # {}}
             /\ session' = [session EXCEPT ![w] = Idle]
             /\ UNCHANGED counters
<1>1. session[w] \in Busy \cup {Idle}
  BY DEF TypeOK
<1>2. session[w].pc = "next"
  BY DEF Commit
<1>3. session[w] \in Busy
  BY <1>1, <1>2 DEF Idle
<1> QED
  BY <1>3 DEF Commit, Added, Unseen, NewAudits

\* What a commit leaves the rules ask for is there, or excused.
LEMMA CommitCloses ==
  ASSUME TypeOK, Sessions, Closed, NEW w \in Workers, Commit(w)
  PROVE  Closed'
<1> DEFINE s == session[w]
<1>1. /\ s \in Busy /\ s.pc = "next" /\ s.todo = {}
      /\ relationships' = relationships \cup Added(s)
  BY CommitIs
<1>2. Follows(s)
  BY <1>1 DEF Sessions, SessionOK, Busy, Idle
<1>3. relationships \in SUBSET Pair /\ relationships' \in SUBSET Pair
      /\ s.posted \in SUBSET Pair /\ s.flushed \in SUBSET Pair /\ s.related \in SUBSET Pair
  BY <1>1 DEF TypeOK, Busy, Added
<1> SUFFICES ASSUME NEW p \in Implied(relationships'), p \notin relationships'
             PROVE  p \in excused'
  BY DEF Closed
<1>4. SUFFICES ASSUME p \notin excused
               PROVE  s.over \/ p \in s.refused \/ p \in s.snap
                        \/ \E m \in Objects, q \in Unseen(s), n \in Added(s) :
                             m \in q \cap n /\ p = (q \cup n) \ {m}
  BY CommitIs
<1>5. PICK q, n \in relationships' : Triangle(q, n, p)
  BY <1>3, ImpliedIs
<1> HIDE DEF s
<1>6. CASE q \in relationships /\ n \in relationships
  <2>1. p \in Implied(relationships)
    BY <1>3, <1>5, <1>6, ImpliedIs
  <2> QED
    BY <1>1, <1>4, <2>1 DEF Closed
<1>7. ASSUME NEW x \in Added(s), NEW y \in relationships', Triangle(y, x, p)
      PROVE  s.over \/ p \in s.refused \/ p \in s.snap
               \/ \E m \in Objects, z \in Unseen(s), k \in Added(s) :
                    m \in z \cap k /\ p = (z \cup k) \ {m}
  <2>1. CASE y \in Unseen(s)
    <3>1. PICK a, b, m \in Objects : /\ a # b /\ y = {a, m} /\ x = {b, m} /\ p = {a, b}
                                     /\ Mapping(a, m, b)
      BY <1>7 DEF Triangle
    <3>2. a # m /\ b # m
      <4>1. y \in Pair /\ x \in Pair
        BY <1>1, <1>3
      <4> QED
        BY <3>1, <4>1, PairEnds
    <3>3. m \in y \cap x /\ p = (y \cup x) \ {m}
      BY <3>1, <3>2
    <3> QED
      BY <2>1, <3>3
  <2>2. CASE y \notin Unseen(s) /\ ~s.over
    <3>1. y \in s.snap \cup s.posted \cup s.flushed /\ x \in s.posted \cup s.flushed
      BY <1>1, <2>2 DEF Added, Unseen
    <3>2. /\ s.related = s.snap \cup s.posted \cup s.flushed
          /\ p \in s.related \cup s.refused
      BY <1>1, <1>2, <1>7, <2>2, <3>1, DoneIsClosed
    <3>3. p \in s.snap \/ p \in s.refused \/ p \in relationships'
      BY <1>1, <3>2 DEF Added
    <3> QED
      BY <3>3
  <2> QED
    BY <2>1, <2>2
<1>8. CASE n \in Added(s)
  BY <1>5, <1>7, <1>8
<1>9. CASE q \in Added(s)
  BY <1>5, <1>7, <1>9, TriangleSymmetric
<1> QED
  BY <1>1, <1>6, <1>8, <1>9 DEF s

\* A commit gives an issue the audit it maps it to, unless another request did.
LEMMA CommitMapsAudits ==
  ASSUME TypeOK, Sessions, AuditIsMapped, NEW w \in Workers, Commit(w)
  PROVE  AuditIsMapped'
<1> DEFINE s == session[w]
<1>1. /\ s \in Busy
      /\ relationships' = relationships \cup Added(s)
      /\ auditOf' = [i \in Issues |->
           IF NewAudits(i, Added(s)) = {} THEN auditOf[i]
           ELSE CHOOSE a \in NewAudits(i, Added(s)) : TRUE]
      /\ mixed' = mixed \cup
           {i \in Issues : NewAudits(i, Added(s)) # {} /\ NewAudits(i, Unseen(s)) # {}}
  BY CommitIs
<1>2. Follows(s) /\ OneAudit(s, mixed)
  BY <1>1 DEF Sessions, SessionOK, Busy, Idle
<1> HIDE DEF s
<1> SUFFICES ASSUME NEW i \in Issues, i \notin mixed'
             PROVE  NewAudits(i, relationships') = {auditOf'[i]} \ {None}
  BY DEF AuditIsMapped, NewAudits
<1>3. i \notin mixed /\ (NewAudits(i, Added(s)) # {} => NewAudits(i, Unseen(s)) = {})
  BY <1>1
<1>4. NewAudits(i, relationships) = {auditOf[i]} \ {None}
  BY <1>3 DEF AuditIsMapped, NewAudits
<1>5. NewAudits(i, relationships') = NewAudits(i, relationships) \cup NewAudits(i, Added(s))
  BY <1>1, NewAuditsJoin
<1>6. CASE NewAudits(i, Added(s)) = {}
  BY <1>1, <1>4, <1>5, <1>6
<1>7. CASE NewAudits(i, Added(s)) # {}
  <2>1. PICK a : a \in NewAudits(i, Added(s))
    BY <1>7
  <2>2. Added(s) \subseteq Kept(s) /\ s.snap \cup Kept(s) \subseteq s.related
    BY <1>2 DEF Added, Kept, Follows
  <2>3. a \in NewAudits(i, Kept(s))
    BY <2>1, <2>2, NewAuditsIs
  <2>4. \A b, c \in NewAudits(i, s.related) : b = c
    BY <1>2, <1>3, <2>3 DEF OneAudit
  <2>5. NewAudits(i, Added(s)) \subseteq NewAudits(i, s.related)
    BY <2>2, NewAuditsIs
  <2>6. NewAudits(i, Added(s)) = {a}
    BY <2>1, <2>4, <2>5
  <2>7. NewAudits(i, relationships) = {}
    <3> SUFFICES ASSUME NEW b \in NewAudits(i, relationships)
                 PROVE  FALSE
      OBVIOUS
    <3>1. b \in Audits /\ {i, b} \in relationships
      BY NewAuditsIs
    <3>2. {i, b} \notin Unseen(s)
      BY <1>3, <1>7, <3>1, NewAuditsIs
    <3>3. {i, b} \in s.related
      BY <2>2, <3>1, <3>2 DEF Unseen
    <3>4. b = a
      BY <2>1, <2>4, <2>5, <3>1, <3>3, NewAuditsIs
    <3>5. {i, a} \in Added(s)
      BY <2>1, NewAuditsIs
    <3> QED
      BY <3>1, <3>4, <3>5 DEF Added
  <2>8. auditOf'[i] = a
    BY <1>1, <1>7, <2>6
  <2>9. a # None
    <3>1. None \notin Audits
      BY AutomapperAssumption
    <3> QED
      BY <2>1, <3>1, NewAuditsIs
  <2> QED
    BY <1>5, <2>6, <2>7, <2>8, <2>9
<1> QED
  BY <1>6, <1>7

\* A commit does not disturb the requests that go on.
LEMMA CommitKeeps ==
  ASSUME TypeOK, Sessions, NEW w \in Workers, Commit(w)
  PROVE  TypeOK' /\ Sessions'
<1> DEFINE s == session[w]
<1>1. /\ s \in Busy
      /\ relationships' = relationships \cup Added(s)
      /\ automapped' = automapped \cup (Added(s) \cap s.flushed)
      /\ auditOf' = [i \in Issues |->
           IF NewAudits(i, Added(s)) = {} THEN auditOf[i]
           ELSE CHOOSE a \in NewAudits(i, Added(s)) : TRUE]
      /\ mixed' = mixed \cup
           {i \in Issues : NewAudits(i, Added(s)) # {} /\ NewAudits(i, Unseen(s)) # {}}
      /\ session' = [session EXCEPT ![w] = Idle]
      /\ UNCHANGED counters
  BY CommitIs
<1>2. excused' \subseteq Implied(relationships')
  BY CommitIs
<1> HIDE DEF s
<1>3. relationships' \in SUBSET Pair
  BY <1>1 DEF TypeOK, Busy, Added
<1>4. excused' \subseteq Pair
  BY <1>2, <1>3, ImpliedType
<1>5. automapped' \subseteq relationships'
  BY <1>1 DEF TypeOK
<1>6. auditOf' \in [Issues -> Audits \cup {None}]
  <2>1. \A i : NewAudits(i, Added(s)) # {} =>
          (CHOOSE a \in NewAudits(i, Added(s)) : TRUE) \in Audits
    BY NewAuditsIs
  <2> QED
    BY <1>1, <2>1 DEF TypeOK
<1>7. session' \in [Workers -> Busy \cup {Idle}]
  BY <1>1 DEF TypeOK
<1>8. mixed \subseteq mixed' /\ mixed' \subseteq Issues
  BY <1>1 DEF TypeOK
<1>9. TypeOK'
  BY <1>1, <1>3, <1>4, <1>5, <1>6, <1>7, <1>8 DEF TypeOK, counters
<1>10. Sessions'
  <2> SUFFICES ASSUME NEW v \in Workers, session'[v] # Idle
               PROVE  Follows(session'[v]) /\ OneAudit(session'[v], mixed')
    BY DEF Sessions, SessionOK
  <2>1. session'[v] = session[v]
    BY <1>1 DEF TypeOK
  <2>2. Follows(session[v]) /\ OneAudit(session[v], mixed)
    BY <2>1 DEF Sessions, SessionOK
  <2> QED
    BY <1>8, <2>1, <2>2 DEF OneAudit
<1> QED
  BY <1>9, <1>10

----------------------------------------------------------------------------
(* The deletions *)

\* An issue and a snapshot or an audit are mapped by rule through an assessment.
LEMMA ImpliedByAssessment ==
  ASSUME NEW P \in SUBSET Pair, NEW issue \in Issues, NEW x \in Objects,
         Type[x] \in {"Snapshot", "Audit"}, {x, issue} \in Implied(P)
  PROVE  \E m \in OfType("Assessment") : {issue, m} \in P /\ {m, x} \in P
<1>1. PICK q, n \in P : Triangle(q, n, {x, issue})
  BY ImpliedIs
<1>2. PICK a, b, m \in Objects : /\ a # b /\ q = {a, m} /\ n = {b, m} /\ {x, issue} = {a, b}
                                 /\ Mapping(a, m, b)
  BY <1>1 DEF Triangle
<1>3. Type[issue] = "Issue"
  BY DEF Issues, OfType
<1>4. (a = x /\ b = issue) \/ (a = issue /\ b = x)
  BY <1>2
<1>5. Mapping(issue, m, x)
  BY <1>2, <1>4, MappingSymmetric
<1>6. <<"Issue", Type[m], Type[x]>> \in Rules \/ <<Type[x], Type[m], "Issue">> \in Rules
  BY <1>3, <1>5 DEF Mapping
<1>7. Type[m] = "Assessment"
  <2>1. CASE <<"Issue", Type[m], Type[x]>> \in Rules
    BY <2>1, IssueRuleAssumption
  <2>2. CASE <<Type[x], Type[m], "Issue">> \in Rules
    BY <2>2, IssueRuleAssumption
  <2> QED
    BY <1>6, <2>1, <2>2
<1>8. {issue, m} \in P /\ {m, x} \in P
  <2>1. {a, m} \in P /\ {b, m} \in P /\ {m, x} = {x, m}
    BY <1>2
  <2> QED
    BY <1>4, <2>1
<1> QED
  BY <1>7, <1>8 DEF OfType

\* unmap_issue_cascade deletes no relationship that the rest still implies.
LEMMA CascadeIsLoose ==
  ASSUME TypeOK, NEW asmnt \in OfType("Assessment"), NEW issue \in Issues,
         OtherAssessments(asmnt, issue) = {} => auditOf[issue] # None,
         NEW p \in Cascade(asmnt, issue),
         NEW rest, rest = relationships \ ({{asmnt, issue}} \cup Cascade(asmnt, issue))
  PROVE  p \notin Implied(rest)
<1> DEFINE others == OtherAssessments(asmnt, issue)
           snapshots(as) == {s \in OfType("Snapshot") : \E x \in as : {x, s} \in relationships}
           loose == snapshots({asmnt}) \ snapshots(others)
<1>1. rest \in SUBSET Pair /\ rest \subseteq relationships /\ {asmnt, issue} \notin rest
  BY DEF TypeOK
<1>2. p \in {{s, issue} : s \in loose} \cup IF others = {} THEN {{auditOf[issue], issue}} ELSE {}
  BY DEF Cascade
<1>3. ASSUME NEW x \in Objects, Type[x] \in {"Snapshot", "Audit"}, {x, issue} \in Implied(rest)
      PROVE  \E m \in others : {m, x} \in relationships
  <2>1. PICK m \in OfType("Assessment") : {issue, m} \in rest /\ {m, x} \in rest
    BY <1>1, <1>3, ImpliedByAssessment
  <2>2. m # asmnt
    <3>1. {issue, asmnt} = {asmnt, issue}
      OBVIOUS
    <3> QED
      BY <1>1, <2>1, <3>1
  <2>3. m \in Neighbours(issue, relationships)
    BY <1>1, <2>1 DEF Neighbours, OfType
  <2> QED
    BY <1>1, <2>1, <2>2, <2>3 DEF OtherAssessments
<1>4. ASSUME NEW s \in loose, p = {s, issue}, p \in Implied(rest)
      PROVE  FALSE
  <2>1. s \in Objects /\ Type[s] = "Snapshot" /\ s \notin snapshots(others)
    BY DEF OfType
  <2>2. \E m \in others : {m, s} \in relationships
    BY <1>3, <1>4, <2>1
  <2> QED
    BY <2>1, <2>2 DEF OfType
<1>5. ASSUME others = {}, p = {auditOf[issue], issue}, p \in Implied(rest)
      PROVE  FALSE
  <2>1. auditOf[issue] \in Objects /\ Type[auditOf[issue]] = "Audit"
    BY <1>5 DEF TypeOK, Audits, OfType
  <2>2. \E m \in others : {m, auditOf[issue]} \in relationships
    <3> HIDE DEF others
    <3> QED
      BY <1>3, <1>5, <2>1
  <2> QED
    BY <1>5, <2>2
<1> HIDE DEF others, loose
<1> QED
  BY <1>2, <1>4, <1>5

LEMMA DeleteKeeps ==
  ASSUME TypeOK, Sessions, AuditIsMapped, Closed, NEW pair, NEW cascade,
         cascade \subseteq relationships, Delete(pair, cascade),
         \A p \in cascade : p \notin Implied(relationships \ ({pair} \cup cascade))
  PROVE  TypeOK' /\ Sessions' /\ AuditIsMapped' /\ Closed'
<1> DEFINE deleted == {pair} \cup cascade
           freed == Freed(pair, cascade)
<1>1. /\ pair \in relationships
      /\ removals' = removals + 1
      /\ relationships' = relationships \ deleted
      /\ automapped' = automapped \ deleted
      /\ auditOf' = [i \in Issues |-> IF i \in freed THEN None ELSE auditOf[i]]
      /\ excused' = (excused \cup {pair}) \cap (Implied(relationships') \ relationships')
      /\ session' = session /\ requests' = requests /\ mixed' = mixed
  BY DEF Delete
<1>2. deleted \subseteq relationships
  BY <1>1
<1>3. \A i \in Issues : i \in freed <=> \E a \in Audits : {i, a} \in deleted
  <2>1. \A i, a : {a, i} = {i, a}
    OBVIOUS
  <2> QED
    BY <2>1 DEF Freed
<1>4. \A p \in cascade : p \notin Implied(relationships')
  BY <1>1
<1> HIDE DEF deleted, freed
<1>5. relationships \in SUBSET Pair /\ relationships' \in SUBSET Pair
      /\ relationships' \subseteq relationships
  BY <1>1 DEF TypeOK
<1>6. TypeOK'
  <2>1. automapped' \subseteq relationships'
    BY <1>1 DEF TypeOK
  <2>2. auditOf' \in [Issues -> Audits \cup {None}]
    BY <1>1 DEF TypeOK
  <2>3. excused' \subseteq Pair
    BY <1>1, <1>5, ImpliedType
  <2> QED
    BY <1>1, <1>5, <2>1, <2>2, <2>3 DEF TypeOK
<1>7. Sessions'
  BY <1>1 DEF Sessions, SessionOK
<1>8. AuditIsMapped'
  <2> SUFFICES ASSUME NEW i \in Issues, i \notin mixed
               PROVE  NewAudits(i, relationships') = {auditOf'[i]} \ {None}
    BY <1>1 DEF AuditIsMapped, NewAudits
  <2>1. NewAudits(i, relationships) = {auditOf[i]} \ {None}
    BY DEF AuditIsMapped, NewAudits
  <2>2. NewAudits(i, relationships') \subseteq NewAudits(i, relationships)
    BY <1>5, NewAuditsIs
  <2>3. CASE i \in freed
    <3>1. PICK a \in Audits : {i, a} \in deleted
      BY <1>3, <2>3
    <3>2. a \in NewAudits(i, relationships)
      BY <1>2, <3>1, NewAuditsIs
    <3>3. a \notin NewAudits(i, relationships')
      <4>1. {i, a} \notin relationships'
        BY <1>1, <3>1
      <4> QED
        BY <4>1, NewAuditsIs
    <3>4. NewAudits(i, relationships') = {}
      BY <2>1, <2>2, <3>2, <3>3
    <3> QED
      BY <1>1, <2>3, <3>4
  <2>4. CASE i \notin freed
    <3>1. NewAudits(i, relationships) \subseteq NewAudits(i, relationships')
      BY <1>1, <1>3, <2>4, NewAuditsIs
    <3> QED
      BY <1>1, <2>1, <2>2, <2>4, <3>1
  <2> QED
    BY <2>3, <2>4
<1>9. Closed'
  <2> SUFFICES ASSUME NEW p \in Implied(relationships'), p \notin relationships'
               PROVE  p \in excused \cup {pair}
    BY <1>1 DEF Closed
  <2>1. p \in Implied(relationships)
    BY <1>5, ImpliedGrows
  <2>2. p \in relationships \cup excused
    BY <2>1 DEF Closed
  <2>3. p \in relationships => p \in {pair} \cup cascade
    BY <1>1 DEF deleted
  <2> QED
    BY <1>4, <2>2, <2>3
<1> QED
  BY <1>6, <1>7, <1>8, <1>9

----------------------------------------------------------------------------
(* The theorems *)

Inv == TypeOK /\ Sessions /\ AuditIsMapped /\ Closed

LEMMA MovesKeep ==
  ASSUME Inv, NEW w \in Workers, Moves(w)
  PROVE  Inv'
<1>1. PICK x \in Busy \cup {Idle} : session' = [session EXCEPT ![w] = x] /\ SessionOK(x)
  BY DEF Moves
<1>2. /\ requests' \in Nat /\ removals' = removals
      /\ relationships' = relationships /\ automapped' = automapped /\ auditOf' = auditOf
      /\ excused' = excused /\ mixed' = mixed
  BY DEF Moves, table, history
<1>3. session \in [Workers -> Busy \cup {Idle}]
  BY DEF Inv, TypeOK
<1>4. session' \in [Workers -> Busy \cup {Idle}]
  BY <1>1, <1>3
<1>5. TypeOK'
  BY <1>2, <1>4 DEF Inv, TypeOK
<1>6. \A v \in Workers : session'[v] = x \/ session'[v] = session[v]
  BY <1>1, <1>3
<1>7. Sessions'
  BY <1>1, <1>2, <1>6 DEF Inv, Sessions, SessionOK
<1>8. AuditIsMapped' /\ Closed'
  BY <1>2 DEF Inv, AuditIsMapped, Closed
<1> QED
  BY <1>5, <1>7, <1>8 DEF Inv

\* Every step of a request, every commit and every deletion, in any interleaving.
LEMMA InvStep ==
  ASSUME Inv, [Next]_vars
  PROVE  Inv'
<1>1. ASSUME NEW w \in Workers, NEW pairs \in Posted, NEW locked \in Denied, Post(w, pairs, locked)
      PROVE  Inv'
  BY <1>1, PostMoves, MovesKeep DEF Inv
<1>2. ASSUME NEW w \in Workers, session[w] # Idle,
             \/ \E pair \in session[w].todo : Generate(w, pair)
             \/ \E pair \in session[w].queue :
                  SkipDenied(w, pair) \/ SkipExisting(w, pair)
                    \/ Automap(w, pair) \/ RefuseSecondAudit(w, pair)
             \/ Flush(w) \/ Collide(w)
      PROVE  Inv'
  <2>1. Moves(w)
    BY <1>2, GeneratorMoves DEF Inv
  <2> QED
    BY <2>1, MovesKeep
<1>3. ASSUME NEW w \in Workers, Commit(w)
      PROVE  Inv'
  BY <1>3, CommitKeeps, CommitMapsAudits, CommitCloses DEF Inv
<1>4. ASSUME NEW pair \in relationships, Unmap(pair)
      PROVE  Inv'
  <2>1. Delete(pair, {})
    BY <1>4 DEF Unmap
  <2> DEFINE cascade == {}
  <2>2. /\ Delete(pair, cascade) /\ cascade \subseteq relationships
        /\ \A p \in cascade : p \notin Implied(relationships \ ({pair} \cup cascade))
    BY <2>1
  <2> HIDE DEF cascade
  <2> QED
    BY <2>2, DeleteKeeps DEF Inv
<1>5. ASSUME NEW asmnt \in OfType("Assessment"), NEW issue \in Issues, UnmapCascade(asmnt, issue)
      PROVE  Inv'
  <2> DEFINE cascade == Cascade(asmnt, issue)
  <2>1. /\ Delete({asmnt, issue}, cascade)
        /\ OtherAssessments(asmnt, issue) = {} => auditOf[issue] # None
    BY <1>5 DEF UnmapCascade
  <2>2. \A p \in cascade : p \notin Implied(relationships \ ({{asmnt, issue}} \cup cascade))
    BY <2>1, CascadeIsLoose DEF Inv
  <2>3. cascade \subseteq relationships
    BY DEF Inv, TypeOK, Cascade
  <2> HIDE DEF cascade
  <2> QED
    BY <2>1, <2>2, <2>3, DeleteKeeps DEF Inv
<1>6. CASE UNCHANGED vars
  <2>1. /\ relationships' = relationships /\ automapped' = automapped /\ auditOf' = auditOf
        /\ session' = session /\ requests' = requests /\ removals' = removals
        /\ excused' = excused /\ mixed' = mixed
    BY <1>6 DEF vars, table, counters, history
  <2> QED
    BY <2>1 DEF Inv, TypeOK, Sessions, SessionOK, AuditIsMapped, Closed
<1> QED
  BY <1>1, <1>2, <1>3, <1>4, <1>5, <1>6 DEF Next

LEMMA InvHolds == Spec => []Inv
<1>1. Init => Inv
  <2> SUFFICES ASSUME Init PROVE Inv
    OBVIOUS
  <2>1. /\ relationships \in SUBSET Pair
        /\ Implied(relationships) \subseteq relationships
        /\ \A i \in Issues, a \in Audits : {a, i} \notin relationships
    BY AutomapperAssumption DEF Init
  <2>2. TypeOK
    BY <2>1 DEF Init, TypeOK
  <2>3. Sessions
    BY DEF Init, Sessions, SessionOK
  <2>4. AuditIsMapped
    <3> SUFFICES ASSUME NEW i \in Issues
                 PROVE  NewAudits(i, relationships) = {auditOf[i]} \ {None}
      BY DEF AuditIsMapped, NewAudits
    <3>1. \A a \in Audits : {i, a} \notin relationships
      <4>1. \A a : {i, a} = {a, i}
        OBVIOUS
      <4> QED
        BY <2>1, <4>1
    <3>2. NewAudits(i, relationships) = {}
      BY <3>1, NewAuditsIs
    <3> QED
      BY <3>2 DEF Init
  <2> QED
    BY <2>1, <2>2, <2>3, <2>4 DEF Inv, Closed
<1>2. Inv /\ [Next]_vars => Inv'
  BY InvStep
<1> QED
  BY <1>1, <1>2, PTL DEF Spec

\* Every variable of the automapper, and of the requests it runs in, keeps its type.
THEOREM TypeCorrect == Spec => []TypeOK
<1>1. Inv => TypeOK
  BY DEF Inv
<1> QED
  BY <1>1, InvHolds, PTL

\* For any rules and objects, and however many requests overlap: what the rules
\* imply from two relationships of the table is in the table, or it is excused.
\* The early cut of generate_automappings ("it is safe to cut here") loses nothing,
\* and unmap_issue_cascade deletes nothing that is still implied.
THEOREM ClosedCorrect == Spec => []Closed
<1>1. Inv => Closed
  BY DEF Inv
<1> QED
  BY <1>1, InvHolds, PTL

\* The audit of an issue is the one it is mapped to, unless two overlapping
\* requests mapped it: handle_new_audit_issue_mapping, the restriction to a single
\* audit, the cascade and the hooks keep Issue.audit_id and the table in step.
THEOREM AuditIsMappedCorrect == Spec => []AuditIsMapped
<1>1. Inv => AuditIsMapped
  BY DEF Inv
<1> QED
  BY <1>1, InvHolds, PTL

\* The automapper inserts only what a rule implies from relationships that its
\* request saw or made, unless the request went over the limit.
THEOREM AutoIsImpliedCorrect == Spec => AutoIsImplied
<1> DEFINE Justified == \A p \in automapped' \ automapped :
                      \E w \in Workers : session[w] # Idle /\ session'[w] = Idle
                        /\ (session[w].over \/ p \in Implied(session[w].snap \cup relationships'))
<1>1. Inv /\ [Next]_vars => [Justified]_vars
  <2> SUFFICES ASSUME Inv, Next, NEW p \in automapped' \ automapped
               PROVE  \E w \in Workers : session[w] # Idle /\ session'[w] = Idle
                        /\ (session[w].over \/ p \in Implied(session[w].snap \cup relationships'))
    OBVIOUS
  <2>1. ASSUME NEW w \in Workers, Moves(w)
        PROVE  FALSE
    BY <2>1 DEF Moves, table
  <2>2. PICK w \in Workers : Commit(w)
    <3>1. \A pair : ~Unmap(pair)
      BY DEF Unmap, Delete
    <3>2. \A asmnt, issue : ~UnmapCascade(asmnt, issue)
      BY DEF UnmapCascade, Delete
    <3>3. \A w \in Workers, pairs \in Posted, locked \in Denied : ~Post(w, pairs, locked)
      BY <2>1, PostMoves DEF Inv
    <3> QED
      BY <2>1, <3>1, <3>2, <3>3, GeneratorMoves DEF Inv, Next
  <2> DEFINE s == session[w]
  <2>3. /\ s \in Busy /\ s.pc = "next" /\ s.todo = {}
        /\ relationships' = relationships \cup Added(s)
        /\ automapped' = automapped \cup (Added(s) \cap s.flushed)
        /\ session' = [session EXCEPT ![w] = Idle]
    BY <2>2, CommitIs DEF Inv
  <2>4. s # Idle /\ session'[w] = Idle
    BY <2>3 DEF Inv, TypeOK, Busy, Idle
  <2>5. Follows(s)
    BY <2>4 DEF Inv, Sessions, SessionOK
  <2>6. p \in s.flushed
    BY <2>3
  <2>7. ASSUME ~s.over
        PROVE  p \in Implied(s.snap \cup relationships')
    <3> HIDE DEF s
    <3>1. /\ s.related = s.snap \cup s.posted \cup s.flushed
          /\ s.flushed \subseteq Implied(s.related)
      BY <2>3, <2>5, <2>7, DoneIsClosed
    <3>2. s.related \subseteq s.snap \cup relationships'
      BY <2>3, <3>1 DEF Added
    <3>3. s.related \in SUBSET Pair /\ s.snap \cup relationships' \in SUBSET Pair
      BY <2>3 DEF Busy, Inv, TypeOK, Added
    <3> QED
      BY <2>6, <3>1, <3>2, <3>3, ImpliedGrows
  <2> QED
    BY <2>4, <2>7
<1> QED
  BY <1>1, InvHolds, PTL DEF Spec, AutoIsImplied
===============================================================================
