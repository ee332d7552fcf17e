-------------------------- MODULE RequestCachesProofs --------------------------
(* Proofs about RequestCaches: what is cached is current, but for the races on   *)
(* record.  The invariants say more than the properties: a request that still     *)
(* reads an object off the record has read its current version, and one that       *)
(* still computes permissions computes them from current rows.                     *)
EXTENDS RequestCaches, TLAPS

USE CachesAssumption

(* Where a request may be in each round, and of which kind. *)
WellFormed(r) ==
  /\ r.pc \in Reading \cup {"commit", "handlers", "last"} => r.round = "first"
  /\ r.pc = "invalidate" => r.round = "after"
  /\ r.pc \in {"lookup", "fill"} => r.op \in Get
  /\ r.pc \in Writing => r.op \in Writes

Control == \A w \in Workers : WellFormed(request[w])

(* A request may still cache an object, or a user's permissions. *)
Reads(r, o) == r.pc \in Reading /\ r.op.kind = "get" /\ r.op.target = o
Loads(r, u) == r.pc \in Loading /\ r.user = u

-----------------------------------------------------------------------------
(* Records. *)

(* A worker with a request has a record of the request. *)
LEMMA ActiveRecord ==
  ASSUME TypeOK, NEW w \in Workers, request[w].pc # "idle"
  PROVE  request[w] \in Active
BY DEF TypeOK, Idle

(* The fields of such a record. *)
LEMMA ActiveFields ==
  ASSUME NEW r \in Active
  PROVE  /\ r.pc \in Reading \cup Writing /\ r.user \in Users /\ r.op \in Get \cup Writes
         /\ r.seen \in Nat /\ r.grants \in Nat /\ r.copy \in SUBSET Users /\ r.round \in Rounds
         /\ r.op.target \in Objects
BY DEF Active, Get, Write

(* A request that moves on keeps everything else. *)
LEMMA Moved ==
  ASSUME NEW r \in Active, NEW pc \in Reading \cup Writing
  PROVE  /\ [r EXCEPT !.pc = pc] \in Active
         /\ [r EXCEPT !.pc = pc].pc = pc
         /\ [r EXCEPT !.pc = pc].user = r.user /\ [r EXCEPT !.pc = pc].op = r.op
         /\ [r EXCEPT !.pc = pc].seen = r.seen /\ [r EXCEPT !.pc = pc].grants = r.grants
         /\ [r EXCEPT !.pc = pc].copy = r.copy /\ [r EXCEPT !.pc = pc].round = r.round
BY DEF Active

(* What the kinds of requests are. *)
LEMMA Kinds ==
  /\ \A op \in Get : op.kind = "get" /\ op \notin Writes
  /\ \A op \in Writes : /\ op.kind \in {"put", "post", "delete", "patch"}
                        /\ op.changes \in [Rounds -> SUBSET Objects]
BY DEF Get, Write

-----------------------------------------------------------------------------
(* What each step makes of its worker's record. *)
LEMMA StepRecord ==
  ASSUME TypeOK, Control, NEW w \in Workers, NEW n \in Active \cup {Idle}, WellFormed(n),
         request' = [request EXCEPT ![w] = n]
  PROVE  /\ request' \in [Workers -> Active \cup {Idle}]
         /\ Control'
         /\ request'[w] = n
         /\ \A v \in Workers : v # w => request'[v] = request[v]
<1>1. request' \in [Workers -> Active \cup {Idle}] /\ request'[w] = n
      /\ \A v \in Workers : v # w => request'[v] = request[v]
  BY DEF TypeOK
<1>2. Control'
  BY <1>1 DEF Control
<1> QED
  BY <1>1, <1>2

(* Going idle, and going on to a next place, keeps the record well-formed. *)
LEMMA IdleRecord == WellFormed(Idle) /\ Idle \in Active \cup {Idle}
BY DEF WellFormed, Idle, Reading, Loading, Writing

LEMMA NextPlace ==
  ASSUME NEW r \in Active, WellFormed(r), NEW pc \in Reading \cup Writing,
         pc \in Reading \cup {"commit", "handlers", "last"} => r.round = "first",
         pc = "invalidate" => r.round = "after",
         pc \in {"lookup", "fill"} => r.op \in Get,
         pc \in Writing => r.op \in Writes
  PROVE  [r EXCEPT !.pc = pc] \in Active /\ WellFormed([r EXCEPT !.pc = pc])
BY Moved DEF WellFormed

-----------------------------------------------------------------------------
(* What a request still deletes. *)

LEMMA OwedNothing ==
  ASSUME NEW r, r.pc \notin {"drop", "list", "clear", "handlers", "last", "invalidate"}
  PROVE  Owed(r) = {}
BY DEF Owed

LEMMA OwedAtDrop ==
  ASSUME NEW r, r.pc = "drop"
  PROVE  Owed(r) = Keys(r.op, r.round) \cup StillToDrop(r.op, r.round)
BY DEF Owed

LEMMA OwedLater ==
  ASSUME NEW r, r.pc \in {"list", "clear", "handlers", "last", "invalidate"}
  PROVE  Owed(r) = StillToDrop(r.op, r.round)
BY DEF Owed

LEMMA OwedObjects ==
  ASSUME NEW r, r.op \in Writes, r.round \in Rounds
  PROVE  Owed(r) \subseteq Objects
<1>1. r.op.changes \in [Rounds -> SUBSET Objects] /\ r.op.target \in Objects
  BY DEF Write
<1>2. r.op.kind = "post" => r.op.refs \subseteq Objects
  BY DEF Write
<1>3. \A objects : Marks(objects) \subseteq Objects
  BY DEF Marks
<1>4. \A round \in Rounds : Keys(r.op, round) \subseteq Objects
  BY <1>3 DEF Keys
<1>5. StillToDrop(r.op, r.round) \subseteq Objects
  BY <1>1, <1>4 DEF StillToDrop, Rounds
<1> QED
  BY <1>4, <1>5, OwedNothing, OwedAtDrop, OwedLater

-----------------------------------------------------------------------------
(* Types and places, one step for each action. *)

LEMMA TypeStep ==
  ASSUME TypeOK, Control, [Next]_vars
  PROVE  TypeOK' /\ Control'
<1> USE DEF database, history
<1>1. CASE UNCHANGED vars
  BY <1>1 DEF TypeOK, Control, WellFormed, vars
<1>2. ASSUME NEW w \in Workers, NEW u \in Users, NEW op \in Get \cup Writes, Accept(w, u, op)
      PROVE  TypeOK' /\ Control'
  <2> DEFINE n == [pc |-> "permissions", user |-> u, op |-> op, seen |-> version[op.target],
                   grants |-> grants, copy |-> {}, round |-> "first"]
  <2>1. op.target \in Objects
    BY DEF Get, Write
  <2>2. version[op.target] \in Nat /\ grants \in Nat
    BY <2>1 DEF TypeOK
  <2>3. n \in Active
    BY <2>2 DEF Active, Reading, Loading, Rounds
  <2>4. WellFormed(n)
    BY DEF WellFormed, Writing
  <2>5. request' = [request EXCEPT ![w] = n]
    BY <1>2 DEF Accept
  <2> HIDE DEF n
  <2>6. request' \in [Workers -> Active \cup {Idle}] /\ Control'
    BY <2>3, <2>4, <2>5, StepRecord
  <2>7. served' \in Nat /\ UNCHANGED <<database, entry, listed, granted, history>>
    BY <1>2 DEF Accept, TypeOK
  <2> QED
    BY <2>6, <2>7 DEF TypeOK
<1> DEFINE Record(w) == \E n \in Active \cup {Idle} :
                          WellFormed(n) /\ request' = [request EXCEPT ![w] = n]
<1>3. ASSUME NEW w \in Workers, Record(w)
      PROVE  request' \in [Workers -> Active \cup {Idle}] /\ Control'
  BY <1>3, StepRecord
<1>4. ASSUME NEW w \in Workers, Finish(w)
      PROVE  Record(w)
  BY <1>4, IdleRecord DEF Finish
<1>5. ASSUME NEW w \in Workers, NEW pc \in Reading \cup Writing, Goto(w, pc),
             request[w].pc # "idle",
             pc \in Reading \cup {"commit", "handlers", "last"} => request[w].round = "first",
             pc = "invalidate" => request[w].round = "after",
             pc \in {"lookup", "fill"} => request[w].op \in Get,
             pc \in Writing => request[w].op \in Writes
      PROVE  Record(w)
  <2>1. request[w] \in Active /\ WellFormed(request[w])
    BY <1>5, ActiveRecord DEF Control
  <2>2. [request[w] EXCEPT !.pc = pc] \in Active /\ WellFormed([request[w] EXCEPT !.pc = pc])
    BY <1>5, <2>1, NextPlace
  <2>3. request' = [request EXCEPT ![w] = [request[w] EXCEPT !.pc = pc]]
    BY <1>5 DEF Goto, TypeOK
  <2> QED
    BY <2>2, <2>3
<1> HIDE DEF Record
<1>6. ASSUME NEW w \in Workers, request[w].pc \in Loading
      PROVE  request[w].round = "first" /\ request[w].op \in Get \cup Writes
             /\ request[w].pc # "idle" /\ request[w].user \in Users
             /\ request[w].grants \in Nat /\ request[w] \in Active
  BY <1>6, ActiveRecord, ActiveFields DEF Control, WellFormed, Reading, Loading
<1>7. ASSUME NEW w \in Workers, request[w].pc \in Loading, Proceed(w)
      PROVE  Record(w)
  <2>1. CASE request[w].op.kind = "get"
    <3>1. request[w].op \in Get
      BY <1>6, <1>7, <2>1, Kinds
    <3>2. Goto(w, "lookup")
      BY <1>7, <2>1 DEF Proceed
    <3>3. "lookup" \in Reading \ Writing
      BY DEF Reading, Writing
    <3> QED
      BY <3>1, <3>2, <3>3, <1>5, <1>6, <1>7
  <2>2. CASE request[w].op.kind # "get"
    <3>1. request[w].op \in Writes
      BY <1>6, <1>7, <2>2, Kinds
    <3>2. Goto(w, "commit")
      BY <1>7, <2>2 DEF Proceed
    <3>3. "commit" \in Writing
      BY DEF Writing
    <3> QED
      BY <3>1, <3>2, <3>3, <1>5, <1>6, <1>7
  <2> QED
    BY <2>1, <2>2
<1>8. ASSUME NEW w \in Workers, NEW pc \in Loading, Goto(w, pc), request[w].pc \in Loading
      PROVE  Record(w)
  <2>1. pc \in Reading /\ pc \notin Writing \cup {"lookup", "fill", "invalidate"}
    BY DEF Reading, Loading, Writing
  <2> QED
    BY <2>1, <1>5, <1>6, <1>8
<1>10. ASSUME NEW w \in Workers, QueryList(w)
      PROVE  TypeOK' /\ Control'
  <2>1. request[w].pc \in Loading
    BY <1>10 DEF QueryList, Loading
  <2>2. Record(w)
    <3>1. CASE request[w].user \in listed
      <4>1. Goto(w, "fetch") /\ "fetch" \in Loading
        BY <1>10, <3>1 DEF QueryList, Loading
      <4> QED
        BY <4>1, <2>1, <1>8
    <3>2. CASE request[w].user \notin listed
      <4> DEFINE n == [request[w] EXCEPT !.pc = "join", !.copy = listed \cup {request[w].user}]
      <4>1. request[w] \in Active /\ WellFormed(request[w]) /\ listed \cup {request[w].user} \in SUBSET Users
        BY <2>1, <1>6 DEF Control, TypeOK
      <4>2. n \in Active /\ n.pc = "join" /\ n.round = request[w].round
        BY <4>1 DEF Active, Reading, Loading
      <4>3. WellFormed(n)
        BY <4>2, <2>1, <1>6 DEF WellFormed, Writing
      <4>4. request' = [request EXCEPT ![w] = n]
        BY <1>10, <3>2 DEF QueryList
      <4> QED
        BY <4>2, <4>3, <4>4 DEF Record
    <3> QED
      BY <3>1, <3>2
  <2> QED
    BY <1>10, <2>2, <1>3 DEF QueryList, TypeOK
<1>11. ASSUME NEW w \in Workers, JoinList(w)
      PROVE  TypeOK' /\ Control'
  <2>1. request[w].pc \in Loading /\ "store" \in Loading
    BY <1>11 DEF JoinList, Loading
  <2>2. Record(w)
    BY <2>1, <1>11, <1>8 DEF JoinList
  <2>3. request[w].copy \subseteq Users
    BY <2>1, <1>6, ActiveFields
  <2> QED
    BY <1>11, <2>2, <2>3, <1>3 DEF JoinList, TypeOK
<1>12. ASSUME NEW w \in Workers, FetchPermissions(w)
      PROVE  TypeOK' /\ Control'
  <2>1. request[w].pc \in Loading /\ "store" \in Loading
    BY <1>12 DEF FetchPermissions, Loading
  <2>2. Record(w)
    BY <2>1, <1>12, <1>7, <1>8 DEF FetchPermissions
  <2> QED
    BY <1>12, <2>2, <1>3 DEF FetchPermissions, TypeOK
<1>13. ASSUME NEW w \in Workers, CheckList(w)
      PROVE  TypeOK' /\ Control'
  <2>1. request[w].pc \in Loading /\ "set" \in Loading
    BY <1>13 DEF CheckList, Loading
  <2>2. Record(w)
    BY <2>1, <1>13, <1>7, <1>8 DEF CheckList
  <2> QED
    BY <1>13, <2>2, <1>3 DEF CheckList, TypeOK
<1>14. ASSUME NEW w \in Workers, StorePermissions(w)
      PROVE  TypeOK' /\ Control'
  <2>1. request[w].pc \in Loading
    BY <1>14 DEF StorePermissions, Loading
  <2>2. Record(w)
    BY <2>1, <1>14, <1>7 DEF StorePermissions
  <2>3. request[w].user \in Users /\ request[w].grants \in Nat
    BY <2>1, <1>6
  <2> QED
    BY <1>14, <2>2, <2>3, <1>3 DEF StorePermissions, TypeOK
<1>15. ASSUME NEW w \in Workers, Lookup(w) \/ Fill(w)
      PROVE  TypeOK' /\ Control'
  <2>1. request[w].pc \in {"lookup", "fill"} /\ request[w].pc # "idle"
    BY <1>15 DEF Lookup, Fill
  <2>2. request[w] \in Active /\ request[w].op \in Get /\ request[w].round = "first"
    BY <2>1, ActiveRecord DEF Control, WellFormed, Reading
  <2>3. "fill" \in Reading /\ "fill" \notin Writing
    BY DEF Reading, Writing
  <2>4. Record(w)
    BY <1>15, <2>1, <2>2, <2>3, <1>4, <1>5 DEF Lookup, Fill
  <2>5. request[w].seen \in Nat
    BY <2>2, ActiveFields
  <2>6. entry' \in [Objects -> Nat \cup {None}]
    BY <1>15, <2>5 DEF Lookup, Fill, TypeOK
  <2> QED
    BY <1>15, <2>4, <2>6, <1>3 DEF Lookup, Fill, TypeOK
<1>20. ASSUME NEW w \in Workers, request[w].pc \in Writing
      PROVE  request[w] \in Active /\ request[w].op \in Writes /\ request[w].pc # "idle"
             /\ WellFormed(request[w]) /\ request[w].round \in {"first", "after"}
  BY <1>20, ActiveRecord, ActiveFields DEF Control, WellFormed, Writing, Rounds
<1>21. ASSUME NEW w \in Workers, request[w].pc \in Writing, NEW pc \in Writing, Goto(w, pc),
              pc \in {"commit", "handlers", "last"} => request[w].round = "first",
              pc = "invalidate" => request[w].round = "after"
      PROVE  Record(w)
  <2>1. pc \notin Reading /\ pc \notin {"lookup", "fill"}
    BY DEF Reading, Loading, Writing
  <2>2. pc \in Reading \cup Writing
    OBVIOUS
  <2> QED
    BY <2>1, <2>2, <1>20, <1>21, <1>5
<1>22. ASSUME NEW w \in Workers, request[w].pc \in Writing, NEW round \in Rounds, NEW dropped,
              NEW cleared, CommitRound(w, round, dropped, cleared)
      PROVE  /\ version' \in [Objects -> Nat] /\ grants' \in Nat
             /\ raced' \subseteq Objects /\ permRaced' \subseteq Users
  <2>1. version' \in [Objects -> Nat] /\ grants' \in Nat
    BY <1>22 DEF CommitRound, TypeOK
  <2>2. permRaced' \subseteq Users
    BY <1>22 DEF CommitRound, TypeOK
  <2>3. raced' = raced \cup {o \in request[w].op.changes[round] : o \notin dropped \/ ReadersOf(o) # {}}
    BY <1>22 DEF CommitRound
  <2>4. request[w].op.changes[round] \subseteq Objects
    BY <1>20, <1>22, Kinds
  <2> QED
    BY <2>1, <2>2, <2>3, <2>4 DEF TypeOK
<1>23. ASSUME NEW objects, Delete(objects)
      PROVE  entry' \in [Objects -> Nat \cup {None}] /\ raced' \subseteq Objects
  BY <1>23 DEF Delete, TypeOK
<1>24. "first" \in Rounds /\ "after" \in Rounds
  BY DEF Rounds
<1>30. ASSUME NEW w \in Workers, Commit(w)
      PROVE  TypeOK' /\ Control'
  <2>1. request[w].pc \in Writing /\ "drop" \in Writing
    BY <1>30 DEF Commit, Writing
  <2>2. Record(w)
    BY <2>1, <1>30, <1>4, <1>21 DEF Commit
  <2>3. \E dropped, cleared : CommitRound(w, "first", dropped, cleared)
    BY <1>30 DEF Commit
  <2> QED
    BY <1>30, <2>1, <2>2, <2>3, <1>3, <1>22, <1>24 DEF Commit, TypeOK
<1>31. ASSUME NEW w \in Workers, Drop(w)
      PROVE  TypeOK' /\ Control'
  <2>1. request[w].pc \in Writing /\ "list" \in Writing
    BY <1>31 DEF Drop, Writing
  <2>2. Record(w)
    BY <2>1, <1>31, <1>21 DEF Drop
  <2>3. \E objects : Delete(objects)
    BY <1>31 DEF Drop
  <2> QED
    BY <1>31, <2>2, <2>3, <1>3, <1>23 DEF Drop, TypeOK
<1>32. ASSUME NEW w \in Workers, ReadList(w)
      PROVE  TypeOK' /\ Control'
  <2> DEFINE n == [request[w] EXCEPT !.pc = "clear", !.copy = listed]
  <2>1. request[w].pc \in Writing /\ "clear" \in Writing
    BY <1>32 DEF ReadList, Writing
  <2>2. request[w] \in Active /\ WellFormed(request[w]) /\ request[w].op \in Writes
        /\ listed \in SUBSET Users
    BY <2>1, <1>20 DEF TypeOK
  <2>3. n \in Active /\ n.pc = "clear" /\ n.op = request[w].op
    BY <2>1, <2>2 DEF Active
  <2>4. WellFormed(n)
    BY <2>2, <2>3 DEF WellFormed, Reading, Loading
  <2>5. request' = [request EXCEPT ![w] = n]
    BY <1>32 DEF ReadList
  <2>6. Record(w)
    BY <2>3, <2>4, <2>5 DEF Record
  <2> QED
    BY <1>32, <2>6, <1>3 DEF ReadList, TypeOK
<1>33. ASSUME NEW w \in Workers, ClearPermissions(w)
      PROVE  TypeOK' /\ Control'
  <2>1. request[w].pc \in Writing /\ {"handlers", "invalidate"} \subseteq Writing
    BY <1>33 DEF ClearPermissions, Writing
  <2>2. Record(w)
    <3>1. CASE request[w].round = "first"
      BY <2>1, <3>1, <1>33, <1>21 DEF ClearPermissions
    <3>2. CASE request[w].round = "after"
      BY <2>1, <3>2, <1>33, <1>21 DEF ClearPermissions
    <3> QED
      BY <3>1, <3>2, <2>1, <1>20
  <2>3. /\ granted' = [u \in Users |-> IF u \in request[w].copy THEN None ELSE granted[u]]
        /\ permRaced' \subseteq permRaced \cup Users
    BY <1>33 DEF ClearPermissions
  <2>4. granted' \in [Users -> Nat \cup {None}] /\ permRaced' \subseteq Users
    BY <2>3 DEF TypeOK
  <2> QED
    BY <1>33, <2>2, <2>4, <1>3 DEF ClearPermissions, TypeOK
<1>34. ASSUME NEW w \in Workers, Handlers(w)
      PROVE  TypeOK' /\ Control'
  <2>1. request[w].pc \in Writing /\ "last" \in Writing /\ request[w].round = "first"
    BY <1>34 DEF Handlers, Writing, Control, WellFormed
  <2>2. Record(w)
    BY <2>1, <1>34, <1>4, <1>21 DEF Handlers
  <2>3. CASE request[w].op.own
    <3>1. \E dropped, cleared : CommitRound(w, "after", dropped, cleared)
      BY <1>34, <2>3 DEF Handlers
    <3> QED
      BY <1>34, <2>1, <2>2, <3>1, <1>3, <1>22, <1>24 DEF Handlers, TypeOK
  <2>4. CASE ~request[w].op.own
    BY <1>34, <2>2, <2>4, <1>3 DEF Handlers, TypeOK
  <2> QED
    BY <2>3, <2>4
<1>35. ASSUME NEW w \in Workers, LastCommit(w)
      PROVE  TypeOK' /\ Control'
  <2>1. request[w].pc \in Writing /\ request[w].op.own \in BOOLEAN
    BY <1>35, <1>20 DEF LastCommit, Writing, Write
  <2>2. Record(w)
    <3>1. CASE request[w].op.kind = "put"
      <4> DEFINE n == [request[w] EXCEPT !.pc = "drop", !.round = "after"]
      <4>1. request[w] \in Active /\ request[w].op \in Writes
        BY <2>1, <1>20
      <4>2. n \in Active /\ n.pc = "drop" /\ n.op = request[w].op
        BY <4>1 DEF Active, Writing, Rounds
      <4>3. WellFormed(n)
        BY <4>1, <4>2 DEF WellFormed, Reading, Loading
      <4>4. request' = [request EXCEPT ![w] = n]
        BY <1>35, <3>1 DEF LastCommit
      <4> QED
        BY <4>2, <4>3, <4>4 DEF Record
    <3>2. CASE request[w].op.kind # "put"
      BY <3>2, <1>35, <1>4 DEF LastCommit
    <3> QED
      BY <3>1, <3>2
  <2>3. CASE request[w].op.own
    BY <1>35, <2>2, <2>3, <1>3 DEF LastCommit, TypeOK
  <2>4. CASE ~request[w].op.own
    <3>1. \E dropped, cleared : CommitRound(w, "after", dropped, cleared)
      BY <1>35, <2>4 DEF LastCommit
    <3> QED
      BY <1>35, <2>1, <2>2, <3>1, <1>3, <1>22, <1>24 DEF LastCommit, TypeOK
  <2> QED
    BY <2>3, <2>4
<1>36. ASSUME NEW w \in Workers, Invalidate(w)
      PROVE  TypeOK' /\ Control'
  <2>1. Record(w)
    BY <1>36, <1>4 DEF Invalidate
  <2>2. \E objects : Delete(objects)
    BY <1>36 DEF Invalidate
  <2> QED
    BY <1>36, <2>1, <2>2, <1>3, <1>23 DEF Invalidate, TypeOK
<1>37. ASSUME NEW w \in Workers, Die(w)
      PROVE  TypeOK' /\ Control'
  <2>1. Record(w)
    BY <1>37, <1>4 DEF Die
  <2>2. raced' \subseteq raced \cup Owed(request[w])
    BY <1>37 DEF Die
  <2>3. Owed(request[w]) \subseteq Objects
    <3>1. CASE request[w].pc \in Writing
      <4>1. request[w].op \in Writes /\ request[w].round \in Rounds
        BY <3>1, <1>20 DEF Rounds
      <4> QED
        BY <4>1, OwedObjects
    <3>2. CASE request[w].pc \notin Writing
      BY <3>2, OwedNothing DEF Writing
    <3> QED
      BY <3>1, <3>2
  <2>4. permRaced' \subseteq Users
    BY <1>37 DEF Die, TypeOK
  <2> QED
    BY <1>37, <2>1, <2>2, <2>3, <2>4, <1>3 DEF Die, TypeOK
<1> QED
  BY <1>1, <1>2, <1>10, <1>11, <1>12, <1>13, <1>14, <1>15, <1>30, <1>31, <1>32, <1>33,
     <1>34, <1>35, <1>36, <1>37 DEF Next

(* Types: every step of a request leaves a record that its next step can use. *)
THEOREM TypeCorrect == Spec => []TypeOK
<1>1. Init => TypeOK /\ Control
  BY IdleRecord DEF Init, TypeOK, Control
<1>2. TypeOK /\ Control /\ [Next]_vars => TypeOK' /\ Control'
  BY TypeStep
<1> QED
  BY <1>1, <1>2, PTL DEF Spec

(* The places of the requests. *)
THEOREM ControlCorrect == Spec => []Control
<1>1. Init => TypeOK /\ Control
  BY IdleRecord DEF Init, TypeOK, Control
<1>2. TypeOK /\ Control /\ [Next]_vars => TypeOK' /\ Control'
  BY TypeStep
<1> QED
  BY <1>1, <1>2, PTL DEF Spec

-----------------------------------------------------------------------------
(* The objects. *)

Fresh(o) == (\A w \in Workers : o \notin Owed(request[w])) => entry[o] \in {None, version[o]}
Seen(o) == \A w \in Workers : Reads(request[w], o) => request[w].seen = version[o]

(* A step that leaves memcache's objects and the versions alone, gives up no       *)
(* deletion, and begins no reading, keeps an object as it is.                    *)
LEMMA ObjectsKept ==
  ASSUME NEW w \in Workers, NEW o \in Objects, Fresh(o), Seen(o),
         entry'[o] = entry[o], version'[o] = version[o],
         \A v \in Workers : v # w => request'[v] = request[v],
         o \in Owed(request[w]) => o \in Owed(request'[w]) \/ entry[o] \in {None, version[o]},
         Reads(request'[w], o) => request'[w].seen = version[o]
  PROVE  Fresh(o)' /\ Seen(o)'
<1>1. Seen(o)'
  BY DEF Seen
<1>2. ASSUME \A v \in Workers : o \notin Owed(request'[v])
      PROVE  entry'[o] \in {None, version'[o]}
  <2>1. \A v \in Workers : v # w => o \notin Owed(request[v])
    BY <1>2
  <2>2. o \notin Owed(request'[w])
    BY <1>2
  <2> QED
    BY <2>1, <2>2 DEF Fresh
<1> QED
  BY <1>1, <1>2 DEF Fresh

(* A step that goes on to another place keeps what a request has read. *)
LEMMA GotoRecord ==
  ASSUME TypeOK, NEW w \in Workers, request[w].pc # "idle", NEW pc \in Reading \cup Writing,
         Goto(w, pc)
  PROVE  /\ request[w] \in Active
         /\ \A v \in Workers : v # w => request'[v] = request[v]
         /\ request'[w].pc = pc
         /\ request'[w].op = request[w].op /\ request'[w].user = request[w].user
         /\ request'[w].seen = request[w].seen /\ request'[w].grants = request[w].grants
         /\ request'[w].copy = request[w].copy /\ request'[w].round = request[w].round
<1>1. request[w] \in Active
  BY ActiveRecord
<1>2. request' = [request EXCEPT ![w] = [request[w] EXCEPT !.pc = pc]]
  BY DEF Goto, TypeOK
<1>3. request'[w] = [request[w] EXCEPT !.pc = pc] /\ \A v \in Workers : v # w => request'[v] = request[v]
  BY <1>2 DEF TypeOK
<1> QED
  BY <1>1, <1>3, Moved

LEMMA FinishRecord ==
  ASSUME TypeOK, NEW w \in Workers, Finish(w)
  PROVE  /\ \A v \in Workers : v # w => request'[v] = request[v]
         /\ request'[w] = Idle
         /\ Owed(request'[w]) = {}
         /\ \A o : ~Reads(request'[w], o)
         /\ \A u : ~Loads(request'[w], u)
         /\ ~OwesClear(request'[w])
<1>1. request'[w] = Idle /\ \A v \in Workers : v # w => request'[v] = request[v]
  BY DEF Finish, TypeOK
<1>2. Owed(Idle) = {}
  BY OwedNothing DEF Idle
<1>3. \A o : ~Reads(Idle, o) /\ ~Loads(Idle, o)
  BY DEF Idle, Reads, Loads, Reading, Loading
<1>4. ~OwesClear(Idle)
  BY DEF Idle, OwesClear
<1> QED
  BY <1>1, <1>2, <1>3, <1>4

(* The steps of loading and looking up owe nothing before and after. *)
LEMMA LoadingSteps ==
  ASSUME TypeOK, Control, NEW w \in Workers,
         QueryList(w) \/ JoinList(w) \/ FetchPermissions(w) \/ CheckList(w) \/ StorePermissions(w)
  PROVE  /\ request[w].pc \in Loading
         /\ \A v \in Workers : v # w => request'[v] = request[v]
         /\ request'[w].pc \in Reading \cup {"commit"}
         /\ request'[w].op = request[w].op /\ request'[w].user = request[w].user
         /\ request'[w].seen = request[w].seen /\ request'[w].grants = request[w].grants
         /\ UNCHANGED <<version, grants, entry, raced>>
<1>1. request[w].pc \in Loading /\ request[w].pc # "idle"
  BY DEF Loading, QueryList, JoinList, FetchPermissions, CheckList, StorePermissions
<1>2. UNCHANGED <<version, grants, entry, raced>>
  BY DEF QueryList, JoinList, FetchPermissions, CheckList, StorePermissions, database, history
<1>3. \/ \E pc \in Reading \cup {"commit"} : Goto(w, pc)
      \/ request' = [request EXCEPT ![w] = [request[w] EXCEPT !.pc = "join", !.copy = listed \cup {request[w].user}]]
  <2>1. CASE QueryList(w)
    BY <2>1 DEF QueryList, Reading, Loading
  <2>2. CASE JoinList(w) \/ FetchPermissions(w) \/ CheckList(w) \/ StorePermissions(w)
    BY <2>2 DEF JoinList, FetchPermissions, CheckList, StorePermissions, Proceed, Reading, Loading
  <2> QED
    BY <2>1, <2>2
<1>4. CASE \E pc \in Reading \cup {"commit"} : Goto(w, pc)
  <2>1. PICK pc \in Reading \cup {"commit"} : Goto(w, pc)
    BY <1>4
  <2>2. pc \in Reading \cup Writing
    BY DEF Writing
  <2> QED
    BY <1>1, <1>2, <2>1, <2>2, GotoRecord
<1>5. CASE request' = [request EXCEPT ![w] = [request[w] EXCEPT !.pc = "join", !.copy = listed \cup {request[w].user}]]
  <2> DEFINE n == [request[w] EXCEPT !.pc = "join", !.copy = listed \cup {request[w].user}]
  <2>1. request[w] \in Active
    BY <1>1, ActiveRecord
  <2>2. /\ n.pc = "join" /\ n.op = request[w].op /\ n.user = request[w].user
        /\ n.seen = request[w].seen /\ n.grants = request[w].grants
    BY <2>1 DEF Active
  <2>3. request'[w] = n /\ \A v \in Workers : v # w => request'[v] = request[v]
    BY <1>5 DEF TypeOK
  <2>4. "join" \in Reading
    BY DEF Reading, Loading
  <2> QED
    BY <1>1, <1>2, <2>2, <2>3, <2>4
<1> QED
  BY <1>3, <1>4, <1>5

(* A commit that changes the object is followed by a deletion and overlaps no reader,  *)
(* or is on record.                                                                  *)
LEMMA ObjectsCommitted ==
  ASSUME NEW w \in Workers, NEW o \in Objects, Fresh(o), Seen(o),
         entry'[o] = entry[o],
         \A v \in Workers : v # w => request'[v] = request[v],
         ~Reads(request'[w], o),
         o \in Owed(request[w]) => o \in Owed(request'[w]),
         \/ version'[o] = version[o]
         \/ o \in Owed(request'[w]) /\ \A v \in Workers : ~Reads(request[v], o)
  PROVE  Fresh(o)' /\ Seen(o)'
<1>1. CASE version'[o] = version[o]
  BY <1>1, ObjectsKept
<1>2. CASE o \in Owed(request'[w]) /\ \A v \in Workers : ~Reads(request[v], o)
  BY <1>2 DEF Fresh, Seen
<1> QED
  BY <1>1, <1>2

LEMMA CommittedObject ==
  ASSUME NEW w \in Workers, NEW round, NEW dropped, NEW cleared,
         CommitRound(w, round, dropped, cleared), NEW o \in Objects \ raced'
  PROVE  /\ o \notin raced
         /\ \/ version'[o] = version[o]
            \/ o \in dropped /\ \A v \in Workers : ~Reads(request[v], o)
<1>1. raced' = raced \cup {x \in request[w].op.changes[round] : x \notin dropped \/ ReadersOf(x) # {}}
  BY DEF CommitRound
<1>2. o \in request[w].op.changes[round] => o \in dropped /\ ReadersOf(o) = {}
  BY <1>1
<1>3. ReadersOf(o) = {} => \A v \in Workers : ~Reads(request[v], o)
  BY DEF ReadersOf, Reads
<1>4. o \notin request[w].op.changes[round] => version'[o] = version[o]
  BY DEF CommitRound
<1> QED
  BY <1>1, <1>2, <1>3, <1>4

(* A deletion leaves no entry and, off the record, no reader of an older version. *)
LEMMA ObjectsDeleted ==
  ASSUME NEW w \in Workers, NEW objects, Delete(objects), NEW o \in Objects \ raced',
         o \notin raced => Fresh(o) /\ Seen(o),
         version' = version,
         \A v \in Workers : v # w => request'[v] = request[v],
         ~Reads(request'[w], o),
         o \in Owed(request[w]) => o \in objects \/ o \in Owed(request'[w])
  PROVE  Fresh(o)' /\ Seen(o)'
<1>1. CASE o \in objects
  <2>1. entry'[o] = None
    BY <1>1 DEF Delete
  <2>2. \A v \in Workers : Reads(request[v], o) => request[v].seen = version[o]
    <3>1. CASE o \in raced
      BY <1>1, <3>1 DEF Delete, ReadersOf, Reads
    <3>2. CASE o \notin raced
      BY <3>2 DEF Seen
    <3> QED
      BY <3>1, <3>2
  <2> QED
    BY <2>1, <2>2 DEF Fresh, Seen
<1>2. CASE o \notin objects
  <2>1. o \notin raced /\ entry'[o] = entry[o]
    BY <1>2 DEF Delete
  <2> QED
    BY <2>1, <1>2, ObjectsKept
<1> QED
  BY <1>1, <1>2

(* Every step keeps the entries off the record fresh and their readers current. *)
LEMMA ObjectsStep ==
  ASSUME TypeOK, Control, [Next]_vars, TypeOK', Control',
         \A o \in Objects \ raced : Fresh(o) /\ Seen(o),
         NEW o \in Objects \ raced'
  PROVE  Fresh(o)' /\ Seen(o)'
<1> USE DEF database, history
<1>1. CASE UNCHANGED vars
  BY <1>1 DEF vars, Fresh, Seen, Reads, Owed, Keys, StillToDrop, Marks
<1>2. ASSUME NEW w \in Workers, NEW u \in Users, NEW op \in Get \cup Writes, Accept(w, u, op)
      PROVE  Fresh(o)' /\ Seen(o)'
  <2>1. /\ request'[w] = [pc |-> "permissions", user |-> u, op |-> op, seen |-> version[op.target],
                          grants |-> grants, copy |-> {}, round |-> "first"]
        /\ \A v \in Workers : v # w => request'[v] = request[v]
        /\ request[w] = Idle
        /\ UNCHANGED <<version, entry, raced>>
    BY <1>2 DEF Accept, TypeOK
  <2>2. Owed(request[w]) = {}
    BY <2>1, OwedNothing DEF Idle
  <2>3. Reads(request'[w], o) => request'[w].seen = version[o]
    BY <2>1 DEF Reads
  <2> QED
    BY <2>1, <2>2, <2>3, ObjectsKept
<1>3. ASSUME NEW w \in Workers,
             QueryList(w) \/ JoinList(w) \/ FetchPermissions(w) \/ CheckList(w) \/ StorePermissions(w)
      PROVE  Fresh(o)' /\ Seen(o)'
  <2>1. /\ request[w].pc \in Loading
        /\ \A v \in Workers : v # w => request'[v] = request[v]
        /\ request'[w].op = request[w].op /\ request'[w].seen = request[w].seen
        /\ UNCHANGED <<version, entry, raced>>
    BY <1>3, LoadingSteps
  <2>2. Owed(request[w]) = {}
    BY <2>1, OwedNothing DEF Loading
  <2>3. Reads(request'[w], o) => Reads(request[w], o)
    BY <2>1 DEF Reads, Reading
  <2> QED
    BY <2>1, <2>2, <2>3, ObjectsKept DEF Seen
<1>4. ASSUME NEW w \in Workers, Lookup(w)
      PROVE  Fresh(o)' /\ Seen(o)'
  <2>1. request[w].pc = "lookup" /\ request[w].pc # "idle" /\ UNCHANGED <<version, entry, raced>>
    BY <1>4 DEF Lookup
  <2>2. Owed(request[w]) = {}
    BY <2>1, OwedNothing
  <2>3. CASE Finish(w)
    BY <2>1, <2>2, <2>3, FinishRecord, ObjectsKept
  <2>4. CASE Goto(w, "fill")
    <3>1. "fill" \in Reading /\ "lookup" \in Reading
      BY DEF Reading
    <3>2. /\ \A v \in Workers : v # w => request'[v] = request[v]
          /\ request'[w].op = request[w].op /\ request'[w].seen = request[w].seen
      BY <2>1, <2>4, <3>1, GotoRecord
    <3>3. Reads(request'[w], o) => Reads(request[w], o)
      BY <2>1, <3>1, <3>2 DEF Reads
    <3> QED
      BY <2>1, <2>2, <3>2, <3>3, ObjectsKept DEF Seen
  <2> QED
    BY <1>4, <2>3, <2>4 DEF Lookup
<1>5. ASSUME NEW w \in Workers, Fill(w)
      PROVE  Fresh(o)' /\ Seen(o)'
  <2>1. request[w].pc = "fill" /\ UNCHANGED <<version, raced>> /\ Finish(w)
    BY <1>5 DEF Fill
  <2>2. Owed(request[w]) = {}
    BY <2>1, OwedNothing
  <2>3. request[w].op \in Get /\ "fill" \in Reading
    BY <2>1 DEF Control, WellFormed, Reading
  <2>4. /\ \A v \in Workers : v # w => request'[v] = request[v]
        /\ ~Reads(request'[w], o) /\ Owed(request'[w]) = {}
    BY <2>1, FinishRecord
  <2>5. CASE o # request[w].op.target \/ entry[o] # None
    <3>1. entry'[o] = entry[o]
      BY <1>5, <2>5 DEF Fill, TypeOK
    <3> QED
      BY <2>1, <2>2, <2>4, <3>1, ObjectsKept
  <2>6. CASE o = request[w].op.target /\ entry[o] = None
    <3>1. entry'[o] = request[w].seen
      BY <1>5, <2>6 DEF Fill, TypeOK
    <3>2. Reads(request[w], o)
      BY <2>1, <2>3, <2>6, Kinds DEF Reads
    <3>3. entry'[o] = version[o]
      BY <3>1, <3>2, <2>1 DEF Seen
    <3>4. Seen(o)'
      BY <2>1, <2>4 DEF Seen
    <3> QED
      BY <2>1, <3>3, <3>4 DEF Fresh
  <2> QED
    BY <2>5, <2>6
<1>6. ASSUME NEW w \in Workers, request[w].pc \in Writing
      PROVE  /\ request[w].pc # "idle" /\ request[w] \in Active
             /\ request[w].op \in Writes /\ ~Reads(request[w], o)
             /\ request[w].round \in Rounds
  BY <1>6, ActiveRecord, ActiveFields DEF Control, WellFormed, Writing, Reads, Reading, Loading
<1>7. ASSUME NEW w \in Workers, request'[w].pc \in Writing
      PROVE  ~Reads(request'[w], o)
  BY <1>7 DEF Writing, Reads, Reading, Loading
<1>8. ASSUME NEW w \in Workers, request[w].pc \in Writing, NEW pc \in Writing, Goto(w, pc)
      PROVE  /\ \A v \in Workers : v # w => request'[v] = request[v]
             /\ request'[w].pc = pc /\ ~Reads(request'[w], o)
             /\ request'[w].op = request[w].op /\ request'[w].round = request[w].round
  BY <1>6, <1>7, <1>8, GotoRecord
<1>10. ASSUME NEW w \in Workers, Commit(w)
       PROVE  Fresh(o)' /\ Seen(o)'
  <2> DEFINE op == request[w].op
  <2>1. request[w].pc = "commit" /\ entry' = entry /\ "commit" \in Writing /\ "drop" \in Writing
    BY <1>10 DEF Commit, Writing
  <2>2. Owed(request[w]) = {} /\ request[w].round = "first"
    BY <2>1, OwedNothing DEF Control, WellFormed
  <2>3. CASE op.kind = "patch"
    <3>1. Finish(w) /\ \E cleared : CommitRound(w, "first", {}, cleared)
      BY <1>10, <2>3 DEF Commit
    <3>2. PICK cleared : CommitRound(w, "first", {}, cleared)
      BY <3>1
    <3>3. o \notin raced /\ (version'[o] = version[o] \/ o \in {})
      BY <3>2, CommittedObject
    <3> QED
      BY <2>1, <2>2, <3>1, <3>3, FinishRecord, ObjectsCommitted
  <2>4. CASE op.kind # "patch"
    <3>1. CommitRound(w, "first", Keys(op, "first") \cup StillToDrop(op, "first"), TRUE) /\ Goto(w, "drop")
      BY <1>10, <2>4 DEF Commit
    <3>2. o \notin raced
          /\ \/ version'[o] = version[o]
             \/ o \in Keys(op, "first") \cup StillToDrop(op, "first")
                /\ \A v \in Workers : ~Reads(request[v], o)
      BY <3>1, CommittedObject
    <3>3. /\ \A v \in Workers : v # w => request'[v] = request[v]
          /\ request'[w].pc = "drop" /\ ~Reads(request'[w], o)
          /\ request'[w].op = op /\ request'[w].round = "first"
      BY <2>1, <2>2, <3>1, <1>8
    <3>4. Owed(request'[w]) = Keys(op, "first") \cup StillToDrop(op, "first")
      BY <3>3, OwedAtDrop
    <3> QED
      BY <2>1, <2>2, <3>2, <3>3, <3>4, ObjectsCommitted
  <2> QED
    BY <2>3, <2>4
<1>11. ASSUME NEW w \in Workers, Drop(w)
       PROVE  Fresh(o)' /\ Seen(o)'
  <2>1. /\ request[w].pc = "drop" /\ version' = version /\ {"drop", "list"} \subseteq Writing
        /\ Goto(w, "list") /\ Delete(Keys(request[w].op, request[w].round))
    BY <1>11 DEF Drop, Writing
  <2>2. /\ \A v \in Workers : v # w => request'[v] = request[v]
        /\ request'[w].pc = "list" /\ ~Reads(request'[w], o)
        /\ request'[w].op = request[w].op /\ request'[w].round = request[w].round
    BY <2>1, <1>8
  <2>3. /\ Owed(request[w]) = Keys(request[w].op, request[w].round)
                                 \cup StillToDrop(request[w].op, request[w].round)
        /\ Owed(request'[w]) = StillToDrop(request[w].op, request[w].round)
    BY <2>1, <2>2, OwedAtDrop, OwedLater
  <2> QED
    BY <2>1, <2>2, <2>3, ObjectsDeleted
<1>12. ASSUME NEW w \in Workers, ReadList(w)
       PROVE  Fresh(o)' /\ Seen(o)'
  <2>1. /\ request[w].pc = "list" /\ "list" \in Writing /\ UNCHANGED <<version, entry, raced>>
        /\ request' = [request EXCEPT ![w] = [request[w] EXCEPT !.pc = "clear", !.copy = listed]]
    BY <1>12 DEF ReadList, Writing, TypeOK
  <2>2. request[w] \in Active
    BY <2>1, <1>6
  <2>3. /\ \A v \in Workers : v # w => request'[v] = request[v]
        /\ request'[w] = [request[w] EXCEPT !.pc = "clear", !.copy = listed]
    BY <2>1 DEF TypeOK
  <2>4. request'[w].pc = "clear" /\ request'[w].op = request[w].op /\ request'[w].round = request[w].round
    BY <2>2, <2>3 DEF Active
  <2>5. ~Reads(request'[w], o)
    BY <2>4, <1>7 DEF Writing
  <2>6. Owed(request'[w]) = Owed(request[w])
    <3>1. Owed(request[w]) = StillToDrop(request[w].op, request[w].round)
      BY <2>1, OwedLater
    <3>2. Owed(request'[w]) = StillToDrop(request'[w].op, request'[w].round)
      BY <2>4, OwedLater
    <3> QED
      BY <2>4, <3>1, <3>2
  <2> QED
    BY <2>1, <2>3, <2>5, <2>6, ObjectsKept
<1>13. ASSUME NEW w \in Workers, ClearPermissions(w)
       PROVE  Fresh(o)' /\ Seen(o)'
  <2>1. /\ request[w].pc = "clear" /\ {"clear", "handlers", "invalidate"} \subseteq Writing
        /\ UNCHANGED <<version, entry, raced>>
        /\ Goto(w, "handlers") \/ Goto(w, "invalidate")
    BY <1>13 DEF ClearPermissions, Writing
  <2>2. /\ \A v \in Workers : v # w => request'[v] = request[v]
        /\ request'[w].pc \in {"handlers", "invalidate"} /\ ~Reads(request'[w], o)
        /\ request'[w].op = request[w].op /\ request'[w].round = request[w].round
    BY <2>1, <1>8
  <2>3. Owed(request'[w]) = Owed(request[w])
    BY <2>1, <2>2, OwedLater
  <2> QED
    BY <2>1, <2>2, <2>3, ObjectsKept
<1>14. ASSUME NEW w \in Workers, Handlers(w)
       PROVE  Fresh(o)' /\ Seen(o)'
  <2> DEFINE op == request[w].op
  <2>1. /\ request[w].pc = "handlers" /\ {"handlers", "last"} \subseteq Writing /\ entry' = entry
        /\ request[w].round = "first"
    BY <1>14 DEF Handlers, Writing, Control, WellFormed
  <2>2. Owed(request[w]) = StillToDrop(op, "first")
    BY <2>1, OwedLater
  <2>3. /\ \A v \in Workers : v # w => request'[v] = request[v]
        /\ ~Reads(request'[w], o)
        /\ Owed(request'[w]) = StillToDrop(op, "first")
    <3>1. CASE op.kind = "delete"
      <4>1. Finish(w)
        BY <1>14, <3>1 DEF Handlers
      <4>2. StillToDrop(op, "first") = {}
        BY <3>1 DEF StillToDrop
      <4> QED
        BY <4>1, <4>2, FinishRecord
    <3>2. CASE op.kind # "delete"
      <4>1. Goto(w, "last")
        BY <1>14, <3>2 DEF Handlers
      <4>2. /\ \A v \in Workers : v # w => request'[v] = request[v]
            /\ request'[w].pc = "last" /\ ~Reads(request'[w], o)
            /\ request'[w].op = op /\ request'[w].round = "first"
        BY <2>1, <4>1, <1>8
      <4> QED
        BY <4>2, OwedLater
    <3> QED
      BY <3>1, <3>2
  <2>4. CASE op.own
    <3>1. \E cleared : CommitRound(w, "after", StillToDrop(op, "first"), cleared)
      BY <1>14, <2>4 DEF Handlers
    <3>2. o \notin raced
          /\ \/ version'[o] = version[o]
             \/ o \in StillToDrop(op, "first") /\ \A v \in Workers : ~Reads(request[v], o)
      BY <3>1, CommittedObject
    <3> QED
      BY <2>1, <2>2, <2>3, <3>2, ObjectsCommitted
  <2>5. CASE ~op.own
    <3>1. UNCHANGED <<version, raced>>
      BY <1>14, <2>5 DEF Handlers
    <3> QED
      BY <2>1, <2>2, <2>3, <3>1, ObjectsCommitted
  <2> QED
    BY <2>4, <2>5
<1>15. ASSUME NEW w \in Workers, LastCommit(w)
       PROVE  Fresh(o)' /\ Seen(o)'
  <2> DEFINE op == request[w].op
  <2>1. /\ request[w].pc = "last" /\ "last" \in Writing /\ entry' = entry
        /\ request[w].round = "first"
    BY <1>15 DEF LastCommit, Writing, Control, WellFormed
  <2>2. Owed(request[w]) = StillToDrop(op, "first") /\ request[w] \in Active
    BY <2>1, <1>6, OwedLater
  <2>3. /\ \A v \in Workers : v # w => request'[v] = request[v]
        /\ ~Reads(request'[w], o)
        /\ Owed(request'[w]) = StillToDrop(op, "first")
    <3>1. CASE op.kind = "put"
      <4>1. request' = [request EXCEPT ![w] = [request[w] EXCEPT !.pc = "drop", !.round = "after"]]
        BY <1>15, <3>1 DEF LastCommit, TypeOK
      <4>2. /\ \A v \in Workers : v # w => request'[v] = request[v]
            /\ request'[w] = [request[w] EXCEPT !.pc = "drop", !.round = "after"]
        BY <4>1 DEF TypeOK
      <4>3. request'[w].pc = "drop" /\ request'[w].op = op /\ request'[w].round = "after"
        BY <2>2, <4>2 DEF Active
      <4>4. Owed(request'[w]) = Keys(op, "after") \cup StillToDrop(op, "after")
        BY <4>3, OwedAtDrop
      <4>5. StillToDrop(op, "after") = {op.target}
            /\ StillToDrop(op, "first") = {op.target} \cup Keys(op, "after")
        BY <3>1 DEF StillToDrop
      <4> QED
        BY <4>2, <4>3, <4>4, <4>5, <1>7 DEF Writing
    <3>2. CASE op.kind # "put"
      <4>1. Finish(w)
        BY <1>15, <3>2 DEF LastCommit
      <4>2. StillToDrop(op, "first") = {}
        BY <3>2 DEF StillToDrop
      <4> QED
        BY <4>1, <4>2, FinishRecord
    <3> QED
      BY <3>1, <3>2
  <2>4. CASE ~op.own
    <3>1. \E cleared : CommitRound(w, "after", StillToDrop(op, "first"), cleared)
      BY <1>15, <2>4 DEF LastCommit
    <3>2. o \notin raced
          /\ \/ version'[o] = version[o]
             \/ o \in StillToDrop(op, "first") /\ \A v \in Workers : ~Reads(request[v], o)
      BY <3>1, CommittedObject
    <3> QED
      BY <2>1, <2>2, <2>3, <3>2, ObjectsCommitted
  <2>5. CASE op.own
    <3>1. UNCHANGED <<version, raced>>
      BY <1>15, <2>5 DEF LastCommit
    <3> QED
      BY <2>1, <2>2, <2>3, <3>1, ObjectsCommitted
  <2> QED
    BY <2>4, <2>5
<1>16. ASSUME NEW w \in Workers, Invalidate(w)
       PROVE  Fresh(o)' /\ Seen(o)'
  <2>1. /\ request[w].pc = "invalidate" /\ version' = version
        /\ Finish(w) /\ Delete({request[w].op.target})
    BY <1>16 DEF Invalidate
  <2>2. request[w].round = "after"
    BY <2>1 DEF Control, WellFormed
  <2>3. Owed(request[w]) \subseteq {request[w].op.target}
    BY <2>1, <2>2, OwedLater DEF StillToDrop
  <2> QED
    BY <2>1, <2>3, FinishRecord, ObjectsDeleted
<1>17. ASSUME NEW w \in Workers, Die(w)
       PROVE  Fresh(o)' /\ Seen(o)'
  <2>1. /\ UNCHANGED <<version, entry>> /\ Finish(w)
        /\ raced' = raced \cup {x \in Owed(request[w]) : entry[x] \notin {None, version[x]}}
    BY <1>17 DEF Die
  <2>2. o \notin raced /\ (o \in Owed(request[w]) => entry[o] \in {None, version[o]})
    BY <2>1
  <2> QED
    BY <2>1, <2>2, FinishRecord, ObjectsKept
<1> QED
  BY <1>1, <1>2, <1>3, <1>4, <1>5, <1>10, <1>11, <1>12, <1>13, <1>14, <1>15, <1>16, <1>17 DEF Next

(* Objects: what the cache holds of an object off the record is its current version, or is      *)
(* about to be deleted.                                                                       *)
THEOREM FreshEntriesAlways == Spec => []FreshEntries
<1> DEFINE ObjectsInv == \A o \in Objects \ raced : Fresh(o) /\ Seen(o)
<1>1. Init => ObjectsInv
  BY DEF Init, Fresh, Seen, Reads, Idle, Reading, Loading
<1>2. TypeOK /\ Control /\ TypeOK' /\ Control' /\ ObjectsInv /\ [Next]_vars => ObjectsInv'
  BY ObjectsStep
<1>3. ObjectsInv => FreshEntries
  BY DEF Fresh, FreshEntries
<1> HIDE DEF ObjectsInv
<1> QED
  BY <1>1, <1>2, <1>3, TypeCorrect, ControlCorrect, PTL DEF Spec

-----------------------------------------------------------------------------
(* The permissions. *)

FreshFor(u) == (\A w \in Workers : ~OwesClear(request[w])) => granted[u] \in {None, grants}
LoadsCurrent(u) == \A w \in Workers : Loads(request[w], u) => request[w].grants = grants
Granted(u) == FreshFor(u) /\ LoadsCurrent(u)

(* A step that leaves the permissions alone, gives up no clearing and begins no loading. *)
LEMMA PermissionsKept ==
  ASSUME NEW w \in Workers, NEW u \in Users, Granted(u),
         granted'[u] = granted[u], grants' = grants,
         \A v \in Workers : v # w => request'[v] = request[v],
         OwesClear(request[w]) => OwesClear(request'[w]) \/ granted[u] \in {None, grants},
         Loads(request'[w], u) => request'[w].grants = grants
  PROVE  Granted(u)'
<1>1. LoadsCurrent(u)'
  BY DEF Granted, LoadsCurrent
<1>2. ASSUME \A v \in Workers : ~OwesClear(request'[v])
      PROVE  granted'[u] \in {None, grants'}
  <2>1. \A v \in Workers : v # w => ~OwesClear(request[v])
    BY <1>2
  <2>2. ~OwesClear(request'[w])
    BY <1>2
  <2> QED
    BY <2>1, <2>2 DEF Granted, FreshFor
<1> QED
  BY <1>1, <1>2 DEF Granted, FreshFor

(* A commit that changes what permissions are computed from is followed by a clearing and     *)
(* overlaps nobody who loads them, or is on record.                                        *)
LEMMA CommittedPermissions ==
  ASSUME NEW w \in Workers, NEW round, NEW dropped, NEW cleared,
         CommitRound(w, round, dropped, cleared), NEW u \in Users \ permRaced'
  PROVE  /\ u \notin permRaced
         /\ \/ grants' = grants
            \/ cleared /\ \A v \in Workers : ~Loads(request[v], u)
<1>1. CASE round \in request[w].op.roles
  <2>1. permRaced' = permRaced \cup {x \in Users : ~cleared \/ LoadersOf(x) # {}}
    BY <1>1 DEF CommitRound
  <2>2. cleared /\ LoadersOf(u) = {}
    BY <2>1
  <2> QED
    BY <2>1, <2>2 DEF LoadersOf, Loads
<1>2. CASE round \notin request[w].op.roles
  BY <1>2 DEF CommitRound
<1> QED
  BY <1>1, <1>2

LEMMA PermissionsCommitted ==
  ASSUME NEW w \in Workers, NEW u \in Users, Granted(u),
         granted' = granted,
         \A v \in Workers : v # w => request'[v] = request[v],
         ~Loads(request'[w], u),
         OwesClear(request[w]) => OwesClear(request'[w]),
         \/ grants' = grants
         \/ OwesClear(request'[w]) /\ \A v \in Workers : ~Loads(request[v], u)
  PROVE  Granted(u)'
<1>1. CASE grants' = grants
  BY <1>1, PermissionsKept
<1>2. CASE OwesClear(request'[w]) /\ \A v \in Workers : ~Loads(request[v], u)
  BY <1>2 DEF Granted, FreshFor, LoadsCurrent
<1> QED
  BY <1>1, <1>2

(* Every step keeps the permissions off the record fresh, and computed from current rows.        *)
LEMMA PermissionsStep ==
  ASSUME TypeOK, Control, [Next]_vars, TypeOK', Control',
         \A u \in Users \ permRaced : Granted(u),
         NEW u \in Users \ permRaced'
  PROVE  Granted(u)'
<1> USE DEF database, history
<1>1. CASE UNCHANGED vars
  BY <1>1 DEF vars, Granted, FreshFor, LoadsCurrent, Loads, OwesClear
<1>2. ASSUME NEW w \in Workers, NEW x \in Users, NEW op \in Get \cup Writes, Accept(w, x, op)
      PROVE  Granted(u)'
  <2>1. /\ request'[w] = [pc |-> "permissions", user |-> x, op |-> op, seen |-> version[op.target],
                          grants |-> grants, copy |-> {}, round |-> "first"]
        /\ \A v \in Workers : v # w => request'[v] = request[v]
        /\ request[w] = Idle
        /\ UNCHANGED <<grants, granted, permRaced>>
    BY <1>2 DEF Accept, TypeOK
  <2>2. ~OwesClear(request[w])
    BY <2>1 DEF Idle, OwesClear
  <2>3. Loads(request'[w], u) => request'[w].grants = grants
    BY <2>1 DEF Loads
  <2> QED
    BY <2>1, <2>2, <2>3, PermissionsKept
<1>3. ASSUME NEW w \in Workers,
             QueryList(w) \/ JoinList(w) \/ FetchPermissions(w) \/ CheckList(w) \/ StorePermissions(w)
      PROVE  Granted(u)'
  <2>1. /\ request[w].pc \in Loading
        /\ \A v \in Workers : v # w => request'[v] = request[v]
        /\ request'[w].user = request[w].user /\ request'[w].grants = request[w].grants
        /\ grants' = grants
    BY <1>3, LoadingSteps
  <2>2. ~OwesClear(request[w])
    BY <2>1 DEF OwesClear, Loading
  <2>3. Loads(request'[w], u) => Loads(request[w], u)
    BY <2>1 DEF Loads
  <2>4. u \notin permRaced
    BY <1>3 DEF QueryList, JoinList, FetchPermissions, CheckList, StorePermissions
  <2>5. Granted(u)
    BY <2>4
  <2>6. Loads(request'[w], u) => request'[w].grants = grants
    BY <2>1, <2>3, <2>5 DEF Granted, LoadsCurrent
  <2>7. CASE granted'[u] = granted[u]
    BY <2>1, <2>2, <2>4, <2>5, <2>6, <2>7, PermissionsKept
  <2>8. CASE granted'[u] # granted[u]
    <3>1. StorePermissions(w)
      BY <1>3, <2>8 DEF QueryList, JoinList, FetchPermissions, CheckList
    <3>2. /\ request[w].pc = "set"
          /\ granted' = [granted EXCEPT ![request[w].user] = request[w].grants]
      BY <3>1 DEF StorePermissions
    <3>3. request[w].user = u /\ granted'[u] = request[w].grants
      BY <2>8, <3>2 DEF TypeOK
    <3>4. Loads(request[w], u)
      BY <2>1, <3>3 DEF Loads
    <3>5. granted'[u] = grants
      BY <2>5, <3>3, <3>4 DEF Granted, LoadsCurrent
    <3>6. FreshFor(u)'
      BY <2>1, <3>2, <3>3, <3>5 DEF FreshFor
    <3>7. LoadsCurrent(u)'
      BY <2>1, <2>5, <2>6 DEF Granted, LoadsCurrent
    <3> QED
      BY <3>6, <3>7 DEF Granted
  <2> QED
    BY <2>7, <2>8
<1>4. ASSUME NEW w \in Workers, Lookup(w) \/ Fill(w) \/ Invalidate(w)
      PROVE  Granted(u)'
  <2>1. /\ request[w].pc \in {"lookup", "fill", "invalidate"}
        /\ UNCHANGED <<grants, granted, permRaced>>
        /\ Finish(w) \/ (Goto(w, "fill") /\ request[w].pc # "idle")
    BY <1>4 DEF Lookup, Fill, Invalidate
  <2>2. ~OwesClear(request[w])
    BY <2>1 DEF OwesClear
  <2>3. CASE Finish(w)
    BY <2>1, <2>2, <2>3, FinishRecord, PermissionsKept
  <2>4. CASE Goto(w, "fill")
    <3>1. "fill" \in Reading
      BY DEF Reading
    <3>2. request'[w].pc = "fill" /\ \A v \in Workers : v # w => request'[v] = request[v]
      BY <2>1, <2>4, <3>1, GotoRecord
    <3>3. ~Loads(request'[w], u)
      BY <3>2 DEF Loads, Loading
    <3> QED
      BY <2>1, <2>2, <3>2, <3>3, PermissionsKept
  <2> QED
    BY <2>1, <2>3, <2>4
<1>7. ASSUME NEW w \in Workers, request'[w].pc \in Writing
      PROVE  ~Loads(request'[w], u)
  BY <1>7 DEF Writing, Loads, Loading
<1>8. ASSUME NEW w \in Workers, request[w].pc \in Writing, NEW pc \in Writing, Goto(w, pc)
      PROVE  /\ \A v \in Workers : v # w => request'[v] = request[v]
             /\ request'[w].pc = pc /\ ~Loads(request'[w], u)
             /\ request'[w].op = request[w].op
  <2>1. request[w].pc # "idle"
    BY <1>8 DEF Writing
  <2> QED
    BY <2>1, <1>7, <1>8, GotoRecord
<1>10. ASSUME NEW w \in Workers, Commit(w)
       PROVE  Granted(u)'
  <2> DEFINE op == request[w].op
  <2>1. request[w].pc = "commit" /\ granted' = granted
        /\ "commit" \in Writing /\ "drop" \in Writing
    BY <1>10 DEF Commit, Writing
  <2>2. ~OwesClear(request[w])
    BY <2>1 DEF OwesClear
  <2>3. CASE op.kind = "patch"
    <3>1. Finish(w) /\ \E cleared : cleared = FALSE /\ CommitRound(w, "first", {}, cleared)
      BY <1>10, <2>3 DEF Commit
    <3>2. PICK cleared : cleared = FALSE /\ CommitRound(w, "first", {}, cleared)
      BY <3>1
    <3>3. u \notin permRaced /\ (grants' = grants \/ cleared)
      BY <3>2, CommittedPermissions
    <3> QED
      BY <2>1, <2>2, <3>1, <3>2, <3>3, FinishRecord, PermissionsCommitted
  <2>4. CASE op.kind # "patch"
    <3>1. Goto(w, "drop") /\ \E dropped, cleared : CommitRound(w, "first", dropped, cleared)
      BY <1>10, <2>4 DEF Commit
    <3>2. u \notin permRaced
          /\ (grants' = grants \/ \A v \in Workers : ~Loads(request[v], u))
      BY <3>1, CommittedPermissions
    <3>3. /\ \A v \in Workers : v # w => request'[v] = request[v]
          /\ request'[w].pc = "drop" /\ ~Loads(request'[w], u)
      BY <2>1, <3>1, <1>8
    <3>4. OwesClear(request'[w])
      BY <3>3 DEF OwesClear
    <3> QED
      BY <2>1, <2>2, <3>2, <3>3, <3>4, PermissionsCommitted
  <2> QED
    BY <2>3, <2>4
<1>11. ASSUME NEW w \in Workers, Drop(w)
       PROVE  Granted(u)'
  <2>1. /\ request[w].pc = "drop" /\ UNCHANGED <<grants, granted, permRaced>>
        /\ "drop" \in Writing /\ "list" \in Writing /\ Goto(w, "list")
    BY <1>11 DEF Drop, Writing
  <2>2. /\ \A v \in Workers : v # w => request'[v] = request[v]
        /\ request'[w].pc = "list" /\ ~Loads(request'[w], u)
    BY <2>1, <1>8
  <2>3. OwesClear(request'[w])
    BY <2>2 DEF OwesClear
  <2> QED
    BY <2>1, <2>2, <2>3, PermissionsKept
<1>12. ASSUME NEW w \in Workers, ReadList(w)
       PROVE  Granted(u)'
  <2>1. /\ request[w].pc = "list" /\ UNCHANGED <<grants, granted, permRaced>>
        /\ request' = [request EXCEPT ![w] = [request[w] EXCEPT !.pc = "clear", !.copy = listed]]
    BY <1>12 DEF ReadList, TypeOK
  <2>2. request[w] \in Active
    BY <2>1, ActiveRecord
  <2>3. /\ \A v \in Workers : v # w => request'[v] = request[v]
        /\ request'[w] = [request[w] EXCEPT !.pc = "clear", !.copy = listed]
    BY <2>1 DEF TypeOK
  <2>4. request'[w].pc = "clear"
    BY <2>2, <2>3 DEF Active
  <2>5. OwesClear(request'[w]) /\ ~Loads(request'[w], u)
    BY <2>4 DEF OwesClear, Loads, Loading
  <2> QED
    BY <2>1, <2>3, <2>5, PermissionsKept
<1>13. ASSUME NEW w \in Workers, ClearPermissions(w)
       PROVE  Granted(u)'
  <2> DEFINE copy == request[w].copy
             settled == {x \in copy : \A v \in LoadersOf(x) : request[v].grants = grants}
  <2>1. /\ request[w].pc = "clear" /\ grants' = grants
        /\ {"clear", "handlers", "invalidate"} \subseteq Writing
        /\ Goto(w, "handlers") \/ Goto(w, "invalidate")
        /\ granted' = [x \in Users |-> IF x \in copy THEN None ELSE granted[x]]
        /\ permRaced' = (permRaced \ settled) \cup {x \in Users \ copy : granted[x] # None}
    BY <1>13 DEF ClearPermissions, Writing
  <2>2. /\ \A v \in Workers : v # w => request'[v] = request[v]
        /\ ~Loads(request'[w], u)
    BY <2>1, <1>8
  <2>3. granted'[u] = None
    BY <2>1
  <2>4. \A v \in Workers : Loads(request[v], u) => request[v].grants = grants
    <3>1. CASE u \in permRaced
      BY <2>1, <3>1 DEF LoadersOf, Loads
    <3>2. CASE u \notin permRaced
      BY <3>2 DEF Granted, LoadsCurrent
    <3> QED
      BY <3>1, <3>2
  <2> QED
    BY <2>1, <2>2, <2>3, <2>4 DEF Granted, FreshFor, LoadsCurrent
<1>14. ASSUME NEW w \in Workers, Handlers(w)
       PROVE  Granted(u)'
  <2> DEFINE op == request[w].op
  <2>1. /\ request[w].pc = "handlers" /\ {"handlers", "last"} \subseteq Writing
        /\ granted' = granted
    BY <1>14 DEF Handlers, Writing
  <2>2. OwesClear(request[w]) <=> op.kind = "put"
    BY <2>1 DEF OwesClear
  <2>3. /\ \A v \in Workers : v # w => request'[v] = request[v]
        /\ ~Loads(request'[w], u)
        /\ OwesClear(request'[w]) <=> op.kind = "put"
    <3>1. CASE op.kind = "delete"
      BY <1>14, <3>1, FinishRecord DEF Handlers
    <3>2. CASE op.kind # "delete"
      <4>1. Goto(w, "last")
        BY <1>14, <3>2 DEF Handlers
      <4>2. /\ \A v \in Workers : v # w => request'[v] = request[v]
            /\ request'[w].pc = "last" /\ ~Loads(request'[w], u)
            /\ request'[w].op = op
        BY <2>1, <4>1, <1>8
      <4> QED
        BY <4>2 DEF OwesClear
    <3> QED
      BY <3>1, <3>2
  <2>4. CASE op.own
    <3>1. \E dropped : CommitRound(w, "after", dropped, op.kind = "put")
      BY <1>14, <2>4 DEF Handlers
    <3>2. u \notin permRaced
          /\ \/ grants' = grants
             \/ op.kind = "put" /\ \A v \in Workers : ~Loads(request[v], u)
      BY <3>1, CommittedPermissions
    <3> QED
      BY <2>1, <2>2, <2>3, <3>2, PermissionsCommitted
  <2>5. CASE ~op.own
    <3>1. UNCHANGED <<grants, permRaced>>
      BY <1>14, <2>5 DEF Handlers
    <3> QED
      BY <2>1, <2>2, <2>3, <3>1, PermissionsCommitted
  <2> QED
    BY <2>4, <2>5
<1>15. ASSUME NEW w \in Workers, LastCommit(w)
       PROVE  Granted(u)'
  <2> DEFINE op == request[w].op
  <2>1. request[w].pc = "last" /\ granted' = granted /\ request[w] \in Active
    BY <1>15, ActiveRecord DEF LastCommit
  <2>2. OwesClear(request[w]) <=> op.kind = "put"
    BY <2>1 DEF OwesClear
  <2>3. /\ \A v \in Workers : v # w => request'[v] = request[v]
        /\ ~Loads(request'[w], u)
        /\ OwesClear(request'[w]) <=> op.kind = "put"
    <3>1. CASE op.kind = "put"
      <4>1. request' = [request EXCEPT ![w] = [request[w] EXCEPT !.pc = "drop", !.round = "after"]]
        BY <1>15, <3>1 DEF LastCommit, TypeOK
      <4>2. /\ \A v \in Workers : v # w => request'[v] = request[v]
            /\ request'[w] = [request[w] EXCEPT !.pc = "drop", !.round = "after"]
        BY <4>1 DEF TypeOK
      <4>3. request'[w].pc = "drop"
        BY <2>1, <4>2 DEF Active
      <4> QED
        BY <3>1, <4>2, <4>3 DEF OwesClear, Loads, Loading
    <3>2. CASE op.kind # "put"
      BY <1>15, <3>2, FinishRecord DEF LastCommit
    <3> QED
      BY <3>1, <3>2
  <2>4. CASE ~op.own
    <3>1. \E dropped : CommitRound(w, "after", dropped, op.kind = "put")
      BY <1>15, <2>4 DEF LastCommit
    <3>2. u \notin permRaced
          /\ \/ grants' = grants
             \/ op.kind = "put" /\ \A v \in Workers : ~Loads(request[v], u)
      BY <3>1, CommittedPermissions
    <3> QED
      BY <2>1, <2>2, <2>3, <3>2, PermissionsCommitted
  <2>5. CASE op.own
    <3>1. UNCHANGED <<grants, permRaced>>
      BY <1>15, <2>5 DEF LastCommit
    <3> QED
      BY <2>1, <2>2, <2>3, <3>1, PermissionsCommitted
  <2> QED
    BY <2>4, <2>5
<1>16. ASSUME NEW w \in Workers, Die(w)
       PROVE  Granted(u)'
  <2>1. /\ UNCHANGED <<grants, granted>> /\ Finish(w)
        /\ permRaced' = permRaced \cup
             {x \in Users : OwesClear(request[w]) /\ granted[x] \notin {None, grants}}
    BY <1>16 DEF Die
  <2>2. u \notin permRaced /\ (OwesClear(request[w]) => granted[u] \in {None, grants})
    BY <2>1
  <2> QED
    BY <2>1, <2>2, FinishRecord, PermissionsKept
<1> QED
  BY <1>1, <1>2, <1>3, <1>4, <1>10, <1>11, <1>12, <1>13, <1>14, <1>15, <1>16 DEF Next

(* Permissions: what the cache holds for a user off the record is what the database says, or is     *)
(* about to be cleared.                                                                           *)
THEOREM FreshPermissionsAlways == Spec => []FreshPermissions
<1> DEFINE PermissionsInv == \A u \in Users \ permRaced : Granted(u)
<1>1. Init => PermissionsInv
  BY DEF Init, Granted, FreshFor, LoadsCurrent, Loads, Idle, Loading
<1>2. TypeOK /\ Control /\ TypeOK' /\ Control' /\ PermissionsInv /\ [Next]_vars => PermissionsInv'
  BY PermissionsStep
<1>3. PermissionsInv => FreshPermissions
  BY DEF Granted, FreshFor, FreshPermissions
<1> HIDE DEF PermissionsInv
<1> QED
  BY <1>1, <1>2, <1>3, TypeCorrect, ControlCorrect, PTL DEF Spec
=============================================================================
