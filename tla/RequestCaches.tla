----------------------------- MODULE RequestCaches -----------------------------
(****************************************************************************)
(* The two caches that the requests of the web application share through    *)
(* memcache, and the requests that fill and clear them:                     *)
(*                                                                          *)
(*   objects      the JSON of an object, added by a collection GET and       *)
(*                deleted by the keys of what a request changed;             *)
(*   permissions  what a user may do, kept under one key per user, with the  *)
(*                set of these keys under the key 'permissions:list' so that *)
(*                clear_permission_cache can delete them all.                *)
(*                                                                          *)
(* A step is one access to memcache or one commit.  What a request reads     *)
(* from the database comes from the snapshot its transaction took when the    *)
(* user was looked up, before its first access to memcache.  Version numbers *)
(* stand for the contents of the rows: one for each object, and one for all   *)
(* that permissions are computed from.  The 'DeleteOp:' entries are left      *)
(* out: nothing in the code reads them.                                       *)
(****************************************************************************)
EXTENDS Integers, FiniteSets

CONSTANTS
  Workers,    \* requests in service at the same time
  Users,      \* the users who send them
  Objects,    \* objects that exist throughout and can be cached
  Supported,  \* those whose class name is in cache_manager.supported_classes
  Related,    \* the objects that the mappings of an object's class lead to
  Writes,     \* the writing requests the clients send
  MaxServed,  \* bound: requests ever accepted
  Failures    \* may a worker be killed in the middle of a request?

Rounds == {"first", "after"}

(* A writing request: the object a PUT is sent to, the objects changed in    *)
(* its own transaction and those changed by its after-commit handlers, which  *)
(* of the two change what permissions are computed from, whether the handlers *)
(* commit by themselves as handle_cycle_object_status does, and the objects   *)
(* that the JSON of a POST refers to (one of each class).                     *)
Write == [kind : {"put", "post", "delete", "patch"}, target : Objects,
          changes : [Rounds -> SUBSET Objects], roles : SUBSET Rounds,
          own : BOOLEAN, refs : SUBSET Objects]
Get == [kind : {"get"}, target : Objects]

ASSUME CachesAssumption ==
  /\ Supported \subseteq Objects
  /\ Related \in [Objects -> SUBSET Objects]
  /\ Writes \subseteq Write
  /\ MaxServed \in Nat
  /\ Failures \in BOOLEAN

VARIABLES
  version,    \* the committed version of each object
  grants,     \* the committed version of what permissions are computed from
  entry,      \* memcache: the cached version of each object, or None
  listed,     \* memcache: 'permissions:list'
  granted,    \* memcache: the version each user's permissions have, or None
  request,    \* what each worker is doing
  served,     \* requests accepted so far
  raced,      \* history: objects whose entry a known race may have spoiled
  permRaced   \* history: users whose permissions a known race may have spoiled

vars == <<version, grants, entry, listed, granted, request, served, raced, permRaced>>
database == <<version, grants>>
history == <<raced, permRaced>>

None == -1
Idle == [pc |-> "idle"]

Loading == {"permissions", "join", "fetch", "store", "set"}
Reading == Loading \cup {"lookup", "fill"}
Writing == {"commit", "drop", "list", "clear", "handlers", "last", "invalidate"}

Active == [pc : Reading \cup Writing, user : Users, op : Get \cup Writes,
           seen : Nat, grants : Nat, copy : SUBSET Users, round : Rounds]

TypeOK ==
  /\ version \in [Objects -> Nat]
  /\ grants \in Nat
  /\ entry \in [Objects -> Nat \cup {None}]
  /\ listed \subseteq Users
  /\ granted \in [Users -> Nat \cup {None}]
  /\ request \in [Workers -> Active \cup {Idle}]
  /\ served \in Nat
  /\ raced \subseteq Objects
  /\ permRaced \subseteq Users

-----------------------------------------------------------------------------
(* Which entries a request deletes.                                          *)

(* memcache_mark_for_deletion: the keys of the changed objects of supported   *)
(* classes and of the objects their mappings lead to.                         *)
Marks(objects) ==
  LET known == objects \cap Supported
  IN  known \cup UNION {Related[o] : o \in known}

(* The keys deleted after the commit of a round: get_modified_objects finds   *)
(* nothing in the second round when the handlers committed by themselves,     *)
(* because every commit of the session clears its record of changes.          *)
Keys(op, round) ==
  IF op.kind = "post" /\ round = "first" THEN Marks(op.changes[round] \cup op.refs)
  ELSE IF round = "after" /\ op.own THEN {}
  ELSE Marks(op.changes[round])

(* What the rest of a request, after the drop of this round, still deletes.   *)
StillToDrop(op, round) ==
  IF op.kind # "put" THEN {}
  ELSE {op.target} \cup (IF round = "first" THEN Keys(op, "after") ELSE {})

(* The objects whose entry a request in service is going to delete.           *)
Owed(r) ==
  CASE r.pc = "drop" -> Keys(r.op, r.round) \cup StillToDrop(r.op, r.round)
    [] r.pc \in {"list", "clear", "handlers", "last", "invalidate"} ->
         StillToDrop(r.op, r.round)
    [] OTHER -> {}

(* A request in service is going to clear the permission cache.               *)
OwesClear(r) ==
  \/ r.pc \in {"drop", "list", "clear"}
  \/ r.pc \in {"handlers", "last"} /\ r.op.kind = "put"

Goto(w, pc) == request' = [request EXCEPT ![w].pc = pc]
Finish(w) == request' = [request EXCEPT ![w] = Idle]
Proceed(w) == Goto(w, IF request[w].op.kind = "get" THEN "lookup" ELSE "commit")

-----------------------------------------------------------------------------
Init ==
  /\ version = [o \in Objects |-> 0]
  /\ grants = 0
  /\ entry = [o \in Objects |-> None]
  /\ listed = {}
  /\ granted = [u \in Users |-> None]
  /\ request = [w \in Workers |-> Idle]
  /\ served = 0
  /\ raced = {}
  /\ permRaced = {}

(* A request arrives; looking its user up starts the transaction. *)
Accept(w, u, op) ==
  /\ request[w] = Idle
  /\ served < MaxServed
  /\ served' = served + 1
  /\ request' = [request EXCEPT ![w] =
       [pc |-> "permissions", user |-> u, op |-> op, seen |-> version[op.target],
        grants |-> grants, copy |-> {}, round |-> "first"]]
  /\ UNCHANGED <<database, entry, listed, granted, history>>

(* Mutant: the key is made from the wrong object. *)
QueryListForObject(w) ==
  /\ request[w].pc = "permissions"
  /\ request' = [request EXCEPT ![w].pc = "join", ![w].copy = listed \cup {request[w].op.target}]
  /\ UNCHANGED <<database, entry, listed, granted, served, history>>

(* query_memcache reads the list ... *)
QueryList(w) ==
  /\ request[w].pc = "permissions"
  /\ IF request[w].user \in listed
     THEN Goto(w, "fetch")
     ELSE request' = [request EXCEPT ![w].pc = "join",
                        ![w].copy = listed \cup {request[w].user}]
  /\ UNCHANGED <<database, entry, listed, granted, served, history>>

(* ... and writes it back with the user's key.  Another request may have      *)
(* written the list in between: what it added is lost.                        *)
JoinList(w) ==
  /\ request[w].pc = "join"
  /\ listed' = request[w].copy
  /\ Goto(w, "store")
  /\ UNCHANGED <<database, entry, granted, served, history>>

(* The permissions are in memcache, or they must be computed. *)
FetchPermissions(w) ==
  /\ request[w].pc = "fetch"
  /\ IF granted[request[w].user] # None THEN Proceed(w) ELSE Goto(w, "store")
  /\ UNCHANGED <<database, entry, listed, granted, served, history>>

(* store_results_into_memcache reads the list again ... *)
CheckList(w) ==
  /\ request[w].pc = "store"
  /\ IF request[w].user \in listed THEN Goto(w, "set") ELSE Proceed(w)
  /\ UNCHANGED <<database, entry, listed, granted, served, history>>

(* ... and stores what it computed; the list may be gone by now.              *)
StorePermissions(w) ==
  LET u == request[w].user IN
  /\ request[w].pc = "set"
  /\ granted' = [granted EXCEPT ![u] = request[w].grants]
  /\ Proceed(w)
  /\ UNCHANGED <<database, entry, listed, served, history>>

-----------------------------------------------------------------------------
(* A collection GET. *)

(* get_resources_from_cache *)
Lookup(w) ==
  /\ request[w].pc = "lookup"
  /\ IF entry[request[w].op.target] # None THEN Finish(w) ELSE Goto(w, "fill")
  /\ UNCHANGED <<database, entry, listed, granted, served, history>>

(* get_resources_from_database, from the snapshot, and add_resources_to_cache: *)
(* memcache's add keeps an entry that is there already.                        *)
Fill(w) ==
  LET o == request[w].op.target IN
  /\ request[w].pc = "fill"
  /\ entry' = IF entry[o] = None THEN [entry EXCEPT ![o] = request[w].seen] ELSE entry
  /\ Finish(w)
  /\ UNCHANGED <<database, listed, granted, served, history>>

-----------------------------------------------------------------------------
(* A writing request. *)

(* Other requests that read an object, or what permissions are computed from,  *)
(* in an older snapshot and may still store what they read.                    *)
ReadersOf(o) == {w \in Workers : /\ request[w].pc \in Reading
                                 /\ request[w].op.kind = "get"
                                 /\ request[w].op.target = o}
LoadersOf(u) == {w \in Workers : request[w].pc \in Loading /\ request[w].user = u}

(* The commit of what a round changed.  "dropped" and "cleared" say what the    *)
(* request still does to memcache afterwards: a change that no deletion follows, *)
(* and one that overlaps a reader, go on record.                                *)
CommitRound(w, round, dropped, cleared) ==
  LET op == request[w].op
      changed == op.changes[round]
  IN  /\ version' = [o \in Objects |-> IF o \in changed THEN version[o] + 1 ELSE version[o]]
      /\ raced' = raced \cup {o \in changed : o \notin dropped \/ ReadersOf(o) # {}}
      /\ IF round \in op.roles
         THEN /\ grants' = grants + 1
              /\ permRaced' = permRaced \cup {u \in Users : ~cleared \/ LoadersOf(u) # {}}
         ELSE UNCHANGED <<grants, permRaced>>

(* The first commit.  A PATCH leaves memcache alone.                            *)
Commit(w) ==
  LET op == request[w].op
      quiet == op.kind = "patch"
  IN  /\ request[w].pc = "commit"
      /\ CommitRound(w, "first",
                     IF quiet THEN {} ELSE Keys(op, "first") \cup StillToDrop(op, "first"),
                     ~quiet)
      /\ IF quiet THEN Finish(w) ELSE Goto(w, "drop")
      /\ UNCHANGED <<entry, listed, granted, served>>

(* Once an entry is deleted and every reader has the current version, the past  *)
(* of the object does not matter any more.                                      *)
Delete(objects) ==
  /\ entry' = [o \in Objects |-> IF o \in objects THEN None ELSE entry[o]]
  /\ raced' = raced \ {o \in objects : \A w \in ReadersOf(o) : request[w].seen = version[o]}

(* Mutants: only the first round deletes keys; the permissions are not cleared.   *)
DropOnce(w) ==
  /\ request[w].pc = "drop"
  /\ Delete(IF request[w].round = "first" THEN Keys(request[w].op, "first") ELSE {})
  /\ Goto(w, "list")
  /\ UNCHANGED <<database, listed, granted, served, permRaced>>
DropWithoutClear(w) ==
  /\ request[w].pc = "drop"
  /\ Delete(Keys(request[w].op, request[w].round))
  /\ Goto(w, IF request[w].round = "first" THEN "handlers" ELSE "invalidate")
  /\ UNCHANGED <<database, listed, granted, served, permRaced>>

(* update_memcache_after_commit deletes the marked keys ... *)
Drop(w) ==
  /\ request[w].pc = "drop"
  /\ Delete(Keys(request[w].op, request[w].round))
  /\ Goto(w, "list")
  /\ UNCHANGED <<database, listed, granted, served, permRaced>>

(* ... and clear_permission_cache reads the list of permission keys ... *)
ReadList(w) ==
  /\ request[w].pc = "list"
  /\ request' = [request EXCEPT ![w].pc = "clear", ![w].copy = listed]
  /\ UNCHANGED <<database, entry, listed, granted, served, history>>

(* ... and deletes them and the list: all it knows of.  Permissions that are in  *)
(* memcache without being on the list it read stay, and go on record.  The        *)
(* session's handlers come next after the first round.                           *)
ClearPermissions(w) ==
  LET r == request[w]
      settled == {u \in r.copy : \A v \in LoadersOf(u) : request[v].grants = grants}
  IN  /\ r.pc = "clear"
      /\ listed' = {}
      /\ granted' = [u \in Users |-> IF u \in r.copy THEN None ELSE granted[u]]
      /\ permRaced' = (permRaced \ settled) \cup {u \in Users \ r.copy : granted[u] # None}
      /\ Goto(w, IF r.round = "first" THEN "handlers" ELSE "invalidate")
      /\ UNCHANGED <<database, entry, served, raced>>

(* The after-commit handlers; those of a cycle task end in a commit of their own. *)
Handlers(w) ==
  LET op == request[w].op IN
  /\ request[w].pc = "handlers"
  /\ IF op.own
     THEN CommitRound(w, "after", StillToDrop(op, "first"), op.kind = "put")
     ELSE UNCHANGED <<database, history>>
  /\ IF op.kind = "delete" THEN Finish(w) ELSE Goto(w, "last")
  /\ UNCHANGED <<entry, listed, granted, served>>

(* The second commit: a PUT drops and clears once more, a POST does not.        *)
LastCommit(w) ==
  LET op == request[w].op
      put == op.kind = "put"
  IN  /\ request[w].pc = "last"
      /\ IF op.own
         THEN UNCHANGED <<database, history>>
         ELSE CommitRound(w, "after", StillToDrop(op, "first"), put)
      /\ IF put
         THEN request' = [request EXCEPT ![w].pc = "drop", ![w].round = "after"]
         ELSE Finish(w)
      /\ UNCHANGED <<entry, listed, granted, served>>

(* invalidate_cache_to *)
Invalidate(w) ==
  /\ request[w].pc = "invalidate"
  /\ Delete({request[w].op.target})
  /\ Finish(w)
  /\ UNCHANGED <<database, listed, granted, served, permRaced>>

(* The worker is killed: what it owed to memcache is never done.               *)
Die(w) ==
  LET r == request[w] IN
  /\ Failures
  /\ r # Idle
  /\ raced' = raced \cup {o \in Owed(r) : entry[o] \notin {None, version[o]}}
  /\ permRaced' = permRaced \cup
       {u \in Users : OwesClear(r) /\ granted[u] \notin {None, grants}}
  /\ Finish(w)
  /\ UNCHANGED <<database, entry, listed, granted, served>>

Next == \E w \in Workers :
  \/ \E u \in Users, op \in Get \cup Writes : Accept(w, u, op)
  \/ QueryList(w) \/ JoinList(w) \/ FetchPermissions(w)
  \/ CheckList(w) \/ StorePermissions(w)
  \/ Lookup(w) \/ Fill(w)
  \/ Commit(w) \/ Drop(w) \/ ReadList(w) \/ ClearPermissions(w)
  \/ Handlers(w) \/ LastCommit(w) \/ Invalidate(w)
  \/ Die(w)

Spec == Init /\ [][Next]_vars

-----------------------------------------------------------------------------
(* Properties. *)

(* A cached object is current whenever no request in service is about to delete *)
(* it, unless one of three things went before: a GET that overlapped a commit    *)
(* put its older row there, no deletion followed the commit (a PATCH, the         *)
(* second commit of a POST, handlers that commit by themselves, a class that      *)
(* cache.py does not name), or the worker died.  Every other schedule of gets,     *)
(* adds, commits and deletions leaves the cache right.                             *)
FreshEntries ==
  \A o \in Objects \ raced :
    (\A w \in Workers : o \notin Owed(request[w])) => entry[o] \in {None, version[o]}

(* The permissions in memcache are current whenever no request is about to clear  *)
(* them, unless they were computed across a commit, or a clear did not find the     *)
(* user on the list it read: a lost key, a store after the list was gone, a key that *)
(* came between the two halves of the clear do no harm before that.                 *)
FreshPermissions ==
  \A u \in Users \ permRaced :
    (\A w \in Workers : ~OwesClear(request[w])) => granted[u] \in {None, grants}

(* The comment in query_memcache: "If the key is both in permissions:list and in  *)
(* memcache itself it is safe to return the cached permissions", so they must be    *)
(* current unless the commit's request is still about to clear them.               *)
SafeToReturn ==
  \A u \in listed :
    (\A w \in Workers : ~OwesClear(request[w])) => granted[u] \in {None, grants}
=============================================================================
