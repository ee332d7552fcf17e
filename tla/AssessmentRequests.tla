--------------------------- MODULE AssessmentRequests ---------------------------
(****************************************************************************)
(* Requests on one assessment: PUTs guarded by If-Match, mappings of         *)
(* documents, snapshots, comments and people, changes of mapped documents;    *)
(* the notifications they leave; and the nightly digest that mails them.       *)
(*                                                                          *)
(* A request reads everything it decides from when it starts (REPEATABLE      *)
(* READ) and writes, at its commit, the columns it changed; the deletion of    *)
(* notifications works on the rows of the commit.                             *)
(****************************************************************************)
EXTENDS AssessmentStatus

CONSTANTS
  Workers,     \* requests in service at the same time
  Operations,  \* what the clients ask for
  StartRows,   \* what earlier requests, all mailed by now, may have left
  MaxAccepted  \* bound: requests ever accepted

(* A PUT sets the status or keeps it ("same") and edits one kind of attribute  *)
(* or none; a mapping is added or removed; a mapped document is changed or      *)
(* deleted.  "complete" says that no mandatory piece is missing afterwards,      *)
(* where the change can make a difference.                                      *)
Operation ==
  [kind : {"put"}, status : Statuses \cup {"same"},
   change : {"none", "attribute", "label"}, complete : BOOLEAN]
  \cup [kind : {"put"}, status : {"same"}, change : {"local", "global"}, complete : BOOLEAN]
  \cup [kind : {"relationship"}, status : {"same"},
        change : {"attachment", "reference", "snapshot", "comment", "person"},
        complete : BOOLEAN]
  \cup [kind : {"document"}, status : {"same"}, change : {"attachment", "reference"},
        complete : BOOLEAN]

Mandatory == {"local", "global", "attachment", "comment"}

ASSUME AssessmentAssumption ==
  /\ IsFiniteSet(Workers)
  /\ Operations \subseteq Operation
  /\ StartRows \subseteq Row
  /\ \A r \in StartRows : /\ r.status # "Deprecated"
                          /\ r.finished <=> r.status \in Done
                          /\ r.verified => r.status \in Done
                          /\ r.status \in Done => r.evidence
  /\ MaxAccepted \in Nat

VARIABLES
  row,       \* the committed row, and whether all mandatory pieces are there
  stamp,     \* its updated_at, of which the ETag is made: the seconds in which it
             \* was written, counted
  edition,   \* how many commits wrote the row (history)
  page,      \* what the client read: the ETag and the edition of the row
  request,   \* what each worker is doing
  accepted,  \* requests accepted so far
  notices,   \* the table of notifications; a row is known by who added it
  digest,    \* the nightly job
  news,      \* history: a change asked for a notification and was not mailed
  unsure,    \* history: the dates may not follow the status
  late       \* history: a row was touched that the digest had already read

assessment == <<row, stamp, edition>>
history == <<news, unsure, late>>
vars == <<assessment, page, request, accepted, notices, digest, history>>

Key == Nat \X Types
Notice == [key : Key, sent : BOOLEAN]
Page == [stamp : Nat, edition : Nat]
Idle == [pc |-> "idle"]
Open == [pc : {"open"}, op : Operations, loaded : Row, edition : Nat, seen : Nat,
         stale : BOOLEAN,
         new : Row, effect : Effect, touched : SUBSET Key]

TypeOK ==
  /\ row \in Row
  /\ stamp \in Nat /\ edition \in Nat
  /\ page \in Page
  /\ request \in [Workers -> Open \cup {Idle}]
  /\ accepted \in Nat
  /\ notices \subseteq Notice
  /\ digest \in [pc : {"idle", "mail", "mark"}, list : SUBSET Key, news : BOOLEAN]
  /\ {news, unsure, late} \subseteq BOOLEAN

Keys == {n.key : n \in notices}
Unsent == {n.key : n \in {m \in notices : ~m.sent}}
UnsentTypes == {k[2] : k \in Unsent}

NoDigest == [pc |-> "idle", list |-> {}, news |-> FALSE]

Init ==
  /\ row \in StartRows
  /\ stamp = 0 /\ edition = 0
  /\ page = [stamp |-> 0, edition |-> 0]
  /\ request = [w \in Workers |-> Idle]
  /\ accepted = 0
  /\ notices = {}
  /\ digest = NoDigest
  /\ news = FALSE /\ unsure = FALSE /\ late = FALSE

(* The client reads the assessment with its ETag. *)
ReadPage ==
  /\ page' = [stamp |-> stamp, edition |-> edition]
  /\ page' # page
  /\ UNCHANGED <<assessment, request, accepted, notices, digest, history>>

-----------------------------------------------------------------------------
(* A request starts: it reads, validates and decides.  One that is refused      *)
(* changes nothing and is left out.                                             *)
Accept(w, op, new, effect) ==
  /\ request[w] = Idle
  /\ accepted < MaxAccepted
  /\ accepted' = accepted + 1
  /\ request' = [request EXCEPT ![w] =
       [pc |-> "open", op |-> op, loaded |-> row, edition |-> edition,
        seen |-> page.edition, stale |-> FALSE, effect |-> effect,
        new |-> IF op.change \in Mandatory THEN [new EXCEPT !.evidence = op.complete] ELSE new,
        touched |-> IF effect.touches THEN {k \in Unsent : k[2] = "updated"} ELSE {}]]
  /\ UNCHANGED <<assessment, page, notices, digest, history>>

(* put: the headers, the validators, the handlers of model_put, and the flush     *)
(* that resets the status.                                                       *)
Put(w, op) ==
  LET set == IF op.status = "same" THEN row ELSE SetStatus(row, op.status)
  IN  /\ op.kind = "put"
      /\ page.stamp = stamp
      /\ op.status = "same" \/ ~Refused(row, op.status)
      /\ Accept(w, op, ResetStatus(set, op.change),
                ModifiedEffect(row.status, set.status, op.change # "none", UnsentTypes))

(* The POST or DELETE of a relationship of the assessment. *)
Relate(w, op) ==
  /\ op.kind = "relationship"
  /\ Accept(w, op, ResetStatus(row, op.change),
            RelatedEffect(row.status, op.change, UnsentTypes))

(* The PUT or DELETE of a mapped document, of which no notification is made.       *)
ChangeDocument(w, op) ==
  /\ op.kind = "document"
  /\ Accept(w, op, ResetStatus(row, op.change), Silence)

(* A row that the request touched and that is gone at the flush, deleted by         *)
(* another request or by itself, fails the request (StaleDataError).                *)
Doomed(r) == r.touched # {} /\ (r.effect.deletes \/ ~(r.touched \subseteq Keys))

(* A primary key that no row has and nobody remembers. *)
NewId ==
  LET used == Keys \cup digest.list
                \cup UNION {request[w].touched : w \in {v \in Workers : request[v].pc = "open"}}
  IN  CHOOSE n \in 0 .. Cardinality(used) : \A k \in used : k[1] # n

(* The columns whose value the request changed. *)
Written(r) ==
  LET value(new, loaded, current) == IF new # loaded THEN new ELSE current
  IN  [status |-> value(r.new.status, r.loaded.status, row.status),
       finished |-> value(r.new.finished, r.loaded.finished, row.finished),
       verified |-> value(r.new.verified, r.loaded.verified, row.verified),
       evidence |-> value(r.new.evidence, r.loaded.evidence, row.evidence)]

(* A decision on the current row that moves it between the undone and the done  *)
(* states sets the dates right whatever they were; one on an older row, a        *)
(* detour through "Deprecated" and the loss of a mandatory comment may not.      *)
Settles(r) ==
  \/ r.loaded.status \in NotDone /\ r.new.status \in Done
  \/ r.loaded.status \in Done /\ r.new.status \in NotDone
Unsettles(r) ==
  \/ r.new.status = "Deprecated"
  \/ r.op.change = "comment" /\ r.new.status \in Done /\ ~r.new.evidence

Commit(w) ==
  LET r == request[w]
      changes == r.op.kind = "put" \/ r.new # r.loaded
      writes == r.op.kind = "put" \/ \E c \in {"status", "finished", "verified"} :
                                       r.new[c] # r.loaded[c]
      tells == r.effect.adds # {} \/ r.touched # {}
      added == {[key |-> <<NewId, t>>, sent |-> FALSE] : t \in r.effect.adds}
  IN  /\ r.pc = "open"
      /\ ~Doomed(r)
      /\ row' = Written(r)
      /\ \/ writes /\ stamp' = stamp + 1
         \/ stamp' = stamp    \* within the second of the last write, or no write at all
      /\ edition' = IF writes THEN edition + 1 ELSE edition
      /\ notices' = (IF r.effect.deletes THEN {} ELSE notices) \cup added
      /\ digest' = [digest EXCEPT !.news = @ \/ (digest.pc # "idle" /\ tells)]
      /\ news' = (news \/ tells)
      /\ unsure' = \/ r.stale /\ changes
                   \/ (unsure \/ Unsettles(r)) /\ ~Settles(r)
      /\ late' = (late \/ \E n \in notices :
                            n.key \in r.touched /\ (n.sent \/ n.key \in digest.list))
      /\ request' = [v \in Workers |->
           CASE v = w -> Idle
             [] v # w /\ request[v].pc = "open" /\ changes -> [request[v] EXCEPT !.stale = TRUE]
             [] OTHER -> request[v]]
      /\ UNCHANGED <<page, accepted>>

(* The request fails at its flush: nothing is kept.  A worker that is killed before  *)
(* its commit leaves what it would have left by not being asked.                    *)
Abort(w) ==
  /\ request[w].pc = "open"
  /\ Doomed(request[w])
  /\ request' = [request EXCEPT ![w] = Idle]
  /\ UNCHANGED <<assessment, page, accepted, notices, digest, history>>

-----------------------------------------------------------------------------
(* The nightly digest, send_daily_digest_notifications.                        *)

(* get_daily_notifications: the rows to send, and what the mails say of them.   *)
ReadDigest ==
  /\ digest.pc = "idle"
  /\ Unsent # {}
  /\ digest' = [pc |-> "mail", list |-> Unsent, news |-> FALSE]
  /\ UNCHANGED <<assessment, page, request, accepted, notices, history>>

(* All mails go out ...                                                         *)
SendMails ==
  /\ digest.pc = "mail"
  /\ digest' = [digest EXCEPT !.pc = "mark"]
  /\ UNCHANGED <<assessment, page, request, accepted, notices, history>>

(* ... or one fails: the job ends, and the next night finds the same rows.       *)
MailFails ==
  /\ digest.pc = "mail"
  /\ digest' = NoDigest
  /\ UNCHANGED <<assessment, page, request, accepted, notices, history>>

(* set_notification_sent_time: one commit for all rows, which fails when one of   *)
(* them was deleted since.  Rows that are sent matter no more, unless an open       *)
(* request is about to touch them.                                                *)
InUse(key) == \E w \in Workers : request[w].pc = "open" /\ key \in request[w].touched

(* Mutants: whatever is unsent is marked; a commit that fails is tried for ever.   *)
MarkAllSent ==
  /\ digest.pc = "mark"
  /\ digest' = NoDigest
  /\ notices' = {[n EXCEPT !.sent = TRUE] : n \in {m \in notices : InUse(m.key)}}
  /\ news' = digest.news
  /\ UNCHANGED <<assessment, page, request, accepted, unsure, late>>
MarkSentStuck ==
  /\ digest.pc = "mark"
  /\ digest.list \subseteq Keys
  /\ digest' = NoDigest
  /\ notices' = {[n EXCEPT !.sent = @ \/ n.key \in digest.list] :
                   n \in {m \in notices : m.key \notin digest.list \/ InUse(m.key)}}
  /\ news' = digest.news
  /\ UNCHANGED <<assessment, page, request, accepted, unsure, late>>

MarkSent ==
  /\ digest.pc = "mark"
  /\ digest' = NoDigest
  /\ IF digest.list \subseteq Keys
     THEN /\ notices' = {[n EXCEPT !.sent = @ \/ n.key \in digest.list] :
                            n \in {m \in notices : m.key \notin digest.list \/ InUse(m.key)}}
          /\ news' = digest.news
     ELSE UNCHANGED <<notices, news>>
  /\ UNCHANGED <<assessment, page, request, accepted, unsure, late>>

Digest == ReadDigest \/ SendMails \/ MailFails \/ MarkSent

Next ==
  \/ ReadPage
  \/ \E w \in Workers :
       \/ Commit(w) \/ Abort(w)
       \/ \E op \in Operations : Put(w, op) \/ Relate(w, op) \/ ChangeDocument(w, op)
  \/ Digest

(* The cron job runs every night and goes through, and if it runs often enough    *)
(* the mails go out once.                                                        *)
Fairness == WF_vars(ReadDigest) /\ SF_vars(SendMails) /\ WF_vars(MarkSent)

Spec == Init /\ [][Next]_vars /\ Fairness

-----------------------------------------------------------------------------
(* Properties. *)

(* The finished date is there exactly while the assessment is done, once it has   *)
(* moved between the undone and the done states: FinishedDate "is set when status  *)
(* is set to a finished state"; and only a done assessment is shown as verified.   *)
(* Resets by mappings, documents and edits keep it so; a decision on an old row     *)
(* and a detour through "Deprecated" need not.                                      *)
DatesFollowStatus ==
  ~unsure => /\ row.finished <=> row.status \in Done
             /\ row.verified => row.status \in Done

(* A done assessment has every mandatory value, comment and document:                 *)
(* ValidateOnComplete checks when it is completed, and what takes one away later       *)
(* puts it back to work.                                                              *)
DoneIsComplete == ~unsure /\ row.status \in Done => row.evidence

(* A change that asked for a notification is in a row the digest will find, or was      *)
(* mailed, unless its handler took a row that the digest had already read for one        *)
(* still to be sent.                                                                   *)
NewsIsQueued == news /\ ~late => Unsent # {}

(* With a cron job that runs and a mail service that works again and again, every        *)
(* change that asked for a notification is mailed.                                      *)
NewsIsMailed == news ~> (~news \/ late)

(* handle_relationship_altered: a mapping "is considered an Assessment modification and  *)
(* hence a notification is created", so a mapping does not fail for the row it finds.    *)
MappingSucceeds ==
  \A w \in Workers : request[w].pc = "open" /\ ~request[w].stale /\ digest.pc = "idle"
                      => ~Doomed(request[w])

(* etag: "the resolution of the time object needs to be sufficient such that you don't    *)
(* end up with the same etag due to two updates performed in rapid succession": a PUT      *)
(* whose If-Match is accepted comes from a client that has seen what the request loads.     *)
(* It does not hold when two commits share a second.                                       *)
NoBlindPut ==
  \A w \in Workers : request[w].pc = "open" /\ request[w].op.kind = "put"
                      => request[w].seen = request[w].edition
=============================================================================
