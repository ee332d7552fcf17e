# Verification of ggrc-core

ggrc-core is a governance, risk and compliance application: a Flask and SQLAlchemy server on MySQL
with a REST interface, signal handlers that carry the business rules, a daily cron job, a task queue
and memcached. This directory holds TLA+ models of the parts with protocol in them: the workflows (how
the status of tasks moves up a tree of rows, what happens to that tree when requests overlap or workers
die, when recurring workflows start their cycles), the two caches that all requests share, the life of
an assessment with the notifications and the digest that report it, the automapper, and the access
control lists that follow relationships. Each model is translated
from the source, checked with TLC on small instances and, for its main invariants, proved with TLAPS.
`PROJECT.json` maps each definition to its lines, lists the runs, the theorems, the hazards in the
code, and the findings.

    tlc -workers 2 -config tree_serial.cfg MCCycleTree     # a run: its .cfg and its MC module
    tlapm CycleTreeProofs.tla                              # a module of proofs

Contents: [the system](#the-system) · [the modules](#the-modules) ·
[cycle tree](#the-cycle-tree) · [overlapping requests](#overlapping-requests) ·
[recurrence](#recurrence) · [caches](#request-caches) ·
[assessments](#assessments-and-the-digest) · [automapper](#automapper) ·
[mapped roles](#mapped-roles) · [runs](#runs-and-bounds) · [proofs](#proofs) ·
[findings](#findings) · [limits](#what-is-not-modelled) · [plan](#plan)

## The system

| component | state | operations | interacts with | what is hard | what makes it correct |
|---|---|---|---|---|---|
| **Cycle tree** `ggrc_workflows/__init__.py`, `models/cycle*.py` | rows of tasks, groups, cycles, workflow: status, dates, `is_current` | PUT, POST, DELETE, bulk PATCH of tasks; PUT of groups and cycles; declining entries | signals of the REST resource; after-commit hook; cron | bottom-up propagation in a second transaction, reads under locks mixed with cached rows | parents show what children add up to; workflow Active iff a cycle is current |
| **Recurrence** `models/workflow.py`, `__init__.py`, `cron.yaml` | multiplier, next date, `recurrences`, template tasks | activate, start cycle, cron, edits of tasks and groups, archive | template tasks, clock, cycle tree | calendar arithmetic; a cached date updated by some requests only; loops in one transaction | each occurrence once, in order, not early, and eventually |
| **REST resource** `ggrc/services/common.py` | ETag and Last-Modified of each object | GET, PUT, POST, DELETE, collection POST | every handler, cache, log of events | preconditions checked on the loaded object; commit in parts | no lost updates; handlers see consistent rows |
| **Resource cache** `ggrc/cache/`, `services/common.py:140` | memcached objects, keys to delete | mark, commit, delete, refill | all writers and readers | invalidation around the commit, outside the transaction | no reader leaves an old object in the cache |
| **Background tasks** `models/background_task.py` | status and result of a task | create, start, finish | App Engine queue (no retries) | the creator sets the status after the task may have ended | a task ends in a final status |
| **Assessments** `models/mixins/autostatuschangeable.py`, `statusable.py` | status, verifiers, finished and verified dates | edits, comments, mappings, status PUT | signals, relationships | edits that reopen through other objects | a reviewed object that changed is reviewed again |
| **Notifications** `ggrc/notifications/`, `ggrc_workflows/notification/` | notifications with send date and `sent_at` | create from events, daily digest | workflows, cron, mail | send and mark are two steps | each due notification is sent, once |
| **Automapper** `ggrc/automapper/`, `models/hooks/relationship.py` | relationships, queue of implied ones, audit of an issue | close under the rules, unmap, cascade | POST and DELETE of relationships | recursion with a limit, on a snapshot | closed under the rules; one audit for an issue |
| **Permissions** `ggrc_basic_permissions/`, `ggrc/rbac/` | roles, contexts, cached permissions, list of their keys | compute, cache, check | every request | cache keyed by user, cleared through a list that requests overwrite | no cached permission outlives its role |
| **Access control lists** `ggrc/access_control/`, `models/hooks/` | rows of assigned people, rows of mapped roles | assign, map, unmap | relationships, snapshots, imports | two hooks compute one table from two sides | roles are those that follow from assignments and mappings |
| **Snapshots** `ggrc/snapshotter/` | copies of objects in an audit | create, update | audits, revisions | bulk inserts around the ORM | a snapshot is a revision that existed |
| **Import, export** `ggrc/converters/` | row converters | parse, validate, save | every model | order of dependent blocks | rows are saved or reported |
| **Query and index** `ggrc/query/`, `ggrc/fulltext/` | full-text rows | query, reindex | commits | index follows commits | index is what the tables say |
| **Integrations** issue tracker, Google Drive | ids of external objects | calls from hooks | external services | failure between both sides | both sides agree |
| **Risks, login, maintenance, migrations, frontend** | plain data, a flag, schemas, client state | | | | |

Modelled are the cycle tree with its transactions and the recurrence, the two caches, assessments with
their notifications and the digest, the automapper, and mapped roles; of the REST resource, the order of
commits, signals and cache accesses, and If-Match on PUT. They meet in the code at the REST resource and
the database only, so each is modelled with the other requests that touch its tables or keys, and not
with each other. The sections on limits and plan say what is left.

Facts about the platform on which the models rest:

* Flask-SQLAlchemy 1.0 creates sessions with `autoflush=False`; a query does not write pending
  changes first. A commit expires all loaded rows.
* MySQL runs at REPEATABLE READ: plain SELECTs of a transaction see the snapshot of the first one,
  `SELECT ... FOR UPDATE` sees committed rows and locks them.
* With SQLAlchemy 0.9.8 `with_for_update()` returns locked values only for rows that the session does
  not hold yet; rows in the identity map keep what they had.
* An UPDATE writes the columns whose value differs from the loaded one (`Flush` in CycleRows).

## The modules

| module | what it is |
|---|---|
| `CycleRows` | constants (the shape of the tree), rows, and the pure functions of the handlers: status and date aggregates, bulk moves, propagation, building a cycle |
| `CycleTree` | the promise: every request is one atomic step on the rows |
| `CyclePropagation` | the same requests as transactions of overlapping workers; with one worker it implements `CycleTree` |
| `Calendar` | work days, holidays, months and the dates of recurring workflows |
| `CycleRecurrence` | when cycles start: clock, cron job, activation, cycles started by hand, edits of the template |
| `RequestCaches` | the object cache and the permission cache, and every request that fills or clears them |
| `AssessmentStatus` | what the code computes about one assessment: status validators, resets, notifications asked for |
| `AssessmentRequests` | overlapping requests on an assessment, its notifications, the nightly digest |
| `Automapper` | requests that map and unmap objects, the generator of implied relationships, the audit of issues |
| `MappedRoles` | requests that assign people and map objects, and the roles that follow |
| `CycleRowsLemmas`, `CycleTreeProofs`, `CyclePropagationProofs`, `CycleRecurrenceProofs`, `RequestCachesProofs`, `AssessmentProofs`, `AutomapperProofs`, `MappedRolesProofs` | lemmas and theorems |
| `MCCycleTree`, `MCCyclePropagation`, `MCCycleRecurrence`, `MCRequestCaches`, `MCAssessment`, `MCAutomapper`, `MCMappedRoles` | instances for TLC |

An operator under a comment that begins with "Mutant:" is a wrong variant of the definition next to
it. No action uses it. Put in the place of that definition, it makes a run fail, which shows that the
property the run checks depends on that piece of the code.

The newer models state their promises without exception for the good schedules and name the bad ones: a
history variable (`raced`, `unsure`, `late`, `excused`, ...) records that a particular race or a
particular known gap of the code has happened, for the object it has happened to, and is reset as soon as
the difference it excuses is gone. A property then says that *nothing else* breaks the promise; it says
nothing about the excused race itself, which the code does lose. Each
excuse is a fact about the code, listed under [Findings](#findings) or with its model, and the hazards of
`PROJECT.json` that are only excused name no property, or say in a note what is excused.

## The cycle tree

A row of the tree is a record with the columns the properties are about. `db` maps tasks, groups and
cycles to their rows, and holds the workflow row; a row can be "Absent" (not inserted yet), and a task
"Deleted". Dates of tasks are constants; days are small numbers and `NoDay` is None.

| code | definition |
|---|---|
| `_update_parent_status` | `AggregateStatus` |
| `_get_date_range`, `_get_min_next_due_date`, `_get_min_end_date` | `Earliest`, `Latest`, in `GroupRow` and `CycleRow` |
| `update_cycle_task_tree` | `SeenTasks`, `SeenGroups`, `Propagations`: tasks of the groups are re-read under locks, groups with what the session loaded; a group is written if it changed |
| `update_cycle_task_group_parent_state` | `SeenCycles`: recomputes a cycle for groups that changed |
| `handle_cycle_status_change`, `update_workflow_state` | `SeenWorkflows`, `WorkflowState`; one batch may contain cycles in any order, so `Propagations` is a set |
| `handle_cycle_task_status_change` | `WithStatus`, `SaveTask` |
| `CycleTaskGroupObjectTask.bulk_update`, `CycleTaskResource.patch` | `BulkSources`, `PatchTasks` |
| `handle_cycle_task_group_put`, `update_cycle_task_child_state` | `PutGroup` |
| `handle_cycle_put`, `handle_workflow_put` (recurrences) | `PutCycle`, `PutRecurrences` |
| `handle_workflow_put` (Draft to Active) | `ActivateWorkflow`, with any set of cycles due: a workflow whose first occurrence lies in the future is Active without a cycle, as `test_basic_workflow_actions.py` expects |
| `handle_cycle_post`, `start_recurring_cycles`, `build_cycles` | `StartCycles`, `CronStartCycles`, `BuildCycles`: any number of cycles in one transaction; which ones and when is in `CycleRecurrence` |
| `handle_cycle_task_entry_post` | `PostDecliningEntry`: no signal, no propagation |

The properties say that the incremental code computes what a full recomputation would:
`GroupsFollowTasks`, `CyclesFollowGroups`, `CycleDoneIffTasksDone` (end to end, from the cycle to the
tasks), `CurrentUnlessDone`, `ActiveIffCurrent` and `InactiveUnlessCurrent` (both once the workflow has
cycles: before, it is Active if it was activated) and `RangesSpanTasks`; that the
dates of tasks follow their status is checked and proved for overlapping requests below. Not every request keeps all of them in the code: a declining entry or a PUT of a
group changes statuses without going up the tree. `Kinds` selects the requests; the comment of each
property names the kinds it excludes, and each exclusion is a fact about the code listed under
[Findings](#findings).

## Overlapping requests

`CyclePropagation` gives each of `Requests` a program counter. A PUT, POST or DELETE of a task goes
through *loaded* (first snapshot), *written* (the task is committed), *reloaded* (first read of the
after-commit handler) and the commit of the propagation; the other requests commit once. A locking
read and the commit after it are one step: locks are held until the commit, and rows read under a lock
are the committed ones. Waiting for a lock is waiting for the step; a deadlock victim or a failing
flush is `Rollback` (nothing happened) or `Die` (the task stays, its propagation is gone, and the
group is remembered in `lost`). Groups are locked and cycles updated within the same step; `SeenGroups`
and `SeenCycles` take the *unlocked* values from `snap`, which is what makes updates get lost.

`GroupsSettle` is the promise of the design: whatever the interleaving of requests on different
tasks, a group that is owed no propagation shows its tasks, unless its last propagation died.
`StaleColumnsPending` says why: for each column that is wrong there is a request that has not read the
group yet, or has read its present value and so will notice the difference. `Bookkeeping` collects what
the argument rests on.

Cycles get no such promise: `CyclesSettle`, which would be the same for them, is not checked because it
does not hold. In a cycle of two groups two propagations lose an update. In a cycle of one group its
`next_due_date` can stay old for good: it depends on the status and the due date of the group, which two
requests may have written, so neither of them has seen the pair that the group ends up with. What does
hold for a cycle of one group is `CycleShowsGroup`: its status, start and end are those of the group at
every moment, as a propagation that leaves a column of the group to another request leaves the same
column of the cycle to it. `is_current` is no column of the group, and is lost even there:
`CurrentInProgress` fails when a task is reopened while the propagation that ends the cycle is under
way.

`ImplementsTree` is the refinement: with one request at a time, the propagation owed is counted as done
with the commit of the task (`Settled`), and every transaction is a step of `CycleTree` or a stutter.

Fairness (`FairSpec`): `WF_vars(Work(r))`. A thread of the server that serves a request goes on to the
next statement; nothing is assumed of clients, and `Die` counts as going on, so `StaleGroupRepaired`
allows for a lost propagation.

## Recurrence

`Calendar` numbers days from the 1st of January of `FirstYear`. `FirstWorkDay` is
`Workflow.first_work_day`; `DailyDate`, `WeeklyDate` and `MonthlyDate` are the branches of
`calc_next_adjusted_date`. Months, leap years and `relativedelta` are modelled from what the library
does. `CycleRecurrence` follows one workflow:

| code | definition |
|---|---|
| `min_task_start_date`, `start_end_date_validator` | `MinStart`, `ValidStart` |
| `build_cycles` | `WithFirstDate`, then `Build` for each turn of the loop, then `Commit` |
| end of `build_cycle` | `Advance` |
| `handle_workflow_put` Draft to Active | `Activate` |
| `handle_cycle_post` | `PostCycle` |
| `start_recurring_cycles`, `cron.yaml` | `Cron`, at most once a day |
| `calculate_new_next_cycle_start_date` | `Recalculated` |
| handlers of template tasks and groups | `EditTask`, `EditTaskGroup` |
| `update_workflow_state` | `PutRecurrences`, `PutCurrent` |

A session that builds keeps the rows it loaded, the workflow as changed in memory and the dates of the
cycles to insert; its commit writes the columns that changed. `cycles` records the start dates of the
cycles that activation and the cron job start, and `CyclesInOrder` is about these only. A cycle that a
user starts by hand advances the date too but is not recorded: its date is the user's choice, and an edit
may move the next date back to it.

Fairness (`FairSpec`): the clock (`NextDay`), the cron job and the sessions that build. App Engine calls
the endpoint every day; if it were late, `Cron` would fire on a later day, which the fairness allows.

## Request caches

A step is one access to memcache or one commit. Rows are version numbers, one for each object and one
for all that permissions are computed from; `entry`, `listed` and `granted` are the three kinds of keys
in memcache. A request reads the database in the snapshot that its transaction took when its user was
looked up (`Accept`), which is before its first access to memcache.

| code | definition |
|---|---|
| `query_memcache` | `QueryList`, `JoinList` (the list is read and written back in two accesses), `FetchPermissions` |
| `store_results_into_memcache` | `CheckList`, `StorePermissions` |
| `get_related_keys_for_expiration`, `memcache_mark_for_deletion` | `Marks`; `Supported` are the classes that `cache.py` names |
| `update_memcache_before_commit`, `get_modified_objects` | `Keys`; a second round after handlers that committed by themselves finds nothing |
| `update_memcache_after_commit`, `clear_permission_cache` | `Drop`, `ReadList`, `ClearPermissions` |
| `get_resources_from_cache`, `add_resources_to_cache` | `Lookup`, `Fill` |
| `put`, `delete`, `collection_post_loop`, `CycleTaskResource.patch` | `Commit`, `Drop` ..., `Handlers`, `LastCommit`, `Invalidate`, each kind going its own way through them |
| a killed worker | `Die`, at any step |

`FreshEntries` and `FreshPermissions` say that memcache holds the current version or nothing whenever no
request in service is still going to delete the key (`Owed`, `OwesClear`). The excuses are: a reader whose
snapshot is older than the commit stores what it read (`ReadersOf`, `LoadersOf`); no deletion follows the
commit (a PATCH, the second commit of a POST, handlers that commit by themselves, the class `Assessment`,
which `cache.py:31` registers as `Assessments`); a clear that did not find a cached user on the list it read; a
worker that died. A key that is missing from the list is no excuse before a clear misses it: until then
the permissions it belongs to must be current. `SafeToReturn`, what the comment in `query_memcache`
relies on, has no excuse, and `stale_permissions` shows that it fails. No fairness is assumed.

## Assessments and the digest

`AssessmentStatus` is pure. `Refused` and `SetStatus` are the chain of `validate_status` methods that
every assignment of the status runs through, in the order of the class (`ValidateOnComplete`,
`VerifiedDate`, `FinishedDate`, `Assessment`); `MonitorStates` and `ResetStatus` are
`AutoStatusChangeable`; `ModifiedEffect` and `RelatedEffect` are `handle_assignable_modified` and
`handle_relationship_altered` with the calls they make.

`AssessmentRequests` lets requests overlap: a request reads and decides in one snapshot when it starts
(`Put`, `Relate`, `ChangeDocument`) and writes the columns it changed when it commits (`Commit`,
`Written`), which may fail because a notification it touched was deleted (`Doomed`, `Abort`).

| code | definition |
|---|---|
| GET, ETag, If-Match | `ReadPage`, `page`, `stamp`: a commit may or may not fall into the second of the one before |
| `put`, signal `model_put`, `adjust_status_before_flush` | `Put`, with `SetStatus` and then `ResetStatus` |
| signals of `Relationship` and `Document` | `Relate`, `ChangeDocument`; no If-Match, as they are requests on other objects |
| `_add_notification`, `remove_existing` | `Commit`: rows deleted, added or touched |
| `get_daily_notifications`, `send_email`, `set_notification_sent_time` | `ReadDigest`, `SendMails` or `MailFails`, `MarkSent` |

`DatesFollowStatus` and `DoneIsComplete` hold until `unsure`: a decision on a row that changed since it
was read, a detour through Deprecated (FinishedDate leaves its date alone there), a mandatory comment
that is taken away; and they hold again after the next move between the undone and the done states.
`NoBlindPut` is the promise of If-Match: a PUT loads the edition that its client has read. It fails when
two commits fall into one second, and no run checks it. `NewsIsQueued` is the promise of the table of notifications:
whatever the digest does at the same time, a change that asked for a notification and was not mailed is in
an unsent row, unless its handler touched a row that the digest had read before.

Fairness: `WF` of `ReadDigest` and `MarkSent`, `SF` of `SendMails`. The cron job comes every night and each
of its steps returns; a mail service may fail any night but not every night. `NewsIsMailed` then says that
every such change is mailed at last. Nothing is assumed of clients.

## Automapper

A relationship is the pair of the objects it maps; the unique constraint of the table is about ordered
pairs, and the automapper orders the ones it makes. A request posts pairs (`Post`) and then runs the
generator for each of them in any order, one round of the loop per step.

| code | definition |
|---|---|
| `rules.py`, `explode_rules` | `Rules`, `Mapping`: each rule is read from both ends |
| `_step`, `related`, `RelationshipsCache` | `StepFrom`, `Step`, `Enqueued`; `related` starts as the snapshot with what was posted |
| `generate_automappings` | `Generate`, then `SkipDenied`, `SkipExisting`, `Automap` or `RefuseSecondAudit` for any entry of the queue, then `Flush` |
| `_can_map_to`, `_check_single_audit_restriction`, `COUNT_LIMIT` | `MayMap`, `SecondAudit`, `OverLimit` |
| `_flush` (INSERT IGNORE), `_set_audit_id_for_issues` | `Commit`; two requests that post one pair `Collide` |
| `handle_new_audit_issue_mapping`, `handle_del_audit_issue_mapping` | `AuditAllowed`, `Freed`, `Releasable` |
| `unmap_issue_cascade` | `Cascade`, `UnmapCascade` |

`Closed` compares the table with a reference definition, `Implied`: whatever two relationships imply is
there, unless the user may not map it, a client deleted it, the limit was exceeded, or two overlapping
requests each made one of the two. The comment at `automapper/__init__.py:90`, "If the edge already exists
it means that auto mappings for it have already been processed", is what this rests on. `AuditIsMapped`
ties the column `Issue.audit_id` to the relationships, and `AutoIsImplied` is the converse of `Closed`. What a
generator leaves in its queue and in `related_cache` above the limit goes on to the next relationship of
the request; that is modelled, and is the exception in `AutoIsImplied`.

## Mapped roles

Whoever is assigned to an assessment has a row with a parent on every object the assessment is mapped to,
and on the regulations and objectives whose snapshots are mapped to one of its control snapshots. Two
hooks write these rows: `handle_acl_creation` when people come (`CommitPeople`, `RolesOfNew`) and
`handle_relationship_creation` when objects are mapped (`CommitMap`, `RolesOfPairs`), each from the
snapshot of its transaction; `handle_relationship_delete` takes them away (`CommitUnmap`), and the cascade
of `parent_id` does so when people leave (`WithoutChildren`). The foreign key and the unique constraint
work on committed rows (`Insertable`, `Fail`). `RolesComplete` and `RolesJustified` compare the table with
`Required`, which computes all roles from nothing. What the code is known to get wrong is excused for the
rows concerned: overlapping requests that do not see each other; `snapshot_ids`, which keeps one
assessment for a snapshot that one request maps to several (`Owners`); unmapping, which looks at the
object itself and not at what is related to it, and takes a role away that is still due through a
control; imports, which delete a relationship without a signal. The unique constraint contains
`parent_id` since migration 33d043d8ba29 and so does not hold for rows without a parent: one person
may be assigned twice by two overlapping requests, and loses one of the rows at a time.

## Runs and bounds

| run | question | instance |
|---|---|---|
| `tree_serial` | do rows agree with the rows below after every request? | one cycle, two groups (of two tasks, one of them POSTed later, and of one), verification on |
| `tree_all` | what survives every kind of request? | two cycles of one group and task, all statuses; POST and PATCH are in `tree_serial` |
| `propagation` | do groups settle under overlap and failure, and do single-group cycles follow them? | three requests at once, five ever, one cycle of one group, three tasks, one of them POSTed later, two target statuses |
| `repair` | is a stale group repaired, in whatever order requests commit? | two requests at once, four ever, FairSpec, two tasks of one group |
| `serial_refinement` | do the transactions implement the atomic requests? | all eleven kinds, one at a time, four requests, two cycles, verification on |
| `recurrence` | do recurring cycles start once, in order, in time, and at all? | daily, weekly and monthly, two tasks, start dates 30 and 31 January and 27 February 2017, three requests, from Friday 24 February to 1 March (7 March for weekly) |
| `caches` | does memcache hold old objects or permissions outside the named races? | two of three requests at a time, two users, three objects (one of a class that is not cached by its name), a write of each kind, deaths |
| `assessment` | do dates, completeness and notifications survive overlap and the digest? | two of three requests at a time, eight operations, an assessment that is new or in review, digests at any time |
| `automapper` | is the table closed under the rules, and nothing else? | a program, regulation, section, objective chain and an issue with two assessments, audits and a snapshot; two requests, one deletion, a limit of one |
| `mapped_roles` | are mapped roles those that follow? | five requests, two at a time, two people, two assessments, a control and a related regulation snapshot |
| `stale_permissions`, `mapping_fails` | [findings](#findings), expected to be violated | the same models |

Why this is enough to be worth something: the aggregates depend on the *set* of statuses below, so two
tasks in a group and two groups in a cycle give every combination of "all", "some" and "none" for two
statuses; propagation bugs need two requests on one group and a third to observe or to overwrite, which
`propagation` has, and `repair` has the two; the theorems remove the bound for groups. Two cycles and two
groups are needed only by what relates them, and are in `tree_serial`, `tree_all` and `serial_refinement`. The dates of `recurrence` contain a
weekend, a holiday (a weekly task of 30 January meets Presidents' Day) and the end of a short month, with
a setup date that is the last of its month (31 January), one that the month of February cuts short (30
January), and one still to come (27 February); three requests are an activation and two edits, archivings or hand
starts. In `caches`, a race needs a reader
and a writer, and the third request shows what the race leaves behind; each kind of write is there once.
In `assessment`, a stale decision needs two requests and a third to find the row wrong, and the digest
interleaves with all of them; of the operations, one stands for each way a change can matter (a move, an
edit of a tracked attribute with a move, an edit of an untracked one, a mapping that takes a mandatory
piece away, one that adds it). In `automapper` the objective is three rules away from the program, so a
queue grows while it is worked on; the limit of one is exceeded by the longer chains and not by the
shorter. In `mapped_roles` five requests are two assignments, two mappings and an unmapping. The theorems
remove these bounds. `MaxServed`, `MaxRequests`, `MaxAccepted` and
`MaxRemovals` bound requests ever accepted, `LastDay` the clock. Deadlock is
off where those bounds end the behaviour, and on in `tree_serial`. `RequestSymmetry` permutes workers,
which are interchangeable; it is used with invariants only. So are workers and users in
`caches`.

## Proofs

All theorems are checked by tlapm without unproved leaves; the assumptions on constants are the named
ASSUMEs of the modules, which TLC evaluates on every instance.

* **`CycleTreeProofs`** - for trees of any shape and size, requests one at a time. Each invariant is
  inductive together with `TypeOK` and those before it.

  | theorem | assumed | argument |
  |---|---|---|
  | `TypeCorrect` | - | |
  | `GroupsFollowTasksCorrect` | no empty groups, no entries, no PUTs of groups | only the tasks of a request change, and their groups are recomputed |
  | `CyclesFollowGroupsCorrect` | no PUTs of groups | a cycle's row is a function of its groups (`CycleRowLocal`), and every step that changes a group goes through `Propagations` |
  | `CycleDoneCorrect` | as the two above | follows from both |
  | `CurrentUnlessDoneCorrect` | as for groups, and no client sets `is_current` | the propagation that changes whether a cycle is done also sets `is_current`; a cycle that counts has a live task, so it never comes back from Deprecated by another way |
  | `ActiveIffCurrentCorrect` | no cron job, and no bulk move over two cycles (`OneCycleMoves`) | a step leaves both `is_current` and the workflow alone, or evaluates the workflow after the cycle (`WorkflowStep`), or builds current cycles and sets Active; with `DraftIsEmpty`, as a Draft workflow is never evaluated |
  | `InactiveUnlessCurrentCorrect` | `OneCycleMoves` | as above; the cron job can only leave a workflow *not* Active with a current cycle |
  | `RangesSpanTasksCorrect` | finitely many tasks; all kinds of request | `RangesFollow`: the dates of groups are those of their tasks and the dates of cycles those of their groups, even where statuses are left behind; the earliest of earliest dates is the earliest (`SpansOfSpans`) |

* **`CyclePropagationProofs`** - for any tree and any number of requests. On different tasks
  (`AloneWithTasks`: no two requests in service on one task, no entries, no PUTs of groups):
  `BookkeepingCorrect` and `DatesCorrect`; and if moreover there are no bulk moves (`SingleTaskWriters`)
  and no empty groups, `StaleColumnsArePending` and `GroupsSettleCorrect`. `GroupsSettle`
  is not inductive: a request may finish while the group is stale in a column another request will
  repair. `StaleColumnsPending` names that request for each column, and needs `Bookkeeping`, because a
  request recomputes the group with its own tasks as loaded.
  `CycleShowsGroupCorrect` needs none of that: requests may share tasks, fail and move in bulk, only PUTs
  of groups are left out. Its invariant `ShowsEverywhere` extends the property from the committed rows to
  those that each request has loaded, because a flush writes the columns that differ from the loaded ones.
  `ImplementsTreeCorrect` is the refinement, for one worker that does not die (`Serial`): the invariant
  `Undisturbed` says that what it has loaded is what is committed, so that the propagation has one possible
  result, which `Settled` counts as done with the commit of the task. `SameRows` to `SameBuildCycles`
  identify the operators of the abstract specification with those of the detailed one; `TaskRequest`,
  `PatchRequest` and `SingleRequest` map each commit to its action of `CycleTree`, and `SettledStays`
  shows that all other steps stutter.
* **`CycleRecurrenceProofs`** - first the calendar of daily workflows: `DailyVisitsEveryWorkDay` and
  `DailyIncreases` (repetitions visit each day of the work week once, in order) and `DailyPassesWorkDays`
  (the n-th comes after n of those days, for every n: a least n that fails would follow one that does
  not). Then `TypeCorrect`, `CyclesInOrderCorrect`, `StartedWhenDueCorrect`,
  `NextFollowsTasksCorrect` and `DailyCountsWorkDaysCorrect`, under `Orderly`: requests do not overlap with
  sessions that build, tasks
  of Inactive workflows are not edited, and the dates are `Regular` (a setup date is its own first
  occurrence, and each repetition is later than the one before). `DailyIsRegular` shows that daily
  workflows whose tasks start in the work week are, for all holidays; weekly and monthly ones are
  unless a weekend or a holiday moves a date. Order is not inductive either: the invariant `IInv` adds
  that the next date lies after all cycles and is the date of the multiplier (`RowOrdered`,
  `CyclesOrdered`), and that a session that builds is alone and continues the committed cycles
  (`SessionOrdered`). `CyclesInOrderCorrect` does not speak of cycles started by hand, which `cycles` does
  not record; they and edits of Active workflows may come between the others. `DailyCountsWorkDays` adds `SetupInWorkWeek`, which `start_end_date_validator`
  keeps. Each assumption is needed: dropping it gives one of the counterexamples below.
* **`RequestCachesProofs`** - for any users, objects, mappings and requests, however many overlap and
  wherever they die: `TypeCorrect`, `ControlCorrect`, `FreshEntriesAlways` and
  `FreshPermissionsAlways`. `FreshEntries` is not inductive, as it says nothing of what readers are about to
  store. The invariant adds, for each object without a race, that every GET on its way to `Fill` has seen
  the current version; for each user, that whoever computes permissions has the current ones
  (`LoadsCurrent`); and `Control`: which steps a request of each kind can be in.
* **`AssessmentProofs`** - for any set of operations, any finite number of workers and any starting row
  without excuses: `Invariant`, `TypeCorrect`, `DatesFollowStatusAlways`, `DoneIsCompleteAlways`,
  `NewsIsQueuedAlways`. The inductive invariant `IInv` adds that the decision of an open
  request follows from the row it loaded, and that this is the committed row unless the request is
  stale; and that a digest under
  way has read every unsent row but those of changes it has been told of (`digest.news`). The finiteness
  of the tables gives new rows their keys.
* **`AutomapperProofs`** - `TypeCorrect`, `ClosedCorrect`, `AuditIsMappedCorrect`, `AutoIsImpliedCorrect`, for
  any rules, objects, denied mappings, limit and number of overlapping requests, from the assumptions of the
  module alone. Two of these say something of the code: the objects are finitely many, as a database is
  (the audits of an issue are counted with `Cardinality`), and `IssueRuleAssumption`, that no rule but that
  of the assessments it was raised on gives an issue an audit or a snapshot, which holds of `rules.py`.
  `Closed` is not inductive, as it does not say what a generator has still to do. `Follows` does: until
  the limit is exceeded, all that an edge implies which a request made or has worked off is in its
  `related_cache`, in its queue or was refused, and the cache holds nothing but what it saw and made.
  `OneAudit` adds that an issue which the request maps to an audit has no other in that cache. At the
  commit the table is the union of what the request and the others made, so what is implied by one
  relationship of each is all that can be missing, and that is what `excused` names.
* **`MappedRolesProofs`** - `TypeCorrect`, `CompleteRoles`, `JustifiedRoles`, for any people, assessments,
  objects and operations. The excuses are computed in the step that causes them, so both properties are
  inductive with `TypeOK`; the work is in showing that the rows a hook computes from its snapshot are those
  that follow from the committed tables, up to the excuses.

`CycleRowsLemmas` holds what both theories of the tree rest on: which rows `Propagations` may return, on
what an aggregate depends, and the least and greatest elements of finite sets of days.

Every invariant, every action property and the refinement of the passing runs are theorems, under the
assumptions above. Only model-checked are the liveness properties `StaleGroupRepaired`, `SessionsEnd`,
`DueCyclesStart` and `NewsIsMailed`, as liveness under fairness is out of the prover's reach. So is what the
recursive functions `FirstWorkDay` and `MonthStart` compute: the theorems on recurrence take what they need
of weekly and monthly dates as the assumption `Regular`.

## Findings

Two are runs that TLC must find violated.

1. `stale_permissions`: a request computes a user's permissions in a transaction that began before a PUT
   changed roles; the PUT commits and clears the cache; the key is entered in `permissions:list` after
   that, by the delayed write of the request itself or by another request of the user; the first one
   finds the key there and stores the old permissions. "If the key is both in permissions:list and in
   memcache itself it is safe to return the cached permissions" (`ggrc_basic_permissions/__init__.py:184`).
2. `mapping_fails`: mapping a document or a snapshot to a done assessment that has an unsent
   `assessment_updated` notification touches the row (`notification_handlers.py:396`) and then deletes it
   (`remove_existing`, `:403`), so that the flush of the request fails.

These seven are shown by the configurations with the property added and the change that is given; each contradicts what a
comment, a docstring or a test of the repository says:

* two tasks of a group are finished, the second one by a PUT whose propagation is still under way. A PUT
  reopens the first task; its propagation has loaded the cycle as not done and current. The other
  propagation ends the cycle: Finished, `is_current` FALSE. The waiting one sets InProgress and assigns
  `is_current = True`, which is the value it loaded, so that no column is written
  (`ggrc_workflows/__init__.py:729`). The cycle is in progress, not current, and the workflow Inactive, until
  some request changes the cycle's status again. "cycle now should have is_current == True", says a test of
  the same requests in a row (`test_status_propagation.py:299`). `CurrentInProgress` fails in
  `propagation.cfg` as it is;
* the ETag is a hash of `updated_at`, in seconds (`services/common.py:1616`). Of two clients with one page the
  first commits within that second, and the If-Match of the other still passes. "the resolution of the time
  object needs to be sufficient such that you don't end up with the same etag due to two updates performed
  in rapid succession", says the docstring of `etag` (`:1625`). `NoBlindPut` fails in `assessment.cfg` as it
  is;
* two tasks of different groups of a cycle are PUT at once: the second propagation compares the cycle with
  the row loaded before it waited for the locks, and the cycle keeps a status its groups do not add up to
  (`ggrc_workflows/__init__.py:441`). `CyclesSettle` fails in `propagation.cfg` with `Groups = {g1, g2}`,
  `GroupOf <- TwoGroups`;
* a bulk move that ends both current cycles leaves the workflow Active: the workflow is evaluated after the
  first cycle of the batch (`:729`). `WorkflowSettles` fails there with `Groups = {g1, g2}`,
  `Cycles = {c1, c2}`, `GroupOf <- TwoGroups`, `CycleOf <- TwoCycles`, `Kinds = {"patch", "start"}`,
  `Targets = {"InProgress", "Finished"}` and one request at a time; a test says "Archived workflow should be
  INACTIVE if current cycles are ended.";
* `calculate_new_next_cycle_start_date` does not adjust the first date as `build_cycles` does: an edit on the
  Friday on which a Saturday cycle ran repeats it (`:514`). `CyclesInOrder` fails in `recurrence.cfg` with
  `StartDates = {56}`;
* nothing is recalculated while the workflow is Inactive, but the cron job still serves it: the next cycle
  is dated weeks ahead (`:509`). `StartedWhenDue` fails with the kind `"inactive"`, which lets tasks of
  Inactive workflows be edited;
* `build_cycles` never ends for a workflow that has a past date and no tasks (`:177`). `SessionsEnd` fails with
  `"inactive"`, one task, `StartDates = {58}` and `MaxRequests = 4`.

Further counterexamples of these models, reached by widening an instance as described:

* three overlapping PUTs in one group, one of them to Deprecated, leave the `next_due_date` of its cycle
  behind (`:441`): one request writes the status of the group, another its due date, and the cycle gets the
  due date that one of them saw. `CyclesSettle` fails in `propagation.cfg` with `Template = {t1, t2, t3}`,
  `Kinds = {"put", "start"}`, `Targets = {"Assigned", "Finished", "Deprecated"}`, `Failures = FALSE`;
* a bulk move that overlaps PUTs of other tasks of the group, as it compares the group with a snapshot older
  than the tasks it locks: `GroupsSettle` fails there with `Template = {t1, t2, t3}`,
  `Kinds = {"put", "patch", "start"}`, `Targets = {"InProgress", "Finished"}`;
* two requests that end the last two cycles at once: `WorkflowSettles` fails (two groups and cycles as
  above), each sees the other cycle current (`:656`);
* the last task of a group is deleted by a request whose propagation has loaded the cycle before a POST
  put another task there, and evaluates `is_done` on what it loaded (`models/cycle.py:65-75`): the cycle
  stays Assigned with `is_current` FALSE;
* two PUTs of one task: the If-Match header is compared with the loaded object, so both
  pass. `DatesFollowStatus` fails with `SharedTasks = TRUE` and `Targets = {"InProgress", "Finished"}`;
* a declining entry (`"entry"`) keeps `finished_date` and propagates nothing (`:712`);
* the cron job does not set ACTIVE as a POST of a cycle does: `ActiveIffCurrent` fails with `"cron"`;
* a task group without tasks becomes an Assigned group that no propagation reaches
  (`GroupsPopulated`), while a group that loses its last task becomes Deprecated, as
  `test_empty_group_status` in the repository's `test_status_propagation.py` expects;
* `Overlap = TRUE` in `recurrence.cfg`: an edit that commits while an activation builds sees a Draft
  workflow and recalculates nothing; the next cron job builds from the new tasks with the old
  multiplier, and `CyclesInOrder` fails;
* an edit on the day of a cycle before the cron job has run moves the date past that day, and the
  occurrence is dropped (allowed by `DueCyclesStart`, which lets a due date be moved);
* an edit can move the next date back behind a cycle that a user started by hand ahead of time; the
  occurrence is then started again by the cron job, which `cycles` does not count as a repetition;
* a changed label, or a person, is no reason to reopen an assessment, but `handle_assignable_modified` asks
  for a "reopened" notification of a done assessment after any change (`Reaction`), while
  `AutoStatusChangeable` resets the status for tracked attributes only;
* `_add_assessment_updated_notif` is documented to do nothing when a status change is waiting to be sent; it
  looks for its own type only (`Updated`);
* after Deprecated, `finished_date` may be set in an undone status or missing in a done one
  (`Unsettles`);
* the relationship implied by two that overlapping requests make is never created, and two overlapping
  requests can map one issue to two audits (`excused` and `mixed` in `Automapper`);
* the differences of mapped roles listed [above](#mapped-roles).

## What is not modelled

In the modelled components: Backlog workflows and one-time workflows, moving a task to another group,
editing the dates of cycle tasks, PUT of a cycle's status, PUTs of a workflow's status other than its
activation (back to Draft, or to Inactive), permissions of bulk moves, notifications and
events that the handlers write, titles and people. A failing cron job loses the day's cycles of all
workflows at once (`:928`); the model has one workflow, and a job that fails is one that comes late.
Snapshot and locking reads follow MySQL's documented behaviour; gap locks, which can only make more
requests wait or fail, are not modelled.

In the newer models: imports (except that they unmap), expiry of keys and errors of memcache; If-Match
on DELETE; PUTs that carry `actions` (`services/common.py:768`, `models/mixins/with_action.py`: documents
and comments added within the PUT of their assessment), and PUTs that move the status and edit a custom
attribute at once; assessments that are created, cloned or deleted, evidence counted per attribute, comments in
the digest, reminders, repeating notifications and the choice of recipients; notifications of workflows;
the direction of relationships (the unique constraint at `models/relationship.py:92` is on ordered pairs,
so that after a race the row a client posted and the reversed one of the automapper may both exist, which
are one pair of the model), and several flushes within one request; PUTs of the access control list of
a mapped object, roles of audits and workflows, deletion of people.

Components without a module, and why:

* *Background tasks*: `queue.yaml` sets `task_retry_limit: 0`, one worker runs a task, and no code of the
  server decides anything by its status. The one hazard, a `start()` that comes after the end
  (`views/__init__.py:121`), is a single overwritten column.
* *Computation of permissions, query API*: functions of the tables, without a step of their own.
* *Task groups and tasks*: plain edits; what they do to the recurrence is in `CycleRecurrence`.
* *Snapshots, import and export, index*: conversions and bulk inserts inside one request, most of them
  parsing, formatting and generated SQL.
* *Issue tracker, Google Drive*: calls to external services whose failures are logged and dropped.
* *Risks, login, maintenance, migrations, frontend*: data models, a flag, schemas and a client.

These are the larger part of the source by lines, which is why the models cover a small share of it.

## Plan

In this order; what matters most for the data comes first.

1. *done* Cycle tree, its transactions, refinement and theorems.
2. *done* Recurrence: calendar, sessions, theorems.
3. *done* Request caches: objects and permissions; theorems.
4. *done* Assessments: status, locking by ETag, notifications and digest; theorems.
5. *done* Automapper and audits of issues; theorems.
6. *done* Mapped roles; theorems.
7. Snapshots of an audit: create, update and delete against the relationships that the automapper and the
   mapped roles work on.
8. Import blocks: order of dependent rows, and the hooks they bypass.
9. Issue tracker: what remains on either side when a call fails between two commits.

Theorems next: the assumptions to weaken are `SingleTaskWriters` (a bulk move alone in its groups keeps
`GroupsSettle`) and `Regular`, for weekly workflows whose dates no weekend or holiday moves; and `Serial`
could allow a worker to die before it has committed anything. Runs are kept to
one for each question, and the violation runs stay as regression tests of the findings until the code
changes.
