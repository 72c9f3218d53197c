# A TLA+ model of the IssueFlow backend

IssueFlow is a NestJS service over PostgreSQL (TypeORM): users, projects,
tickets with dependencies, comments with mentions, attachments, an audit log
and a scheduler that escalates overdue tickets. The process keeps no state in
memory to speak of; everything is in tables. What is hard in this code lies
*between* its statements. Every `await` of a handler is a point where another
handler, a cron job or a crash comes in, most handlers use no transaction, the
ones that do go through a second connection for look-ups and for the audit log,
and several save whole entities that they read earlier.

The specifications model each handler one database statement at a time and let
all of them interleave. `PROJECT.json` maps each definition to its source lines.

## 1. Inventory

State is the tables named; "hard" is what no unit test reaches.

| Part | State | Operations | Interacts with | Hard | What makes it correct |
|---|---|---|---|---|---|
| Tickets (`src/src/tickets/tickets.service.ts`) | `tickets` | create, patch, soft delete, restore, list | row locks, audit, dependencies, membership, projects | PATCH under `FOR UPDATE NOWAIT`; check, then act, in delete and restore; audit row committed before the ticket | edits are validated against the row they overwrite; status moves forward; DONE is final; a deletion is audited |
| Escalation (`ticket-escalation.service.ts`, `scheduler/`) | a run's snapshot | one run a minute | tickets, without their locks | saves stale entities; runs may overlap; one failure ends a run | a ticket nobody else moved climbs one rung per run; the flag stands at the top; overdue tickets are flagged in the end; status is left alone |
| Transactions (`common/database/`) | row locks, connections | begin, lock, commit, roll back, release | the pool, shared by all handlers | BEGIN outside of the `try`; second connection while holding the first; statements that wait for a row lock with a connection in hand | no connection lost but by a failed BEGIN; no circular wait and every call answered while connections suffice |
| Projects (`projects/projects.service.ts`) | `projects` | create, patch, cascade delete, cascade restore | tickets | many rows locked in sequence; tickets created, deleted, restored, escalated meanwhile; stale saves of PATCH and of the escalation | project and tickets in step but for what appeared after the list; a restore revives what the deletion took |
| Dependencies (`dependencies/`) | `ticket_dependencies` | add, remove, list; DONE gate; purge | tickets by foreign keys; deletion of a project, which purges nothing | gate read before the commit on another connection; add beside delete; blockers that come back | no ticket becomes DONE with a blocker that was open when its PATCH looked; a row that mentions a deleted ticket has a known reason |
| Users (`users/users.service.ts`) | `users` | create, first login, patch, hard delete | every row that names a user | guards counted before the transaction; stale save of the hash; foreign keys at the end | no dangling reference; guards of BR-14; passwords and deletions last |
| Authentication (`auth/`) | `revoked_tokens`, tokens at clients | login, guard, logout, purge | users | expiry in seconds beside a purge in milliseconds; guard awaits after it compares | an answered logout holds until the token expires; the deny-list is emptied |
| Audit log (`audit/`) | `audit_logs` | insert, query | all of the above | own connection: visible early, survives a rollback | every deletion has its row |
| Membership, auto-assignment, workload | `project_members` | link, unlink, choose | tickets, users | counts read without a lock | assignees are members; unlinking never drops one with work |
| Comments and mentions | `comments`, `mentions` | create, patch, delete | tickets, users | mentions rebuilt after the commit | mentions match the content |
| Attachments (`attachments/`) | `attachments`, files | upload, delete | tickets | file and row written, and removed, one after the other; no transaction, no repair | every file has its row and every row its file, but for what a failure left; only its DELETE takes an attachment away |
| CSV import and export (`tickets/csv-*.service.ts`) | - | import, export | auto-assignment, tickets | row-by-row import without a transaction; two formats written apart | import reads what export writes |
| HTTP layer, role guard, configuration | none | - | - | none of their own | - |

## 2. Modules

`TicketRules` holds pure operators; `TicketLifecycle` and `AtomicTickets` extend
it, `TicketLadder` extends `TicketLifecycle` by a history variable, and `Assignment` extends `CsvRules`, which is pure as well. The other components are modules of their own: they share the database, but
each rule they break or keep concerns two tables at most, so each module carries
the columns its rules read and folds the rest. `Sessions` and `ConnectionPool`
name nothing alike, since one proof module extends both. The `MC...` modules hold sets of
inputs and symmetry for TLC only; `...Proofs` hold the TLAPS proofs.

### How a handler is modelled

`req[r]` is handler *r*: `pc` is the await it is at, the other fields are its
local variables. One action is one statement and the code up to the next await.
A transaction's writes stay in `req[r]` until its commit and then become visible
together; `lock` is the row lock PostgreSQL keeps for it. A statement outside a
transaction changes the table at once. A refusal, an exception and the death of
the process are the same to the tables: the transaction is rolled back and
committed statements stay (`Fail`, `GiveUp`, `JobFail`, `Throw`, `Leave`,
`Restart`); only a BEGIN that throws is an action of its own, `BeginFails`, as it
keeps its connection.

External behaviour the modules rely on, modelled from how the code uses it:

* `Repository.save(entity)` of TypeORM reads the row again, then updates the
  columns in which the entity differs from what it just read, or inserts the
  entity if there was no row (`DiffUpdate` in `TicketLifecycle`, `UpdateLoad`
  and `UpdateSave`, `EscalationLoad` and `EscalationSave` in `ProjectCascade`,
  `Saved` in `Accounts`).
* PostgreSQL under READ COMMITTED: an UPDATE waits for a row lock, `NOWAIT`
  fails at once, an insert that refers to a row takes a key-share lock, which
  waits for `FOR UPDATE` but not for a plain UPDATE (`KeyShareGranted`).
* The driver's pool: a fixed size, a first-come queue, no timeout. A connection
  that nobody releases is gone.
* Queries of an entity with a delete-date column leave soft-deleted rows out,
  unless they ask for them.

### What each module stands for

| Module | Code | State | Actions |
|---|---|---|---|
| `TicketRules` | status order, ladder, field assignments of PATCH, overdue filter and the escalation of one ticket | - | operators only |
| `TicketLifecycle` | POST, PATCH, DELETE, restore of `tickets.service.ts`; `processOverdueTickets` | `row`, `lock`, `audit`, `req`, `job`, `clock` | `Create`, `PatchLock`, `PatchSave`, `DeleteCheck`, `DeleteWrite`, `RestoreFind`, `RestoreWrite`, `Audit`, `Commit`; `JobStart` to `JobEnd` |
| `AtomicTickets` | what the four endpoints promise: one indivisible, validated change each, whatever the escalation overwrites | `row`, `job` | `Post`, `Patch`, `Remove`, `Restore`; `Escalate` |
| `TicketLadder` | `TicketLifecycle`, for the rungs of BR-04 | its, and history `crossed` | its |
| `ProjectCascade` | `projects.service.ts` delete, restore, update beside create, delete, restore and escalation of tickets | `project`, `ticket`, both locks, `req`, histories `removedBy`, `late`, `strays` | mark, list, update one by one, commit; find, load, save of a PATCH and of the escalation; the other ticket endpoints in two to three steps |
| `TicketDependencies` | `dependencies.service.ts`, the DONE gate, the counts and purge of ticket DELETE, restore of a ticket, DELETE and restore of the project, the save of the escalation | `ticket`, `project`, `deps`, `lock`, `req`, histories `turned`, `added`, `kept` | one per look-up and write |
| `Assignment` | `project-membership.service.ts`, `auto-assign.service.ts`, the assignee in POST, PATCH, DELETE and restore of tickets, the lines of an import | `member`, `ticket`, `lock`, `req`, histories `disturbed`, `restored`, `dropped` | look up and insert a membership, one count per member and status, insert, patch, delete, count and drop the membership |
| `CsvRules` | header check, line acceptance and columns of `csv-import.service.ts`; `csv-export.service.ts` | - | operators only; `Assignment` extends it for the assignee of a line |
| `Attachments` | `attachments.service.ts`, `file-storage.service.ts`, `file-validation.service.ts` | `row`, `disk`, `audit`, `deleted`, `req`, history `left` | check, write the file, insert the row; find, unlink, delete the row; audit; give up |
| `Comments` | `comments.service.ts`, `mention-parser.service.ts`; `Extracted` is what `/@(\w+)/` makes of a user name | `user`, `comment`, `mention`, `lock`, `req`, history `stale` | store, then clear and insert the mentions one by one; users come and go |
| `Accounts` | `users.service.ts`, first login, and rows that come to name a user | `user`, `project`, `ticket`, `author`, `audited`, `req` | one per statement of the deletion; find and write of the others |
| `Sessions` | login, JWT guard, logout, purge job | `owner`, `exp`, `revoked`, `clock`, `req`, history `signedOut` | guard in three steps, logout in three, `PurgeExpired` |
| `ConnectionPool` | `TransactionRunner` beside single statements, those that wait for a row lock and those that do not | `pool`, `lost`, `queue`, `lock`, `call` | take, begin or fail to, lock, ask for a second connection, run a statement, give back |

History variables (`crossed`, `removedBy`, `late` and `strays` of `ProjectCascade`,
`turned`, `added`, `kept`, `signedOut`, `disturbed`, `restored`, `dropped`,
`stale`, `left`, and `late`, `read` and `open` of the requests in `Sessions` and `Accounts`)
are never read by a guard.

## 3. Runs

Ten runs pass and two show a disagreement with the documents. Counts of
distinct states are approximate.

| Run | Question | Bounds |
|---|---|---|
| `lifecycle_all` | Does the row lock protect what PATCH and DELETE validated, and do the multi-statement handlers implement `AtomicTickets`, whatever the unlocked escalation does and wherever a handler dies? (1 360 000 states) | 1 ticket, 2 handlers, 1 run, clock to 1, 5 PATCH bodies |
| `lifecycle_escalation` | Does a run take a ticket one rung up unless somebody else moved it, does the flag part from the top only in a torn save, and does a ticket get flagged once runs stop failing and overlapping? (279 000 states) | 1 ticket from HIGH, 1 handler that sets the priority, 2 overlapping runs, failures of runs, fair |
| `cascade` | What can a cascade miss, does a restore revive only what the deletion took, does every call return? All endpoints overlap. (351 000 states) | 1 project, 2 tickets, 2 handlers, failures, fair |
| `deps` | Does the DONE gate hold at the commit, what does a DELETE purge, and which rows mention a deleted ticket? All endpoints overlap. (1 236 000 states) | 2 tickets, 2 handlers, self-dependency tried |
| `sessions` | Is an answered logout in force until the token expires, and is its row purged? (83 000 states) | 2 tokens, 2 requests, 2 ticks to a second, life 1 s, clock to 5 |
| `pool` | Is a connection lost other than by a failed BEGIN, can somebody always go on, is every call answered while connections suffice? (40 000 states) | 2 transactions on 2 tickets, 1 statement that waits for their locks, 1 reader, 5 connections, 1 failed BEGIN, 1 inner statement |
| `accounts` | Does any row name a user who is gone? Are BR-14 and PD-09 kept as far as reads before a transaction can? (125 000 states) | 1 user, one row of each table, 2 passwords, 2 handlers, failures |
| `assignment` | Is whoever works on a ticket a member? Does the auto-assignment choose the one the workload lists first? Does import read what export writes? (3 080 000 states) | 2 developers, 2 tickets created IN_REVIEW and patched to DONE, 2 handlers that may both choose, imports of any length |
| `comments` | Do mentions match what the extraction finds in the content, and does none outlive what it refers to? (349 000 states) | 3 users, one with a name that is cut to another's, 1 comment, 3 handlers, failures |
| `attachments` | Do files, rows and audit rows agree? Is an attachment there until its own DELETE? (203 000 states) | 1 ticket, 2 attachments, 3 paths, 2 handlers, failures |
| `escalation_reverts_status` | violation, section 4 | 1 ticket, 1 handler, 1 run |
| `pool_exhausted` | violation, section 4 | 2 transactions, 1 waiting statement, 2 connections |

Why the bounds are enough. Tickets interact only through the cascade and the
dependencies, which get two each: enough for one carried and one left behind,
for a blocker and its dependent. `assignment` needs two tickets, one to weigh on
a developer and one to be assigned; two statuses stand for the open ones and the
closed one, since the counts of the open ones are only ever added up. All of its
users are developers: for anybody else linking is skipped. Two handlers show
every race between two calls, and a handler that is done may start another call
while the other one is under way, as often as it likes; `comments` has three,
since a rebuild may be overtaken by two others. In `lifecycle_escalation` a
ticket from HIGH needs two runs up to the flag, and the PATCH may put it back
before, between and after them. `attachments` has a third path, for the upload
after a failed one. `accounts` was also explored with two users and one password
(5 700 000 states). No safety property rests on the bounds: all are proved for
every instance (section 6). For `ExportIsImported` TLC takes the tickets as the
calls left them and the other columns from one word, padded or not, in either
case; the proof has no such bounds. The clock needs two values, before and after
a due date, in `TicketLifecycle`. In `Sessions` the interesting instant is the
one when the token has expired in ticks and not yet in seconds, so a second has
two ticks and the clock passes the last possible expiry. In `pool` two
transactions and one waiting statement need four connections by
`EnoughConnections`, and there is a fifth for the BEGIN that fails;
`pool_exhausted` has two connections for the same callers.

`CHECK_DEADLOCK FALSE` appears where the system really stops: in `accounts`,
when all users are gone or nothing is left to do, and in `pool_exhausted`, whose
point it is.

Every property of a passing run has a mutant in `PROJECT.json`: a changed
definition (a dropped guard, a swapped order, a missing release) with which the
same run finds the property violated.

## 4. Where the code and its documents part

Each of the two violation runs checks what a document says and gets a
counterexample.

* **`escalation_reverts_status`** (`ticket-escalation.service.ts:58`). The run
  saves whole entities read at its start. A PATCH that commits in between is
  overwritten, status included; FR-ESC-004 says escalation does not change
  `status`.
* **`pool_exhausted`** (`tickets.service.ts:171`). Callers that each hold a
  connection and wait, for a second one or for a row that one of the others has
  locked, wait for ever once they hold all of them, and a PATCH that should be
  told 409 at once waits as well.

Other disagreements were met while modelling, each found by TLC as a
counterexample to a stricter property. No run and no theorem leaves these races
out: the calls overlap freely, and the property states what holds beside them,
as an exception that can be read in it.

* `cascade`. `deleteProject` beside `updateProject`: PATCH saves the entity it
  read while the project was active and writes `deletedAt = NULL` over the
  deletion (`projects.service.ts:94`); the project is active and its tickets are
  deleted and marked (`strays`). Beside `createTicket`: the project is checked at
  `tickets.service.ts:71` and the ticket inserted at 87, after the cascade listed
  the tickets (`late`). Beside `restoreTicket`: the restore is two statements,
  lines 228 and 229; a cascade between them marks the ticket and the second
  wipes the mark, so a restore of the project leaves the ticket deleted
  (`removedBy = "unmarked"`); a restore after the list leaves an active ticket in
  a deleted project, which `spec.md:683-684` intends for a restore after the
  deletion (`late`). Beside the escalation: its save (`ticket-escalation.service.ts:58`)
  puts a deleted ticket back (`late`), or a mark that a restore has cleared
  meanwhile (`strays`).
* In `cascade`, a ticket deleted on its own while a cascade has it on its list
  is taken over by the cascade (`projects.service.ts:121`) and comes back with
  the project, although BR-11 says that individually deleted tickets remain
  deleted; so does one whose own DELETE comes between the two statements of its
  RESTORE and finds the old mark. `OwnDeletionStays` admits exactly these
  (`removedBy = "both"`).
* `deps`. DELETE of a project soft-deletes its tickets and leaves their rows in
  `ticket_dependencies` (`projects.service.ts:112-133`); BR-13
  (`spec.md:450-452`) allows for soft-deleted blockers. The exception `kept` is
  these rows, and the one that `add` inserts for a ticket deleted since it looked
  (`dependencies.service.ts:35`, FR-DEP-003); `DeletedIsMentionedInKeptRows` says
  that there are no others, so every row that a DELETE of the ticket alone should
  purge is purged, or came late. A DELETE also purges a row added after it
  counted (`tickets.service.ts:191`, FR-TKT-013), or one whose other ticket was
  restored after that: `added` and `turned`. A blocker that is restored, or that
  a stale save of the escalation makes active or open again, after a PATCH has
  looked is open when the PATCH makes its ticket DONE (FR-TKT-010): `turned`
  again. What the gate does exclude, though it is not repeated at the commit, is
  that a new row opens one.
* `lifecycle_escalation`. Cron starts a run beside the last one
  (`escalation.job.ts:11`), PATCHes set priorities, and a run locks nothing.
  The slower of two runs saves its older snapshot, which can take the ticket down
  a rung (BR-04), and a PATCH that resets the priority after the query is
  overwritten: `ClimbsOneRung` speaks of tickets that nobody else moved since
  the query (`crossed`), and of what else may move one. Between the two halves of
  `save` a PATCH, or another run, can set columns that the second half does not
  write, so that a ticket is flagged below CRITICAL: `FlagStaysAtTop` says that
  this is the only way. The stale save also revives a ticket that was
  soft-deleted during the run, which `AtomicTickets` allows an escalation and no
  handler.
* `pool`. `connect()` and `startTransaction()` stand before the `try`
  (`transaction-runner.ts:10-11` and `26-27`), so a BEGIN that throws leaves its
  connection checked out for good; `lost` counts these, and PoolSize of them stop
  the service. The waits are bounded by the connections that are left only if
  these outnumber all who can hold one while they wait: that includes the single
  statements that wait for the row of a PATCH (`tickets.service.ts:228`,
  `dependencies.service.ts:35`, `ticket-escalation.service.ts:58`), so one PATCH
  and PoolSize - 1 of them are enough for everybody to wait for ever. Nothing in
  the code keeps their number below PoolSize; `EnoughConnections` is the condition
  in `SomeoneCanGoOn` and `EveryCallReturns`, and `pool_exhausted` shows what
  happens without it.
* `accounts` states what is left of four rules. The count of a user's open
  tickets leaves soft-deleted ones out (`users.service.ts:108`), although BR-14
  includes "tickets on soft-deleted projects"; one caller is enough. A profile
  update saves the `passwordHash` it read (`users.service.ts:87`), which undoes
  a first login in between, although FR-USER-004 allows `fullName` and `role`
  only. Two concurrent first logins
  both enrol (PD-09), so `OnlyStaleReadsReplacePassword` speaks of handlers
  that read in time. A ticket assigned after the count loses its assignee to the
  deletion (BR-14), so `OpenTicketKeepsItsAssignee` speaks of tickets that were
  open all along. The audit row of a deletion that a foreign key refuses stays
  (BR-18), so `DeletionIsAudited` goes in one direction. A profile update that
  began before a deletion inserts the user again.
* `assignment`: DELETE of a ticket drops the membership of an assignee without
  other tickets (`tickets.service.ts:207`), although `research.md:82` calls
  membership "sticky (not removed on unassign or ticket soft-delete)". RESTORE
  does not bring it back, so `AssigneesAreMembers` excepts restored tickets; and
  it excepts a membership dropped by a count that was overtaken. An
  auto-assignment disturbed while it counts may choose anybody, so
  `ChoiceIsLeastLoaded` speaks of the others. Import does the same for each of
  its lines, and reports a stored line as failed when its audit row fails.
* CSV: POST takes a title of blanks only (`create-ticket.dto.ts:12`), and import
  refuses the line export writes for it; `ExportIsImported` says so. `spec.md:559`
  asks for "case-sensitive enum matching", `parseEnum` turns everything into
  upper case. BR-16 lists a `dueDate` column, but the header check takes it for
  unexpected, so the lines that parse it (`csv-import.service.ts:121-128`) are
  never reached; the model leaves them out.
* `attachments`: a failure between file and row leaves one without the other,
  for good (`left`). FR-ATT-002 allows `text/plain`, but plain text has no
  signature, so `file-type` finds no type in it and the upload is refused
  (`file-validation.service.ts:24`). The content type stored is the declared one;
  the bytes need only be of some allowed type. A DELETE of the ticket between
  the look-up and the insert leaves a deleted ticket with a new attachment, which
  is legal, since a DELETE keeps attachments for a RESTORE.
* `comments`: `POST /users` takes any name without white space
  (`users.service.ts:49`, `spec.md:520`: "single token" for `@mentions`), and
  `/@(\w+)/` (`mention-parser.service.ts:53-56`) cuts a name at the first
  character that is no letter, digit or `_`: whoever is called `john-doe` is never
  mentioned, and `john` is in his place. `MentionsMatchContent` is about the words
  the extraction finds, `comments` has such a user. The mentions are rebuilt
  after the commit, outside the lock (`comments.service.ts:107`). When two
  rebuilds of a comment overlap, one of them fails on the unique key, or they
  leave a mixture; a failure leaves a part. A comment that names somebody who
  signs up later shows him among its `mentionedUsers`, computed from the content,
  and not among his mentions. `MentionsMatchContent` excepts these comments
  (`stale`) until the next rebuild that runs alone.
* `sessions`: the guard compares the expiry before it awaits the deny-list, so a
  request may pass with a token that expires, and is purged, under way.
  `SignedOutIsRefused` says so.

## 5. Fairness

Assumed only where a liveness property is checked, as `FairSpec`,
`FairLadderSpec` and `FairPoolSpec`:

* `TicketLifecycle`: time passes; a handler inside a transaction gets to its end
  (its awaits return); cron starts runs and their awaits return. Strong fairness
  of `JobUpdate` alone: PostgreSQL queues the waiter of a row lock, and a later
  NOWAIT cannot overtake it. Clients owe nothing: no fairness on any first step.
  `OverdueIsFlagged`, in `TicketLadder`, is conditional on top of that: from some
  time on no run fails, none overlaps another and no PATCH moves a rung.
* `ProjectCascade`: strong fairness of each handler's progress, for the same
  reason, as its UPDATEs wait for rows others keep taking.
* `ConnectionPool`: weak fairness of progress (the pool queue is explicit),
  strong of `Lock` and of the `Statement` of those who wait for a row.
  `EveryCallReturns` is conditional on `EnoughConnections`.
* `Sessions`: time passes, and a purge with the present time recurs. The job
  runs every six hours.

Never assumed: that a failure happens or not, or that a client repeats a call.

## 6. Proofs

| Module | About | Assumptions on the constants |
|---|---|---|
| `TicketLifecycleProofs` | `TicketLifecycle`, its refinement of `AtomicTickets`, `TicketLadder` | `RulesAssumption`, `LifecycleAssumption` |
| `ProjectCascadeProofs` | `ProjectCascade` | `CascadeAssumption` |
| `TicketDependenciesProofs` | `TicketDependencies` | `DependencyAssumption` |
| `AssignmentProofs` | `Assignment` and, under it, `CsvRules` | `AssignmentAssumption`, `CsvAssumption` |
| `AccountsProofs` | `Accounts` | `AccountAssumption` |
| `CommentsProofs` | `Comments` | `CommentsAssumption`, `ExtractionAssumption` |
| `AttachmentsProofs` | `Attachments` | `AttachmentsAssumption` |
| `SharedServicesProofs` | what every request goes through: the guard (`Sessions`) and the pool (`ConnectionPool`) | `SessionAssumption`, `PoolAssumption` |

`tlapm` checks them to the last leaf. They hold for every value of the constants
that satisfies the named assumptions: any number of tickets, comments,
attachments, users, projects, passwords, tokens, callers, handlers and runs, any
set of PATCH bodies and new rows, any clock bound, any ticks to a second, any
token life, any pool, any words in a CSV file. Two assumptions ask for finite
sets because the theorems count: the tickets of `Assignment` (a developer's load
is a cardinality) and the callers of `ConnectionPool` (so is what is in use).

Every invariant that a passing run checks is a theorem, every action property
too, and so is the refinement. No theorem has a hypothesis beside the named
assumptions: where the code has a race that breaks a rule (section 4), the
exception is part of the property, in terms of a history variable that the
racing step itself sets, and the theorem says that there is no other.

* **Tickets.** `Inv` is the conjunction of `TypeOK`, `LockDiscipline`,
  `LockedSnapshotIsCurrent`, `PendingWritesAreJustified` and
  `DeletionIsAudited`. None but `TypeOK` and `LockDiscipline` is inductive by
  itself. That the audit row precedes the deletion needs to know that whatever
  commits is either an edit of an active row or a deletion already audited
  (`PendingWritesAreJustified`); that in turn speaks of the snapshot, so it
  needs `LockedSnapshotIsCurrent`, which needs the lock; and the escalation
  could revive or write anything unless its batch is known to hold active rows.
  `InitInv` and `StepInv` (one step per action, one below it per conjunct)
  give `Invariance`. From it: `TypeCorrectness`, `LockExclusion`,
  `DeletionAudited`; the action property
  `LockedRowsMoveForward`; and the refinement
  `HandlersImplementAtomicTickets`, in which the escalation runs take part: a
  step of a run maps to `Escalate`, which may overwrite a ticket that exists, and
  every step of a handler to a request of its own or to no change. That `job`
  tells the two apart keeps a handler's mistake from passing for an escalation.
  The ladder is a second invariant on top of the first, `Ladder`: what a run
  holds of a ticket that is not `crossed` is on the rung of the row and has its
  flag (`BatchIsOnItsRung`), although the row may have another status or be
  deleted by now; what it is about to save is one step of the escalation from
  there (`SaveIsOneStep`), and of a crossed ticket still something the escalation
  made, which is what bounds the flag; and a run that has not begun holds nothing
  (`WaitingRunsAreEmpty`). `HandlersResetTheRung` says what a PATCH does to a
  rung, `RunReads` and `LadderStep` carry the invariant through a run while
  others save, and `DiffUpdateRung` over the reload inside of `save`. From it,
  for any number of overlapping runs and any PATCH bodies: `FlagAtTop` and
  `OneRung`.
* **Projects.** `Placed` is types, locks and who is where. `CarriedIsRight` says
  what the list of a cascade under way is worth: that of a deletion holds every
  active ticket that is not `late`, and of the others only those that were
  deleted on their own since; that of a restore holds every marked ticket but the
  `strays`, and none of the deleted ones that only its own DELETE took.
  `TicketIsRight` is the property and that such a ticket has no mark. There is a
  lemma for each kind of statement: `QuietStep` for those that change no row,
  `ListStep`, `UpdateStep`, `CommitStep` for the cascade, `SaveStep` for the PATCH
  of the project, and `OneTicketStep` with its instances (`CreateStep`,
  `RestoreStep`, `DeleteStep`, `ClearStep`, `EscalationStep`) for whoever writes
  one ticket; `ActivatedStep` for those among them that make it active.
  From the invariant: `Cascade` and, for the action property, `OwnDeletion`.
* **Dependencies.** `HandlerIsRight` says that what a handler has found still
  stands, except where it remembers a change: the open blockers of a PATCH past
  the gate are in its `turned`; what depends on the ticket of a DELETE past its
  counts, or blocks it, is in its `turned` or `added`; the tickets of a POST are
  active or in its `turned`. `StaysRight` carries this through any step of anybody
  that turns some tickets and inserts some rows, provided that it remembers them
  with every call under way, and each action is an instance of it. That a row
  inserted beside a PATCH changes nothing for its gate comes from the foreign-key
  lock, that it is in `kept` if one of its tickets is deleted from the third part.
  `DeletedIsMentionedInKeptRows` is part of the invariant. From it: `DoneGate`
  (`WhoMakesDone`: only a PATCH does), `DeletedAreForgotten` and
  `LiveDependenciesStay`.
* **Assignment.** `TicketIsRight`: whoever works on an active ticket has his
  membership, unless the ticket was restored or the membership dropped by a count
  that was overtaken. `HandlerIsRight` says the same of the user a handler is
  about to write, and of everyone in the pool of a choice. For the choice it says
  what the counts of an undisturbed one add up to (`FoundBefore`) and that the
  best so far beats everyone compared (`ChoiceIsRight`); `LoadIsTheSum`, that the
  load is the sum of the counts by status, makes the end of the counts the load
  that the workload shows. From it, without hypotheses: `Membership`, `Choice`
  and `ExportImport`. The last is `RoundTrip` for the tickets as the calls left
  them, column by column: `ValuesAreParsed` for the enums, `AssigneeIsParsed` for
  the empty cell and the ids, `ExportedIsParsed` for the quoting.
* **Pool.** `PoolInv` has two facts about places, `Fits` (who can be where, and
  that only a writer is in a transaction) and `LocksAreHeld`; and the queue
  holds callers who asked for a connection, each once (`QueueIsRight`), or
  giving one back could hand it to somebody who has two. Then
  `PoolIsAccountedFor` is inductive: `TotalChanges` says how the connections in
  use change with the place of one caller, `TwoMove` with those of two;
  `CallerMoves`, `TakeInv` and `GiveBackInv` stand for the kinds of step, and
  `BeginFailsInv` for the one at which a connection goes from in use to lost.
  From it `Accounting`; and `NoTrap`: if everybody were stuck, every connection
  in use would be the only one of a writer or of a statement that waits for a
  row, so with `EnoughConnections` one would be free, and then nobody is in the
  queue; whoever waits for a row waits for a writer who has it, and that one is
  not stuck.
* **Sessions.** `Inv` strengthens `DenyListCoversUsable` with what a request
  knows (`RequestIsSound`: one about to answer a logout has its token on the
  deny-list, or expired) and with "signed-out tokens were issued". The core is
  arithmetic: `exp * TicksPerSecond < clock` implies
  `clock \div TicksPerSecond >= exp`, so the purge in milliseconds never
  overtakes the guard in seconds. From it `SessionTypes`, `LogoutIsFinal` and
  `GuardRefusesSignedOut`.
* **Accounts.** `HandlerIsSound` says what a handler still knows of rows that it
  has read and others write: the tickets it remembers are the user's and in work,
  a deletion past its counts remembers none, one past its audit insert is in the
  log, and a login about to save read a row without a password, an update the
  hash it carries. With `OwnersAreUsers` it makes `ReferencesExist` and
  `DeletionIsAudited` inductive; the last statement of a deletion is the only
  step at which a reference could dangle. `TicketsMove` is the lemma for every
  step that takes tickets from their assignees. From it: `Typing`, `References`,
  `AuditedDeletion`, and the action properties `KeptAssignee` and `StaleReads`.
* **Comments.** `MentionsMatchContent` speaks of the time after a rebuild;
  `RebuildsAreOnCourse` says what is true during one: the rows are those of the
  names it is through with, and it is the only rebuild of a comment that is not
  stale. The lemmas `RebuildBegins`, `RebuildGoesOn`, `RebuildEnds`,
  `BystanderMoves` and `RowsGo` each stand for a kind of step, and each action
  is an instance of one. From the invariant: `Typing`,
  `MentionsRefer` and `MentionsAreThoseOfTheContent`. The extraction is any
  function whose words are cut no further (`ExtractionAssumption`): `WordsAreNames`
  is all the proof needs of it.
* **Attachments.** `StoresAgree` needs two facts more. `PathsAreOwn`: no two rows
  name one path, and the path of an upload that has not inserted its row is in
  nobody else's hands. `HandlerIsRight`: a DELETE holds the path of its own row
  as long as there is that row, and what it has unlinked is gone or known as left
  behind; so the second of two DELETEs of one attachment cannot remove a file
  that an upload has written since. From the invariant: `TypeCorrectness`,
  `Agreement` and, for the action property, `GoneByItsDelete`.

TLC checked each of these invariants on the instance of a run, the strengthened
ones included.

Only model-checked: liveness (`OverdueIsFlagged`, `DenyListIsEmptied`, the two
`EveryCallReturns`), because fairness and ENABLED are out of the prover's reach.
Induction over data and RECURSIVE operators are out of reach as well; no module
uses them.

## 7. What is not modelled, and why

The counters of an import's summary, and quoting inside of a CSV field, which is
the libraries' business. Soft deletion of a ticket beside its comments, which it
leaves alone. Sizes and names of attachments. The role guard compares the role of
the user the JWT strategy has just read with the roles of the endpoint; a model
of it would restate its one condition. Controllers, DTOs, the exception filter,
read-only queries and configuration keep no state.
`src/postman/generate-collection.js` is a tool that writes example requests.
`ticket-patch.service.ts` and `comment-patch.service.ts` are injected nowhere.
User names and e-mails (unique indexes), and descriptions and types of tickets
outside of CSV are data no rule here tells apart. Row locks on users and
memberships: the wait that crosses the process and the database
(`tickets.service.ts:162`, a PATCH that inserts a membership while a deletion of
the user holds it) needs a developer without any open ticket to be deleted and
linked at the same time, and is an instance of the wait `pool` has, for a second
connection under a lock. A message lost between client and server is the same as
a handler that dies or one whose answer nobody reads.

## 8. Plan

All modules of section 2 are written, checked and proved about. What is left:

1. `DeletionIsAudited` for a ticket deleted repeatedly: one row for each
   deletion rather than at least one.
2. An abstract specification of `Comments`, content and mentions changing
   together, for comments whose rebuilds do not overlap.
