-------------------------- MODULE TicketLifecycle --------------------------
(* Ticket rows under concurrent HTTP handlers and escalation runs.          *)
(*                                                                          *)
(* A handler (r \in Reqs) awaits the database between its statements, so    *)
(* every await is a separate step here and handlers interleave.  PATCH and  *)
(* DELETE run in a transaction on their own connection: what they wrote is  *)
(* in req[r].new until Commit, and the row lock is held until then.  The    *)
(* audit row is inserted through another connection, so it is visible       *)
(* before the commit and survives a rollback.                               *)
(*                                                                          *)
(* An escalation run (j \in Jobs) is one activation of the cron handler; it *)
(* has no lock and no transaction around its loop, and a cron activation    *)
(* does not wait for the previous one.                                      *)
(*                                                                          *)
(* Left out: title, description and assignee (columns no rule here reads),  *)
(* and what the project, assignee and blocker look-ups of PATCH and DELETE  *)
(* answer, which is a free choice to refuse (PatchRefuse, Refuse).          *)
EXTENDS TicketRules, FiniteSets

CONSTANTS
    Tickets, Reqs, Jobs,
    Free,       \* no handler holds the row lock
    NoTicket, NoRow,
    NewRows,    \* the rows POST /tickets may insert
    Edits,      \* the PATCH bodies clients send
    Fallible    \* the handlers and runs that may die between two statements

ASSUME LifecycleAssumption ==
    /\ Free \notin Reqs
    /\ NoTicket \notin Tickets
    /\ NoRow \notin Row
    /\ NewRows \subseteq {x \in Row : x.life = "active" /\ x.isOverdue = FALSE}
    /\ Edits \subseteq Edit
    /\ Fallible \subseteq Reqs \cup Jobs

VARIABLES
    clock,
    row,        \* row[t]: the committed row
    lock,       \* lock[t]: the handler whose transaction locked the row
    audit,      \* audit[t]: the actions audit_logs holds for the ticket
    req,        \* req[r]: where handler r is, and its local variables
    job         \* job[j]: where run j is, and its local variables

vars == <<clock, row, lock, audit, req, job>>

Operations == {"CREATE", "UPDATE", "SOFT_DELETE", "RESTORE"}

Handler == [pc : {"idle", "created", "locked", "checked", "written",
                  "audited", "found", "restored"},
            op : Operations, t : Tickets \cup {NoTicket},
            snap : Row \cup {NoRow}, new : Row \cup {NoRow}]

Run == [pc : {"idle", "started", "loop", "loaded", "saved"}, now : Times,
        batch : [Tickets -> Row \cup {NoRow}], t : Tickets \cup {NoTicket},
        base : Row \cup {NoRow}, new : Row \cup {NoRow}]

AbsentRow == [life |-> "absent", status |-> "TODO", priority |-> "LOW",
              isOverdue |-> FALSE, due |-> NoDue]

IdleHandler == [pc |-> "idle", op |-> "UPDATE", t |-> NoTicket,
                snap |-> NoRow, new |-> NoRow]

EmptyBatch == [t \in Tickets |-> NoRow]

IdleRun == [pc |-> "idle", now |-> 0, batch |-> EmptyBatch, t |-> NoTicket,
            base |-> NoRow, new |-> NoRow]

TypeOK ==
    /\ clock \in Times
    /\ row \in [Tickets -> Row]
    /\ lock \in [Tickets -> Reqs \cup {Free}]
    /\ audit \in [Tickets -> SUBSET (Operations \cup {"ESCALATE"})]
    /\ req \in [Reqs -> Handler]
    /\ job \in [Jobs -> Run]

Init ==
    /\ clock = 0
    /\ row = [t \in Tickets |-> AbsentRow]
    /\ lock = [t \in Tickets |-> Free]
    /\ audit = [t \in Tickets |-> {}]
    /\ req = [r \in Reqs |-> IdleHandler]
    /\ job = [j \in Jobs |-> IdleRun]

Tick ==
    /\ clock < MaxTime
    /\ clock' = clock + 1
    /\ UNCHANGED <<row, lock, audit, req, job>>

----------------------------------------------------------------------------
(* Row locks.  SELECT ... FOR UPDATE NOWAIT fails on a locked row (the 409  *)
(* answer changes nothing, so it is not a step); a plain UPDATE waits.      *)
IgnoreLock(t) == TRUE

Unlocked(t) == lock[t] = Free

Release(r) == [t \in Tickets |-> IF lock[t] = r THEN Free ELSE lock[t]]

Finish(r) ==
    /\ req' = [req EXCEPT ![r] = IdleHandler]
    /\ lock' = Release(r)

(* An exception anywhere in a handler: the transaction, if there is one, is *)
(* rolled back; what was committed on other connections stays.              *)
Fail(r) ==
    /\ r \in Fallible
    /\ req[r].pc # "idle"
    /\ Finish(r)
    /\ UNCHANGED <<clock, row, audit, job>>

(* POST /tickets: INSERT, then the audit row, without a transaction.        *)
Create(r, t) ==
    /\ req[r].pc = "idle"
    /\ row[t].life = "absent"
    /\ \E new \in NewRows : row' = [row EXCEPT ![t] = new]
    /\ req' = [req EXCEPT ![r] = [@ EXCEPT !.pc = "created", !.op = "CREATE", !.t = t]]
    /\ UNCHANGED <<clock, lock, audit, job>>

(* PATCH: lock the row and read it; a deleted row is invisible (404).       *)
PatchLock(r, t) ==
    /\ req[r].pc = "idle"
    /\ row[t].life = "active"
    /\ Unlocked(t)
    /\ lock' = [lock EXCEPT ![t] = r]
    /\ req' = [req EXCEPT ![r] = [@ EXCEPT !.pc = "locked", !.op = "UPDATE",
                                           !.t = t, !.snap = row[t]]]
    /\ UNCHANGED <<clock, row, audit, job>>

(* PATCH: the checks pass, the fields are assigned and manager.save writes  *)
(* them inside the transaction.                                             *)
PatchSave(r) ==
    /\ req[r].pc = "locked"
    /\ \E edit \in Edits :
         /\ EditAccepted(req[r].snap, edit)
         /\ req' = [req EXCEPT ![r] = [@ EXCEPT !.pc = "written",
                                                !.new = Edited(req[r].snap, edit)]]
    /\ UNCHANGED <<clock, row, lock, audit, job>>

(* PATCH: a check throws, and the transaction is rolled back.               *)
PatchRefuse(r) ==
    /\ req[r].pc = "locked"
    /\ Finish(r)
    /\ UNCHANGED <<clock, row, audit, job>>

----------------------------------------------------------------------------
(* DELETE: read the ticket and its dependencies outside the transaction.    *)
DeleteCheck(r, t) ==
    /\ req[r].pc = "idle"
    /\ row[t].life = "active"
    /\ req' = [req EXCEPT ![r] = [@ EXCEPT !.pc = "checked", !.op = "SOFT_DELETE", !.t = t]]
    /\ UNCHANGED <<clock, row, lock, audit, job>>

(* DELETE: the UPDATE of deletedAt waits for the row and then locks it.     *)
DeleteWrite(r) ==
    /\ req[r].pc = "checked"
    /\ Unlocked(req[r].t)
    /\ lock' = [lock EXCEPT ![req[r].t] = r]
    /\ req' = [req EXCEPT ![r] = [@ EXCEPT !.pc = "written", !.snap = row[req[r].t],
         !.new = [row[req[r].t] EXCEPT !.life = "deleted"]]]
    /\ UNCHANGED <<clock, row, audit, job>>

(* RESTORE: find the deleted ticket, and later clear deletedAt, in          *)
(* statements of their own.                                                 *)
RestoreFind(r, t) ==
    /\ req[r].pc = "idle"
    /\ row[t].life = "deleted"
    /\ req' = [req EXCEPT ![r] = [@ EXCEPT !.pc = "found", !.op = "RESTORE", !.t = t]]
    /\ UNCHANGED <<clock, row, lock, audit, job>>

RestoreWrite(r) ==
    /\ req[r].pc = "found"
    /\ Unlocked(req[r].t)
    /\ row' = [row EXCEPT ![req[r].t].life = "active"]
    /\ req' = [req EXCEPT ![r] = [@ EXCEPT !.pc = "restored"]]
    /\ UNCHANGED <<clock, lock, audit, job>>

(* DELETE refuses a ticket with dependencies; RESTORE one whose project is  *)
(* still deleted.                                                           *)
Refuse(r) ==
    /\ req[r].pc \in {"checked", "found"}
    /\ Finish(r)
    /\ UNCHANGED <<clock, row, audit, job>>

(* AuditService.log, committed at once on a connection of its own.          *)
Audit(r) ==
    /\ req[r].pc \in {"created", "written", "restored"}
    /\ audit' = [audit EXCEPT ![req[r].t] = @ \cup {req[r].op}]
    /\ req' = [req EXCEPT ![r] = IF req[r].pc = "written"
                                 THEN [req[r] EXCEPT !.pc = "audited"] ELSE IdleHandler]
    /\ UNCHANGED <<clock, row, lock, job>>

CommitBeforeAudit(handler) == handler.pc \in {"written", "audited"}

ReadyToCommit(handler) == handler.pc = "audited"

Commit(r) ==
    /\ ReadyToCommit(req[r])
    /\ row' = [row EXCEPT ![req[r].t] = req[r].new]
    /\ Finish(r)
    /\ UNCHANGED <<clock, audit, job>>

----------------------------------------------------------------------------
(* Escalation.  The run captures the time, then reads every candidate row   *)
(* at once; the rows that are not yet overdue are skipped by the loop.      *)
JobStart(j) ==
    /\ job[j].pc = "idle"
    /\ job' = [job EXCEPT ![j] = [@ EXCEPT !.pc = "started", !.now = clock]]
    /\ UNCHANGED <<clock, row, lock, audit, req>>

JobFind(j) ==
    /\ job[j].pc = "started"
    /\ job' = [job EXCEPT ![j] = [@ EXCEPT !.pc = "loop",
         !.batch = [t \in Tickets |->
                      IF Overdue(row[t], job[j].now) THEN row[t] ELSE NoRow]]]
    /\ UNCHANGED <<clock, row, lock, audit, req>>

(* repository.save, first half: the entity is the stale snapshot, escalated;*)
(* the ORM reads the row again only to find which columns differ from it.   *)
JobLoad(j, t) ==
    /\ job[j].pc = "loop"
    /\ job[j].batch[t] # NoRow
    /\ job' = [job EXCEPT ![j] = [@ EXCEPT !.pc = "loaded", !.t = t, !.base = row[t],
         !.new = Escalated(job[j].batch[t]),
         !.batch = [job[j].batch EXCEPT ![t] = NoRow]]]
    /\ UNCHANGED <<clock, row, lock, audit, req>>

(* The columns in which the saved entity differs from the row as loaded are *)
(* overwritten, the others keep what the row holds by then.                 *)
DiffUpdate(current, base, new) ==
    [life      |-> IF new.life = base.life THEN current.life ELSE new.life,
     status    |-> IF new.status = base.status THEN current.status ELSE new.status,
     priority  |-> IF new.priority = base.priority THEN current.priority
                                                   ELSE new.priority,
     isOverdue |-> IF new.isOverdue = base.isOverdue THEN current.isOverdue
                                                     ELSE new.isOverdue,
     due       |-> IF new.due = base.due THEN current.due ELSE new.due]

(* repository.save, second half: an UPDATE that waits for the row, or none. *)
JobUpdate(j) ==
    /\ job[j].pc = "loaded"
    /\ job[j].new = job[j].base \/ Unlocked(job[j].t)
    /\ row' = [row EXCEPT ![job[j].t] = DiffUpdate(@, job[j].base, job[j].new)]
    /\ job' = [job EXCEPT ![j] = [@ EXCEPT !.pc = "saved"]]
    /\ UNCHANGED <<clock, lock, audit, req>>

JobAudit(j) ==
    /\ job[j].pc = "saved"
    /\ audit' = [audit EXCEPT ![job[j].t] = @ \cup {"ESCALATE"}]
    /\ job' = [job EXCEPT ![j] = [@ EXCEPT !.pc = "loop", !.t = NoTicket,
                                           !.base = NoRow, !.new = NoRow]]
    /\ UNCHANGED <<clock, row, lock, req>>

JobEnd(j) ==
    /\ job[j].pc = "loop"
    /\ job[j].batch = EmptyBatch
    /\ job' = [job EXCEPT ![j] = IdleRun]
    /\ UNCHANGED <<clock, row, lock, audit, req>>

(* One failing save or audit insert ends the whole run.                     *)
JobFail(j) ==
    /\ j \in Fallible
    /\ job[j].pc # "idle"
    /\ job' = [job EXCEPT ![j] = IdleRun]
    /\ UNCHANGED <<clock, row, lock, audit, req>>

----------------------------------------------------------------------------
HandlerStep(r) ==
    \/ \E t \in Tickets : \/ Create(r, t)
                          \/ PatchLock(r, t)
                          \/ DeleteCheck(r, t)
                          \/ RestoreFind(r, t)
    \/ PatchSave(r) \/ PatchRefuse(r) \/ DeleteWrite(r) \/ RestoreWrite(r)
    \/ Refuse(r) \/ Audit(r) \/ Commit(r) \/ Fail(r)

JobProgress(j) ==
    \/ JobStart(j) \/ JobFind(j) \/ JobUpdate(j) \/ JobAudit(j) \/ JobEnd(j)
    \/ \E t \in Tickets : JobLoad(j, t)

Next ==
    \/ Tick
    \/ \E r \in Reqs : HandlerStep(r)
    \/ \E j \in Jobs : JobProgress(j) \/ JobFail(j)

Spec == Init /\ [][Next]_vars

(* Fairness: time passes, a handler that holds a lock gets to its end, cron *)
(* starts a run every minute and the run's awaits return.  Strong fairness  *)
(* of JobUpdate is PostgreSQL's: the waiter of a row lock is granted it     *)
(* before a later NOWAIT can take it again.                                 *)
Fairness ==
    /\ WF_vars(Tick)
    /\ \A r \in Reqs : WF_vars(PatchRefuse(r)) /\ WF_vars(Audit(r))
                       /\ WF_vars(Commit(r))
    /\ \A j \in Jobs : WF_vars(JobProgress(j)) /\ SF_vars(JobUpdate(j))

FairSpec == Spec /\ Fairness

----------------------------------------------------------------------------
Holds(r, t) == req[r].t = t /\ req[r].pc \in {"locked", "written", "audited"}

(* A row lock belongs to exactly the handler that is inside a transaction   *)
(* on that ticket, so two edits of one ticket never overlap: the overlapping*)
(* PATCH got 409 and a DELETE waits.                                        *)
LockDiscipline ==
    \A r \in Reqs, t \in Tickets : lock[t] = r <=> Holds(r, t)

(* As long as PATCH or DELETE holds the lock, the row is still the one it   *)
(* read: nobody, the escalation included, writes under the lock, so what    *)
(* the handler validated is what it overwrites.                             *)
LockedSnapshotIsCurrent ==
    \A r \in Reqs, t \in Tickets : Holds(r, t) => row[t] = req[r].snap

(* A ticket that is soft-deleted has a SOFT_DELETE audit row, even when a   *)
(* handler or the process died half way.                                    *)
DeletionIsAudited ==
    \A t \in Tickets : row[t].life = "deleted" => "SOFT_DELETE" \in audit[t]

Forward(old, new) ==
    StatusOrder[old.status] <= StatusOrder[new.status]

(* A row changes under a lock only by the commit of its holder: the status  *)
(* moves forward, and no column of a DONE ticket moves except deletedAt.    *)
LockedRowMovesForward ==
    [][\A t \in Tickets : lock[t] # Free /\ row'[t] # row[t] =>
         /\ lock'[t] = Free
         /\ row[t].life # "absent"
         /\ Forward(row[t], row'[t])
         /\ row[t].status = "DONE" => row'[t] = [row[t] EXCEPT !.life = "deleted"]
      ]_vars

(* Outside the escalation a committed DONE ticket keeps its status for good,*)
(* and a status never moves back.                                           *)
StatusNeverMovesBack ==
    [][\A t \in Tickets : row[t].life # "absent" => Forward(row[t], row'[t])]_vars

(* The interleaved handlers do to the rows only what indivisible requests   *)
(* could have done, and a run of the escalation only overwrites tickets that*)
(* exist: one it read before a DELETE comes back (its save clears           *)
(* deletedAt), none is lost.                                                *)
Atomic == INSTANCE AtomicTickets WITH Absent <- AbsentRow

HandlersAreAtomic == Atomic!Spec
============================================================================
