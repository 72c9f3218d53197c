------------------------- MODULE TicketDependencies -------------------------
(* The dependency table beside the tickets of one project: adding and       *)
(* removing a dependency, the DONE gate of PATCH, what DELETE of a ticket   *)
(* does with the rows that mention it, and what DELETE and restore of the   *)
(* project do to the tickets without touching those rows.                   *)
(*                                                                          *)
(* The foreign keys matter: inserting <<t, b>> takes a key-share lock on    *)
(* both ticket rows, which waits for the FOR UPDATE lock of a PATCH but not *)
(* for the plain UPDATE of a deletion.  lock[t] is the handler whose        *)
(* transaction has locked the row of t.                                     *)
(*                                                                          *)
(* Statuses are folded to OPEN and DONE, the only difference the gate sees; *)
(* the forward order is TicketLifecycle's.  The escalation is here for what *)
(* its stale save does to a blocker.                                        *)
EXTENDS Naturals, FiniteSets

CONSTANTS Tickets, Reqs, Free, NoTicket

ASSUME DependencyAssumption == Free \notin Reqs /\ NoTicket \notin Tickets

Endpoints == {"patch", "delete", "restore", "add", "remove",
              "deleteProject", "restoreProject", "escalate"}

VARIABLES
    ticket,     \* committed rows: status, deletedAt, deletedWithProjectId
    project,    \* committed row of the project: deletedAt
    deps,       \* ticket_dependencies: pairs <<ticketId, blockedByTicketId>>
    lock,
    req,        \* req[r]: where handler, or escalation, r is, and its local variables
    turned,     \* history: tickets deleted, restored or saved by the escalation since r looked
    added,      \* history: dependencies inserted since r looked
    kept        \* history: rows a deletion of the project left, or a late POST put in

history == <<turned, added, kept>>
vars == <<ticket, project, deps, lock, req, turned, added, kept>>

Life == {"active", "deleted"}

Ticket == [status : {"OPEN", "DONE"}, life : Life, withProject : BOOLEAN]

Rows == Tickets \X Tickets

Places == {"idle", "begun", "seen", "allowed", "marked"}

Handler == [pc : Places, call : Endpoints, t : Tickets \cup {NoTicket},
            b : Tickets \cup {NoTicket}, list : SUBSET Tickets]

Idle == [pc |-> "idle", call |-> "patch", t |-> NoTicket, b |-> NoTicket, list |-> {}]

TypeOK ==
    /\ ticket \in [Tickets -> Ticket]
    /\ project \in Life
    /\ deps \subseteq Rows
    /\ lock \in [Tickets -> Reqs \cup {Free}]
    /\ req \in [Reqs -> Handler]
    /\ turned \in [Reqs -> SUBSET Tickets]
    /\ added \in [Reqs -> SUBSET Rows]
    /\ kept \subseteq Rows

Init ==
    /\ ticket = [t \in Tickets |->
                   [status |-> "OPEN", life |-> "active", withProject |-> FALSE]]
    /\ project = "active"
    /\ deps = {}
    /\ lock = [t \in Tickets |-> Free]
    /\ req = [r \in Reqs |-> Idle]
    /\ turned = [r \in Reqs |-> {}]
    /\ added = [r \in Reqs |-> {}]
    /\ kept = {}

Active(t) == ticket[t].life = "active"

Mentioning(t) == {d \in deps : t \in {d[1], d[2]}}

PatchHolds(t) == \E r \in Reqs : lock[t] = r /\ req[r].call = "patch"

At(r, pc, call) == req[r].pc = pc /\ req[r].call = call

Start(r, pc, call, t, b) ==
    /\ req[r].pc = "idle"
    /\ req' = [req EXCEPT ![r] = [pc |-> pc, call |-> call, t |-> t, b |-> b,
                                  list |-> {}]]

Move(r, pc) == req' = [req EXCEPT ![r] = [@ EXCEPT !.pc = pc]]

Finish(r) ==
    /\ req' = [req EXCEPT ![r] = Idle]
    /\ lock' = [t \in Tickets |-> IF lock[t] = r THEN Free ELSE lock[t]]

(* The step turns tickets ts and inserts rows ds: every call under way      *)
(* remembers, a call that is over forgets.                                  *)
Remember(ts, ds) ==
    /\ turned' = [q \in Reqs |-> IF req'[q].pc = "idle" THEN {} ELSE turned[q] \cup ts]
    /\ added' = [q \in Reqs |-> IF req'[q].pc = "idle" THEN {} ELSE added[q] \cup ds]

(* Handler r reads the dependencies: what came before no longer counts.     *)
Looks(r) ==
    /\ turned' = [turned EXCEPT ![r] = {}]
    /\ added' = [added EXCEPT ![r] = {}]
    /\ UNCHANGED kept

Reads == UNCHANGED <<ticket, project, deps, lock>>

(* A check fails, or a statement does: the transaction is rolled back.      *)
GiveUp(r) ==
    /\ req[r].pc # "idle"
    /\ Finish(r)
    /\ Remember({}, {})
    /\ UNCHANGED <<ticket, project, deps, kept>>

----------------------------------------------------------------------------
(* PATCH with status DONE: lock the row NOWAIT, find the project active,    *)
(* look for blockers that are active and not DONE, both through another     *)
(* connection, save and commit.                                             *)
PatchLock(r, t) ==
    /\ Start(r, "begun", "patch", t, NoTicket)
    /\ Active(t)
    /\ ticket[t].status # "DONE"
    /\ lock[t] = Free
    /\ lock' = [lock EXCEPT ![t] = r]
    /\ UNCHANGED <<ticket, project, deps, turned, added, kept>>

PatchProject(r) ==
    /\ At(r, "begun", "patch")
    /\ project = "active"
    /\ Move(r, "seen")
    /\ Reads /\ UNCHANGED history

OpenBlockers(t) ==
    {b \in Tickets : <<t, b>> \in deps /\ Active(b) /\ ticket[b].status # "DONE"}

MayBeDone(t) == OpenBlockers(t) = {}

PatchGate(r) ==
    /\ At(r, "seen", "patch")
    /\ MayBeDone(req[r].t)
    /\ Move(r, "allowed")
    /\ Looks(r)
    /\ Reads

PatchCommit(r) ==
    /\ At(r, "allowed", "patch")
    /\ ticket' = [ticket EXCEPT ![req[r].t] = [@ EXCEPT !.status = "DONE"]]
    /\ Finish(r)
    /\ Remember({}, {})
    /\ UNCHANGED <<project, deps, kept>>

----------------------------------------------------------------------------
(* DELETE: find the ticket; count its blockers; count its dependents; then, *)
(* in a transaction, mark it, purge the rows that mention it, and commit.   *)
DeleteFind(r, t) ==
    /\ Start(r, "begun", "delete", t, NoTicket)
    /\ Active(t)
    /\ Reads /\ UNCHANGED history

NoDependents(t) == {}

BlockersOf(t)   == {b \in Tickets : <<t, b>> \in deps /\ Active(b)}
DependentsOf(t) == {d \in Tickets : <<d, t>> \in deps /\ Active(d)}

DeleteCountBlockers(r) ==
    /\ At(r, "begun", "delete")
    /\ BlockersOf(req[r].t) = {}
    /\ Move(r, "seen")
    /\ Looks(r)
    /\ Reads

DeleteCountDependents(r) ==
    /\ At(r, "seen", "delete")
    /\ DependentsOf(req[r].t) = {}
    /\ Move(r, "allowed")
    /\ Reads /\ UNCHANGED history

DeleteMark(r) ==
    /\ At(r, "allowed", "delete")
    /\ lock[req[r].t] = Free
    /\ lock' = [lock EXCEPT ![req[r].t] = r]
    /\ Move(r, "marked")
    /\ UNCHANGED <<ticket, project, deps, turned, added, kept>>

(* Nobody else writes a dependency row the purge would wait for, so purge   *)
(* and commit are one step.                                                 *)
DeleteCommit(r) ==
    /\ At(r, "marked", "delete")
    /\ ticket' = [ticket EXCEPT ![req[r].t] = [@ EXCEPT !.life = "deleted"]]
    /\ deps' = deps \ Mentioning(req[r].t)
    /\ kept' = kept \ Mentioning(req[r].t)
    /\ Finish(r)
    /\ Remember({req[r].t}, {})
    /\ UNCHANGED <<project>>

(* Restore of a ticket: refused if the row read says that it went with the  *)
(* project, and the project is still deleted; then two statements of their  *)
(* own.                                                                     *)
Restore(r, t) ==
    /\ Start(r, IF ticket[t].withProject THEN "begun" ELSE "allowed", "restore", t, NoTicket)
    /\ ~Active(t)
    /\ Reads /\ UNCHANGED history

RestoreFindProject(r) ==
    /\ At(r, "begun", "restore")
    /\ project = "active"
    /\ Move(r, "allowed")
    /\ Reads /\ UNCHANGED history

RestoreWrite(r) ==
    /\ At(r, "allowed", "restore")
    /\ lock[req[r].t] = Free
    /\ ticket' = [ticket EXCEPT ![req[r].t] = [@ EXCEPT !.life = "active"]]
    /\ Move(r, "marked")
    /\ Remember({req[r].t}, {})
    /\ UNCHANGED <<project, deps, lock, kept>>

RestoreUnmark(r) ==
    /\ At(r, "marked", "restore")
    /\ lock[req[r].t] = Free
    /\ ticket' = [ticket EXCEPT ![req[r].t] = [@ EXCEPT !.withProject = FALSE]]
    /\ Finish(r)
    /\ Remember({}, {})
    /\ UNCHANGED <<project, deps, kept>>

----------------------------------------------------------------------------
(* DELETE and restore of the project: in one transaction update its row,    *)
(* list the tickets, update them one by one, commit.  ticket_dependencies   *)
(* is left alone by both.                                                   *)
InCascade(r) == req[r].pc = "seen" /\ req[r].call \in {"deleteProject", "restoreProject"}

ProjectUnlocked == \A q \in Reqs : ~InCascade(q)

ProjectFind(r, call, life) ==
    /\ Start(r, "begun", call, NoTicket, NoTicket)
    /\ project = life
    /\ Reads /\ UNCHANGED history

ProjectList(r, call, tickets) ==
    /\ At(r, "begun", call)
    /\ ProjectUnlocked
    /\ req' = [req EXCEPT ![r] = [@ EXCEPT !.pc = "seen", !.list = tickets]]
    /\ Reads /\ UNCHANGED history

ProjectDeleteList(r) ==
    ProjectList(r, "deleteProject", {t \in Tickets : Active(t)})

ProjectRestoreList(r) ==
    ProjectList(r, "restoreProject", {t \in Tickets : ticket[t].withProject})

CascadeUpdate(r, t) ==
    /\ InCascade(r)
    /\ t \in req[r].list
    /\ lock[t] = Free
    /\ lock' = [lock EXCEPT ![t] = r]
    /\ UNCHANGED <<ticket, project, deps, req, turned, added, kept>>

CascadeCommit(r, call, life) ==
    /\ At(r, "seen", call)
    /\ \A t \in req[r].list : lock[t] = r
    /\ project' = life
    /\ ticket' = [t \in Tickets |->
         IF t \in req[r].list
         THEN [status |-> ticket[t].status, life |-> life, withProject |-> life = "deleted"]
         ELSE ticket[t]]
    /\ Finish(r)
    /\ Remember(req[r].list, {})
    /\ UNCHANGED <<deps>>

ProjectDeleteCommit(r) ==
    /\ CascadeCommit(r, "deleteProject", "deleted")
    /\ kept' = kept \cup UNION {Mentioning(t) : t \in req[r].list}

ProjectRestoreCommit(r) ==
    /\ CascadeCommit(r, "restoreProject", "active")
    /\ UNCHANGED kept

----------------------------------------------------------------------------
(* POST dependencies: find the ticket, then the blocker, then look for the  *)
(* same row, then insert it.                                                *)
AddFindTicket(r, t, b) ==
    /\ Start(r, "begun", "add", t, b)
    /\ Active(t)
    /\ Reads /\ UNCHANGED history

AddFindAnyBlocker(r) ==
    /\ At(r, "begun", "add")
    /\ req[r].t # req[r].b
    /\ Move(r, "seen")
    /\ Reads /\ UNCHANGED history

AddFindBlocker(r) ==
    /\ At(r, "begun", "add")
    /\ Active(req[r].b)
    /\ req[r].t # req[r].b
    /\ Move(r, "seen")
    /\ Reads /\ UNCHANGED history

RowWithoutBlocker(r) == <<req[r].t, NoTicket>>

InsertedRow(r) == <<req[r].t, req[r].b>>

AddLook(r) ==
    /\ At(r, "seen", "add")
    /\ InsertedRow(r) \notin deps
    /\ Move(r, "allowed")
    /\ Reads /\ UNCHANGED history

(* The foreign-key check of the insert.                                     *)
NoForeignKey(t) == TRUE

KeyShareGranted(t) == ~PatchHolds(t)

(* A deletion came between the look-ups of the POST and its insert.         *)
Overtaken(r) == {e \in {req[r].t, req[r].b} : ~Active(e)} \subseteq turned[r]

AddInsert(r) ==
    /\ At(r, "allowed", "add")
    /\ KeyShareGranted(req[r].t)
    /\ KeyShareGranted(req[r].b)
    /\ deps' = deps \cup {InsertedRow(r)}
    /\ kept' = kept \cup (IF Overtaken(r) /\ ~(Active(req[r].t) /\ Active(req[r].b))
                          THEN {InsertedRow(r)} ELSE {})
    /\ Finish(r)
    /\ Remember({}, {InsertedRow(r)})
    /\ UNCHANGED <<ticket, project>>

(* DELETE dependencies/:blockerId: find both, then delete the row.          *)
RemoveFind(r, t, b) ==
    /\ Start(r, "begun", "remove", t, b)
    /\ Active(t)
    /\ <<t, b>> \in deps
    /\ Reads /\ UNCHANGED history

RemoveDelete(r) ==
    /\ At(r, "begun", "remove")
    /\ deps' = deps \ {<<req[r].t, req[r].b>>}
    /\ kept' = kept \ {<<req[r].t, req[r].b>>}
    /\ Finish(r)
    /\ Remember({}, {})
    /\ UNCHANGED <<ticket, project>>

----------------------------------------------------------------------------
(* The escalation reads the ticket in its batch and saves it some awaits    *)
(* later, with what others have changed meanwhile; which columns differ when*)
(* the ORM compares is left open.  "seen": the mark was set when it read.   *)
EscalationFind(r, t) ==
    /\ Start(r, IF ticket[t].withProject THEN "seen" ELSE "begun", "escalate", t, NoTicket)
    /\ Active(t)
    /\ ticket[t].status # "DONE"
    /\ Reads /\ UNCHANGED history

EscalationSave(r) ==
    /\ At(r, "begun", "escalate") \/ At(r, "seen", "escalate")
    /\ lock[req[r].t] = Free
    /\ \E status \in {ticket[req[r].t].status, "OPEN"},
          life \in {ticket[req[r].t].life, "active"},
          withProject \in {ticket[req[r].t].withProject, req[r].pc = "seen"} :
         ticket' = [ticket EXCEPT ![req[r].t] = [status |-> status, life |-> life,
                                                 withProject |-> withProject]]
    /\ Finish(r)
    /\ Remember({req[r].t}, {})
    /\ UNCHANGED <<project, deps, kept>>

----------------------------------------------------------------------------
Begin(r) ==
    \/ \E t \in Tickets :
         \/ PatchLock(r, t) \/ DeleteFind(r, t) \/ Restore(r, t) \/ EscalationFind(r, t)
         \/ \E b \in Tickets : AddFindTicket(r, t, b) \/ RemoveFind(r, t, b)
    \/ ProjectFind(r, "deleteProject", "active")
    \/ ProjectFind(r, "restoreProject", "deleted")

Looking(r) ==
    \/ PatchProject(r) \/ PatchGate(r)
    \/ DeleteCountBlockers(r) \/ DeleteCountDependents(r)
    \/ RestoreFindProject(r) \/ ProjectDeleteList(r) \/ ProjectRestoreList(r)
    \/ AddFindBlocker(r) \/ AddLook(r)

Writing(r) ==
    \/ PatchCommit(r) \/ DeleteMark(r) \/ DeleteCommit(r)
    \/ RestoreWrite(r) \/ RestoreUnmark(r)
    \/ \E t \in Tickets : CascadeUpdate(r, t)
    \/ ProjectDeleteCommit(r) \/ ProjectRestoreCommit(r)
    \/ AddInsert(r) \/ RemoveDelete(r) \/ EscalationSave(r)

Step(r) == Begin(r) \/ Looking(r) \/ Writing(r) \/ GiveUp(r)

Next == \E r \in Reqs : Step(r)

Spec == Init /\ [][Next]_vars

----------------------------------------------------------------------------
(* BR-12: a PATCH makes a ticket DONE only if each direct blocker that is   *)
(* open at the commit came back after the PATCH had looked: restored, or    *)
(* put back by the stale save of the escalation.  The look-up is not        *)
(* repeated at the commit; that no new row opens a blocker rests on the     *)
(* foreign keys.                                                            *)
NoneIsOpenAtDone ==
    \A t \in Tickets :
      ticket[t].status # "DONE" /\ ticket'[t].status = "DONE" =>
        \E r \in Reqs : lock[t] = r /\ OpenBlockers(t) \subseteq turned[r]

DoneHasNoOpenBlocker == [][NoneIsOpenAtDone]_vars

(* FR-TKT-014, FR-DEP-003, BR-13: a row that mentions a deleted ticket is   *)
(* one the deletion of the project left where it was, or was inserted by a  *)
(* POST that had found both tickets active and was overtaken by a deletion. *)
DeletedIsMentionedInKeptRows ==
    \A t \in Tickets : ~Active(t) => Mentioning(t) \subseteq kept

(* FR-TKT-013: a DELETE drops a dependency between two active tickets only  *)
(* if the dependency, or one of its tickets, came after the DELETE counted. *)
NoLiveDependencyGoes ==
    \A r \in Reqs : At(r, "marked", "delete") /\ req'[r].pc = "idle" =>
      \A d \in deps \ deps' :
        Active(d[1]) /\ Active(d[2]) => d \in added[r] \/ {d[1], d[2]} \cap turned[r] # {}

DeleteDropsNoLiveDependency == [][NoLiveDependencyGoes]_vars
============================================================================
