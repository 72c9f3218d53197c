--------------------------- MODULE ProjectCascade ---------------------------
(* One project, its tickets, and the soft deletes and restores of both.     *)
(*                                                                          *)
(* DELETE and POST restore of a project run in one transaction that marks   *)
(* the project, lists the tickets to carry along and updates them one by    *)
(* one; each UPDATE waits for the row lock.  What a transaction has written *)
(* so far is req[r].wrote, visible to others only when it commits.  The     *)
(* ticket endpoints, PATCH of the project and the escalation interleave     *)
(* with it, whatever they have read before.                                 *)
(*                                                                          *)
(* Three history variables remember what the interleaving did, at the step  *)
(* that does it: removedBy, late and strays, below.                         *)
(* Audit rows are left out (TicketLifecycle has the ones of tickets).       *)
EXTENDS Naturals, FiniteSets

CONSTANTS
    Tickets, Reqs,
    Free,       \* no transaction holds the row lock
    NoTicket,
    MayFail     \* whether a handler may die between two statements

Endpoints == {"deleteProject", "restoreProject", "updateProject",
              "createTicket", "deleteTicket", "restoreTicket", "escalate"}

ASSUME CascadeAssumption ==
    /\ Free \notin Reqs
    /\ NoTicket \notin Tickets
    /\ MayFail \in BOOLEAN

VARIABLES
    project,        \* "active" or "deleted": projects.deletedAt
    projectLock,    \* the handler whose transaction updated the project
    ticket,         \* committed rows: deletedAt and deletedWithProjectId
    lock,           \* lock[t]: the handler whose transaction updated t
    req,            \* req[r]: where handler, or escalation, r is, and its local variables
    removedBy,      \* history: who soft-deleted t, see Removers
    late,           \* history: tickets created or put back since a DELETE listed them
    strays          \* history: tickets whose mark a stale save has left or written back

rows == <<project, ticket>>
locks == <<projectLock, lock>>
history == <<removedBy, late, strays>>
vars == <<project, projectLock, ticket, lock, req, removedBy, late, strays>>

Lives == {"active", "deleted"}
Ticket == [life : Lives \cup {"absent"}, withProject : BOOLEAN]

Unmarked(life) == [life |-> life, withProject |-> FALSE]

(* "both": its own DELETE took it while a cascade had listed it or had left *)
(* its mark; "unmarked": the cascade took it, and a RESTORE or a stale save *)
(* begun before that wiped the mark.                                        *)
Removers == {"nobody", "ticket", "project", "both", "unmarked"}

Places == {"idle", "found", "marked", "listed", "loaded", "allowed", "wrote"}

Handler == [pc : Places, call : Endpoints, t : Tickets \cup {NoTicket},
            todo : SUBSET Tickets, wrote : SUBSET Tickets,
            base : Ticket, mark : BOOLEAN]

Idle == [pc |-> "idle", call |-> "updateProject", t |-> NoTicket,
         todo |-> {}, wrote |-> {}, base |-> Unmarked("active"), mark |-> FALSE]

TypeOK ==
    /\ project \in Lives
    /\ projectLock \in Reqs \cup {Free}
    /\ ticket \in [Tickets -> Ticket]
    /\ lock \in [Tickets -> Reqs \cup {Free}]
    /\ req \in [Reqs -> Handler]
    /\ removedBy \in [Tickets -> Removers]
    /\ late \subseteq Tickets
    /\ strays \subseteq Tickets

Init ==
    /\ project = "active"
    /\ projectLock = Free
    /\ \E existing \in SUBSET Tickets :
         ticket = [t \in Tickets |-> Unmarked(IF t \in existing THEN "active" ELSE "absent")]
    /\ lock = [t \in Tickets |-> Free]
    /\ req = [r \in Reqs |-> Idle]
    /\ removedBy = [t \in Tickets |-> "nobody"]
    /\ late = {}
    /\ strays = {}

At(r, pc, calls) == req[r].pc = pc /\ req[r].call \in calls

Start(r, pc, call, t, mark) ==
    /\ req[r].pc = "idle"
    /\ req' = [req EXCEPT ![r] = [Idle EXCEPT !.pc = pc, !.call = call, !.t = t,
                                              !.mark = mark]]

KeepLocks(r) ==
    /\ req' = [req EXCEPT ![r] = Idle]
    /\ UNCHANGED <<projectLock, lock>>

Finish(r) ==
    /\ req' = [req EXCEPT ![r] = Idle]
    /\ projectLock' = IF projectLock = r THEN Free ELSE projectLock
    /\ lock' = [t \in Tickets |-> IF lock[t] = r THEN Free ELSE lock[t]]

(* An exception: the transaction rolls back, committed statements stay.     *)
Fail(r) ==
    /\ MayFail
    /\ req[r].pc # "idle"
    /\ Finish(r)
    /\ UNCHANGED <<rows, history>>

----------------------------------------------------------------------------
(* DELETE /projects/:id and POST /projects/:id/restore.                     *)
FindProject(r) ==
    /\ \/ Start(r, "found", "deleteProject", NoTicket, FALSE) /\ project = "active"
       \/ Start(r, "found", "restoreProject", NoTicket, FALSE) /\ project = "deleted"
    /\ UNCHANGED <<rows, locks, history>>

MarkProject(r) ==
    /\ At(r, "found", {"deleteProject", "restoreProject"})
    /\ projectLock = Free
    /\ projectLock' = r
    /\ req' = [req EXCEPT ![r].pc = "marked"]
    /\ UNCHANGED <<rows, lock, history>>

(* The tickets a delete takes along, and those a restore brings back.       *)
EveryDeleted(call) ==
    IF call = "deleteProject"
    THEN {t \in Tickets : ticket[t].life = "active"}
    ELSE {t \in Tickets : ticket[t].life = "deleted"}

Affected(call) ==
    IF call = "deleteProject"
    THEN {t \in Tickets : ticket[t].life = "active"}
    ELSE {t \in Tickets : ticket[t].withProject}

(* A ticket that appears while the project is deleted, or a DELETE or       *)
(* restore of it is under way, may have escaped the list; a new deletion    *)
(* begins with its own list, for which every ticket so far is in time.      *)
Appear(t) ==
    late' = IF project = "active" /\ projectLock = Free THEN late ELSE late \cup {t}

ListTickets(r) ==
    /\ req[r].pc = "marked"
    /\ req' = [req EXCEPT ![r] = [@ EXCEPT !.pc = "listed",
                                           !.todo = Affected(req[r].call)]]
    /\ late' = IF req[r].call = "deleteProject" /\ project = "active" THEN {} ELSE late
    /\ UNCHANGED <<rows, locks, removedBy, strays>>

UpdateTicket(r, t) ==
    /\ req[r].pc = "listed"
    /\ t \in req[r].todo
    /\ lock[t] = Free
    /\ lock' = [lock EXCEPT ![t] = r]
    /\ req' = [req EXCEPT ![r].todo = @ \ {t}, ![r].wrote = @ \cup {t}]
    /\ UNCHANGED <<rows, projectLock, history>>

ThirdLife(call) ==
    IF call = "deleteProject" THEN [life |-> "carried", withProject |-> TRUE]
                              ELSE Unmarked("active")

Carried(call) ==
    IF call = "deleteProject" THEN [life |-> "deleted", withProject |-> TRUE]
                              ELSE Unmarked("active")

CommitEarly(handler) == handler.pc = "listed"

AllCarried(handler) == handler.pc = "listed" /\ handler.todo = {}

CommitProject(r) ==
    /\ AllCarried(req[r])
    /\ project' = Carried(req[r].call).life
    /\ ticket' = [t \in Tickets |-> IF t \in req[r].wrote THEN Carried(req[r].call)
                                                          ELSE ticket[t]]
    /\ removedBy' = [t \in Tickets |->
                       IF t \notin req[r].wrote THEN removedBy[t]
                       ELSE IF project' = "active" THEN "nobody"
                       ELSE IF ticket[t].life = "active" THEN "project" ELSE removedBy[t]]
    /\ strays' = strays \ req[r].wrote
    /\ late' = IF project' = "active" THEN {} ELSE late
    /\ Finish(r)

(* PATCH /projects/:id: read the project, then save the whole entity.  The  *)
(* save reloads the row, and writes deletedAt back when it differs.         *)
UpdateFind(r) ==
    /\ Start(r, "found", "updateProject", NoTicket, FALSE)
    /\ project = "active"
    /\ UNCHANGED <<rows, locks, history>>

UpdateLoad(r) ==
    /\ At(r, "found", {"updateProject"})
    /\ req' = [req EXCEPT ![r] = [@ EXCEPT !.pc = "loaded", !.base = Unmarked(project)]]
    /\ UNCHANGED <<rows, locks, history>>

UpdateSave(r) ==
    /\ At(r, "loaded", {"updateProject"})
    /\ projectLock = Free
    /\ project' = IF req[r].base.life = "active" THEN project ELSE "active"
    /\ strays' = IF project' = project THEN strays
                                      ELSE strays \cup {t \in Tickets : ticket[t].withProject}
    /\ Finish(r)
    /\ UNCHANGED <<ticket, removedBy, late>>

----------------------------------------------------------------------------
(* POST /tickets: assertActiveProject, later the INSERT.                    *)
CreateCheck(r, t) ==
    /\ Start(r, "found", "createTicket", t, FALSE)
    /\ ticket[t].life = "absent"
    /\ \A q \in Reqs : req[q].t # t
    /\ project = "active"
    /\ UNCHANGED <<rows, locks, history>>

CreateInsert(r) ==
    /\ At(r, "found", {"createTicket"})
    /\ ticket' = [ticket EXCEPT ![req[r].t].life = "active"]
    /\ Appear(req[r].t)
    /\ Finish(r)
    /\ UNCHANGED <<project, removedBy, strays>>

(* DELETE /tickets/:id: found active, marked in a transaction, committed.   *)
DeleteFind(r, t) ==
    /\ Start(r, "found", "deleteTicket", t, FALSE)
    /\ ticket[t].life = "active"
    /\ UNCHANGED <<rows, locks, history>>

DeleteMark(r) ==
    /\ At(r, "found", {"deleteTicket"})
    /\ lock[req[r].t] = Free
    /\ lock' = [lock EXCEPT ![req[r].t] = r]
    /\ req' = [req EXCEPT ![r].pc = "wrote"]
    /\ UNCHANGED <<rows, projectLock, history>>

CascadeHas(t) == ticket[t].withProject \/ \E q \in Reqs : t \in req[q].todo

DeleteCommit(r) ==
    /\ At(r, "wrote", {"deleteTicket"})
    /\ ticket' = [ticket EXCEPT ![req[r].t].life = "deleted"]
    /\ removedBy' = [removedBy EXCEPT ![req[r].t] =
                       IF ticket[req[r].t].life # "active" THEN @
                       ELSE IF CascadeHas(req[r].t) THEN "both" ELSE "ticket"]
    /\ Finish(r)
    /\ UNCHANGED <<project, late, strays>>

(* Who removed a ticket whose row was just written by a call of its own.    *)
Remover(by, row) ==
    IF row.life = "active" THEN "nobody"
    ELSE IF by = "project" /\ ~row.withProject THEN "unmarked"
    ELSE IF by = "ticket" /\ row.withProject THEN "both"
    ELSE by

(* POST /tickets/:id/restore: the row is read; a ticket deleted with its    *)
(* project needs the project back, which another statement looks up; then   *)
(* deletedAt and deletedWithProjectId are cleared by two statements.        *)
RestoreFind(r, t) ==
    /\ Start(r, IF ticket[t].withProject THEN "found" ELSE "allowed", "restoreTicket", t, FALSE)
    /\ ticket[t].life = "deleted"
    /\ UNCHANGED <<rows, locks, history>>

RestoreFindProject(r) ==
    /\ At(r, "found", {"restoreTicket"})
    /\ project = "active"
    /\ req' = [req EXCEPT ![r].pc = "allowed"]
    /\ UNCHANGED <<rows, locks, history>>

RestoreRefuse(r) ==
    /\ At(r, "found", {"restoreTicket"})
    /\ project = "deleted"
    /\ Finish(r)
    /\ UNCHANGED <<rows, history>>

RestoreWrite(r) ==
    /\ At(r, "allowed", {"restoreTicket"})
    /\ lock[req[r].t] = Free
    /\ ticket' = [ticket EXCEPT ![req[r].t].life = "active"]
    /\ Appear(req[r].t)
    /\ removedBy' = [removedBy EXCEPT ![req[r].t] = "nobody"]
    /\ req' = [req EXCEPT ![r].pc = "wrote"]
    /\ UNCHANGED <<project, locks, strays>>

RestoreClear(r) ==
    /\ At(r, "wrote", {"restoreTicket"})
    /\ lock[req[r].t] = Free
    /\ ticket' = [ticket EXCEPT ![req[r].t].withProject = FALSE]
    /\ removedBy' = [removedBy EXCEPT ![req[r].t] = Remover(@, ticket'[req[r].t])]
    /\ strays' = strays \ {req[r].t}
    /\ Finish(r)
    /\ UNCHANGED <<project, late>>

----------------------------------------------------------------------------
(* The escalation saves a ticket it read as active: like PATCH of a project *)
(* its save reloads the row, and writes the columns that differ.            *)
EscalationFind(r, t) ==
    /\ Start(r, "found", "escalate", t, ticket[t].withProject)
    /\ ticket[t].life = "active"
    /\ UNCHANGED <<rows, locks, history>>

EscalationLoad(r) ==
    /\ At(r, "found", {"escalate"})
    /\ req' = [req EXCEPT ![r] = [@ EXCEPT !.pc = "loaded", !.base = ticket[req[r].t]]]
    /\ UNCHANGED <<rows, locks, history>>

Overwritten(row, handler) ==
    [life |-> IF handler.base.life = "active" THEN row.life ELSE "active",
     withProject |-> IF handler.base.withProject = handler.mark THEN row.withProject
                                                                ELSE handler.mark]

EscalationSave(r) ==
    /\ At(r, "loaded", {"escalate"})
    /\ lock[req[r].t] = Free
    /\ LET t == req[r].t
           new == Overwritten(ticket[t], req[r])
       IN  /\ ticket' = [ticket EXCEPT ![t] = new]
           /\ IF new.life = ticket[t].life THEN UNCHANGED late ELSE Appear(t)
           /\ strays' = IF ~ticket[t].withProject /\ new.withProject THEN strays \cup {t}
                                                                    ELSE strays
           /\ removedBy' = [removedBy EXCEPT ![t] = Remover(@, new)]
    /\ Finish(r)
    /\ UNCHANGED project

----------------------------------------------------------------------------
Progress(r) ==
    \/ MarkProject(r) \/ ListTickets(r) \/ CommitProject(r)
    \/ UpdateLoad(r) \/ UpdateSave(r) \/ CreateInsert(r)
    \/ DeleteMark(r) \/ DeleteCommit(r)
    \/ RestoreFindProject(r) \/ RestoreRefuse(r) \/ RestoreWrite(r) \/ RestoreClear(r)
    \/ EscalationLoad(r) \/ EscalationSave(r)
    \/ \E t \in Tickets : UpdateTicket(r, t)

Begin(r) ==
    \/ FindProject(r) \/ UpdateFind(r)
    \/ \E t \in Tickets : \/ CreateCheck(r, t) \/ DeleteFind(r, t)
                         \/ RestoreFind(r, t) \/ EscalationFind(r, t)

Next == \E r \in Reqs : Begin(r) \/ Progress(r) \/ Fail(r)

Spec == Init /\ [][Next]_vars

(* A handler's awaits return: it goes on whenever the row it waits for is   *)
(* free, and PostgreSQL grants a contended row to its waiters in turn.      *)
FairSpec == Spec /\ \A r \in Reqs : SF_vars(Progress(r))

----------------------------------------------------------------------------
(* BR-10 and BR-11: no ticket of a deleted project is active, unless it was *)
(* created or put back after the deletion had listed the tickets; a ticket  *)
(* that only the deletion took carries the mark that will bring it back;    *)
(* and no mark outlives the deletion, unless a stale save has ended the     *)
(* deletion or written the mark.                                            *)
CascadeIsConsistent ==
    \A t \in Tickets :
        /\ project = "deleted" /\ ticket[t].life = "active" => t \in late
        /\ ticket[t].withProject => project = "deleted" \/ t \in strays
        /\ removedBy[t] = "project" => ticket[t].withProject

(* BR-11: the restore of a project revives no ticket that its own DELETE    *)
(* alone took, with no cascade that had listed the ticket or marked it.     *)
OnlyTakenTicketsRevive ==
    \A r \in Reqs, t \in Tickets :
        req[r].call = "restoreProject" /\ t \in req[r].wrote /\ req'[r] = Idle
        /\ ticket[t].life = "deleted" /\ ticket'[t].life = "active" =>
          removedBy[t] # "ticket"

OwnDeletionStays == [][OnlyTakenTicketsRevive]_vars

(* Every call returns: transactions that lock many rows one after another   *)
(* and the single-row ones never wait for each other for ever.              *)
EveryCallReturns ==
    \A r \in Reqs : req[r].pc # "idle" ~> req[r].pc = "idle"
============================================================================
