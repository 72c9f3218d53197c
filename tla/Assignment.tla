----------------------------- MODULE Assignment -----------------------------
(* Who works on the tickets of one project: the membership rows, the choice *)
(* of an assignee for a ticket created without one, PATCH of the assignee,  *)
(* and what DELETE of a ticket does to the membership of its assignee.      *)
(*                                                                          *)
(* The choice lists the members, then counts for each of them the tickets of*)
(* each open status, one query after another; nothing is held in between, so*)
(* the counts are no snapshot.  Import is a creation for each line, and goes*)
(* on when a line fails; CsvRules says what is in a line.                   *)
(*                                                                          *)
(* History: disturbed are the handlers since whose count another one has    *)
(* written to a ticket; restored are the tickets that came back by RESTORE  *)
(* and were not assigned since; dropped are the users whose membership was  *)
(* deleted by a handler whose count had been overtaken, or while another one*)
(* was about to assign a ticket to them.                                    *)
(*                                                                          *)
(* Left out: the summary an import answers with; the project stays active   *)
(* (see ProjectCascade), users stay (see Accounts) and keep their role, and *)
(* no escalation run interferes (see TicketLifecycle).                      *)
EXTENDS CsvRules, FiniteSets

CONSTANTS
    Developers,     \* the users with role DEVELOPER
    Tickets, Reqs,
    NoTicket,
    Free,           \* no transaction holds the row lock
    NewStatuses,    \* the statuses a ticket is created with
    PatchStatuses   \* the statuses a PATCH asks for

ASSUME AssignmentAssumption ==
    /\ Developers \subseteq Users
    /\ IsFiniteSet(Tickets)
    /\ NoTicket \notin Tickets
    /\ Free \notin Reqs
    /\ NewStatuses \cup PatchStatuses \subseteq Statuses

VARIABLES
    member,     \* project_members of the project: the userId column, unique
    ticket,     \* committed rows
    lock,       \* lock[t]: the handler whose PATCH locked the row
    req,        \* req[r]: where handler r is, and its local variables
    disturbed, restored, dropped

vars == <<member, ticket, lock, req, disturbed, restored, dropped>>

(* The order in which the open statuses are counted.                        *)
Counted == <<"TODO", "IN_PROGRESS", "IN_REVIEW">>

Ticket == [life : {"absent", "active", "deleted"}, status : Statuses,
           assignee : MaybeUser]

Counts == 0 .. 3 * Cardinality(Tickets) + 1

Infinity == 3 * Cardinality(Tickets) + 1

Places == {"idle", "row", "link", "unlinked", "count", "ready", "found",
           "unlink", "drop"}

Handler == [pc : Places, call : {"create", "import", "patch", "delete"},
            t : Tickets \cup {NoTicket}, u : MaybeUser,
            auto : BOOLEAN, pool : SUBSET Users, todo : SUBSET Users,
            who : MaybeUser, stage : 1 .. 3, sum : Counts, best : Counts]

Idle == [pc |-> "idle", call |-> "patch", t |-> NoTicket, u |-> NoUser,
         auto |-> FALSE, pool |-> {}, todo |-> {}, who |-> NoUser, stage |-> 1,
         sum |-> 0, best |-> Infinity]

TypeOK ==
    /\ member \subseteq Users
    /\ ticket \in [Tickets -> Ticket]
    /\ lock \in [Tickets -> Reqs \cup {Free}]
    /\ req \in [Reqs -> Handler]
    /\ disturbed \subseteq Reqs
    /\ restored \subseteq Tickets
    /\ dropped \subseteq Users

(* The project exists.  Its owner is a member if he is a developer and      *)
(* ProjectsService.create got as far as to link him.                        *)
Init ==
    /\ member \in {{}} \cup {{owner} : owner \in Developers}
    /\ ticket = [t \in Tickets |-> [life |-> "absent", status |-> "TODO",
                                    assignee |-> NoUser]]
    /\ lock = [t \in Tickets |-> Free]
    /\ req = [r \in Reqs |-> Idle]
    /\ disturbed = {}
    /\ restored = {}
    /\ dropped = {}

Active(t) == ticket[t].life = "active"

At(r, pc, calls) == req[r].pc = pc /\ req[r].call \in calls

Step(r, handler) == req' = [req EXCEPT ![r] = handler]

Goes(r, pc) == Step(r, [req[r] EXCEPT !.pc = pc])

Choosing(r) == req[r].auto /\ req[r].pc \in {"count", "ready"}

(* r has written to a ticket, which the others may or may not have counted. *)
Disturb(r) ==
    disturbed' = (disturbed \cup {q \in Reqs : Choosing(q) \/ req[q].pc = "drop"}) \ {r}

Quiet == UNCHANGED <<disturbed, restored, dropped>>

(* The tables and locks.                                                    *)
NothingWritten == UNCHANGED <<member, ticket, lock>>

----------------------------------------------------------------------------
(* POST /tickets with and without assigneeId, and the same for a line of an *)
(* import.                                                                  *)
DeveloperMembers == member \cap Developers

BeginChoice(r, handler) ==
    Step(r, [handler EXCEPT !.pc = IF DeveloperMembers = {} THEN "ready" ELSE "count",
                            !.auto = TRUE, !.pool = DeveloperMembers,
                            !.todo = DeveloperMembers])

Begin(r, handler, u) ==
    \/ u # NoUser /\ Step(r, [handler EXCEPT !.pc = "link", !.u = u])
    \/ u = NoUser /\ BeginChoice(r, handler)

Create(r) ==
    /\ req[r].pc = "idle"
    /\ \E u \in MaybeUser : Begin(r, [Idle EXCEPT !.call = "create"], u)
    /\ NothingWritten
    /\ Quiet

(* An import: after each line, stored or failed, it goes on to the next one,*)
(* and answers after the last.                                              *)
BetweenRows == [Idle EXCEPT !.pc = "row", !.call = "import"]

Import(r) ==
    /\ req[r].pc = "idle"
    /\ Step(r, BetweenRows)
    /\ NothingWritten
    /\ Quiet

ImportRow(r) ==
    /\ req[r].pc = "row"
    /\ \E text \in {Plain(word) : word \in Words \cup {NoWord} \cup Users} :
         /\ AssigneeAccepted(text, Users)
         /\ Begin(r, BetweenRows, AssigneeOf(text))
    /\ NothingWritten
    /\ Quiet

(* The validation, a query or the insert of the ticket throws.  An audit row*)
(* that throws after the insert makes no other difference to the tables.    *)
ImportRowFails(r) ==
    /\ req[r].pc # "row"
    /\ req[r].call = "import"
    /\ Step(r, BetweenRows)
    /\ disturbed' = disturbed \ {r}
    /\ NothingWritten
    /\ UNCHANGED <<restored, dropped>>

ImportAnswer(r) ==
    /\ req[r].pc = "row"
    /\ Step(r, Idle)
    /\ NothingWritten
    /\ Quiet

----------------------------------------------------------------------------
(* linkIfDeveloper: look for the row, insert it if there is none.  The row  *)
(* of a concurrent link breaks the unique constraint.                       *)
LinkLook(r) ==
    /\ req[r].pc = "link"
    /\ Goes(r, IF req[r].u \in Developers \ member THEN "unlinked" ELSE "ready")
    /\ NothingWritten
    /\ Quiet

LinkInsert(r) ==
    /\ req[r].pc = "unlinked"
    /\ req[r].u \notin member
    /\ member' = member \cup {req[r].u}
    /\ dropped' = dropped \ {req[r].u}
    /\ Goes(r, "ready")
    /\ UNCHANGED <<ticket, lock, disturbed, restored>>

(* resolve: one query for a member and a status.  After the last status the *)
(* sum is compared with the best one, and on a tie the older user wins.     *)
CountedTickets(u, status) ==
    {t \in Tickets : Active(t) /\ ticket[t].assignee = u /\ ticket[t].status = status}

LastComparedWins(u, sum, handler) == sum <= handler.best

Better(u, sum, handler) ==
    sum < handler.best \/ (sum = handler.best /\ u < handler.u)

ReturnsTheCount(u, sum, handler) ==
    [handler EXCEPT !.pc = "ready", !.todo = {}, !.who = NoUser, !.u = sum]

Compared(u, sum, handler) ==
    LET wins == Better(u, sum, handler)
        todo == handler.todo \ {u}
    IN  [handler EXCEPT !.pc = IF todo = {} THEN "ready" ELSE "count",
                        !.todo = todo, !.who = NoUser, !.stage = 1, !.sum = 0,
                        !.u = IF wins THEN u ELSE @,
                        !.best = IF wins THEN sum ELSE @]

Count(r, u) ==
    /\ req[r].pc = "count"
    /\ u \in req[r].todo
    /\ req[r].who \in {u, NoUser}
    /\ LET stage == req[r].stage
           sum   == req[r].sum + Cardinality(CountedTickets(u, Counted[stage]))
       IN  Step(r, IF stage = 3
                   THEN Compared(u, sum, req[r])
                   ELSE [req[r] EXCEPT !.who = u, !.stage = stage + 1, !.sum = sum])
    /\ NothingWritten
    /\ Quiet

Insert(r, t) ==
    /\ At(r, "ready", {"create", "import"})
    /\ ticket[t].life = "absent"
    /\ \E status \in NewStatuses :
         ticket' = [ticket EXCEPT ![t] = [life |-> "active", status |-> status,
                                          assignee |-> req[r].u]]
    /\ Step(r, IF req[r].call = "create" THEN Idle ELSE BetweenRows)
    /\ Disturb(r)
    /\ UNCHANGED <<member, lock, restored, dropped>>

----------------------------------------------------------------------------
(* PATCH of status and assigneeId: lock the row, link the new assignee on   *)
(* another connection, then save and commit.                                *)
Forward(old, new) ==
    \/ new = old
    \/ new = "DONE"
    \/ old = "TODO"
    \/ old = "IN_PROGRESS" /\ new = "IN_REVIEW"

PatchLock(r, t) ==
    /\ req[r].pc = "idle"
    /\ Active(t)
    /\ lock[t] = Free
    /\ ticket[t].status # "DONE"
    /\ LET body == [Idle EXCEPT !.call = "patch", !.t = t]
       IN  \/ \E u \in {NoUser, ticket[t].assignee} :
                Step(r, [body EXCEPT !.pc = "ready", !.u = u])
           \/ \E u \in Users : Step(r, [body EXCEPT !.pc = "link", !.u = u])
    /\ lock' = [lock EXCEPT ![t] = r]
    /\ UNCHANGED <<member, ticket>>
    /\ Quiet

PatchCommit(r) ==
    /\ At(r, "ready", {"patch"})
    /\ LET t == req[r].t
       IN  /\ \E status \in PatchStatuses \cup {ticket[t].status} :
                /\ Forward(ticket[t].status, status)
                /\ ticket' = [ticket EXCEPT ![t].status = status, ![t].assignee = req[r].u]
           /\ lock' = [lock EXCEPT ![t] = Free]
           /\ restored' = IF ticket[t].assignee = req[r].u THEN restored ELSE restored \ {t}
    /\ Step(r, Idle)
    /\ Disturb(r)
    /\ UNCHANGED <<member, dropped>>

----------------------------------------------------------------------------
(* DELETE: read the ticket; delete it (what the transaction does in between *)
(* nobody sees); then count the assignee's tickets, as the assignee was when*)
(* the ticket was read, and delete his membership if there are none.        *)
DeleteFind(r, t) ==
    /\ req[r].pc = "idle"
    /\ Active(t)
    /\ Step(r, [Idle EXCEPT !.pc = "found", !.call = "delete", !.t = t,
                            !.u = ticket[t].assignee])
    /\ NothingWritten
    /\ Quiet

DeleteCommit(r) ==
    /\ At(r, "found", {"delete"})
    /\ lock[req[r].t] = Free
    /\ ticket' = [ticket EXCEPT ![req[r].t].life = "deleted"]
    /\ Step(r, IF req[r].u = NoUser THEN Idle ELSE [req[r] EXCEPT !.pc = "unlink", !.t = NoTicket])
    /\ restored' = restored \ {req[r].t}
    /\ Disturb(r)
    /\ UNCHANGED <<member, lock, dropped>>

WorkOf(u) == {t \in Tickets : Active(t) /\ ticket[t].assignee = u}

NeverHasWork(u) == FALSE

HasWork(u) == WorkOf(u) # {}

UnlinkCount(r) ==
    /\ At(r, "unlink", {"delete"})
    /\ Step(r, IF HasWork(req[r].u) THEN Idle ELSE [req[r] EXCEPT !.pc = "drop"])
    /\ NothingWritten
    /\ Quiet

AboutToAssign(u) ==
    \E q \in Reqs : \/ (req[q].pc = "ready" /\ req[q].u = u)
                   \/ (req[q].pc = "count" /\ u \in req[q].pool)

UnlinkDrop(r) ==
    /\ req[r].pc = "drop"
    /\ LET u == req[r].u
       IN  /\ member' = member \ {u}
           /\ dropped' = IF \/ r \in disturbed /\ WorkOf(u) # {}
                            \/ AboutToAssign(u)
                         THEN dropped \cup {u}
                         ELSE dropped
    /\ Step(r, Idle)
    /\ disturbed' = disturbed \ {r}
    /\ UNCHANGED <<ticket, lock, restored>>

(* RESTORE.  It reads the row before it clears deletedAt, which has no       *)
(* effect when another RESTORE was faster.                                  *)
Restore(r, t) ==
    /\ req[r].pc = "idle"
    /\ ticket[t].life = "deleted"
    /\ lock[t] = Free
    /\ ticket' = [ticket EXCEPT ![t].life = "active"]
    /\ restored' = restored \cup {t}
    /\ Disturb(r)
    /\ UNCHANGED <<member, lock, req, dropped>>

(* An exception or a constraint ends any call but an import, and so does the*)
(* death of the process.                                                    *)
GiveUp(r) ==
    /\ req[r].pc # "idle"
    /\ Step(r, Idle)
    /\ lock' = [t \in Tickets |-> IF lock[t] = r THEN Free ELSE lock[t]]
    /\ disturbed' = disturbed \ {r}
    /\ UNCHANGED <<member, ticket, restored, dropped>>

----------------------------------------------------------------------------
HandlerStep(r) ==
    \/ Create(r) \/ Import(r) \/ ImportRow(r) \/ ImportRowFails(r) \/ ImportAnswer(r)
    \/ LinkLook(r) \/ LinkInsert(r)
    \/ \E u \in Users : Count(r, u)
    \/ \E t \in Tickets : \/ Insert(r, t) \/ PatchLock(r, t)
                          \/ DeleteFind(r, t) \/ Restore(r, t)
    \/ PatchCommit(r) \/ DeleteCommit(r) \/ UnlinkCount(r) \/ UnlinkDrop(r)
    \/ GiveUp(r)

Next == \E r \in Reqs : HandlerStep(r)

Spec == Init /\ [][Next]_vars

----------------------------------------------------------------------------
(* IC-11: a developer who is to work on a ticket of the project is a member *)
(* of it.  There are two ways out of it only: a restored ticket, and a DELETE*)
(* that deletes the membership after its count has been overtaken.          *)
AssigneesAreMembers ==
    \A t \in Tickets :
        Active(t) /\ ticket[t].assignee \in Developers \ member =>
            t \in restored \/ ticket[t].assignee \in dropped

(* BR-07: a ticket created without an assignee goes to the member with the  *)
(* fewest open tickets, the one registered first on a tie, as long as no    *)
(* other handler wrote to a ticket while this one was counting.             *)
Load(u) == Cardinality({t \in WorkOf(u) : ticket[t].status # "DONE"})

ChosenIsLeastLoaded ==
    \A r \in Reqs :
        Choosing(r) /\ ticket' # ticket /\ req'[r] # req[r] /\ r \notin disturbed =>
          \A u \in req[r].pool :
            /\ Load(req[r].u) <= Load(u)
            /\ Load(req[r].u) = Load(u) => req[r].u <= u

ChoiceIsLeastLoaded == [][ChosenIsLeastLoaded]_vars

(* BR-16, BR-17: whatever the calls so far made of a ticket, and whatever   *)
(* its other columns are, the line that export writes for it is one import  *)
(* takes and turns into the same columns; it refuses a title of blanks only *)
(* and an assignee whom it does not know.                                   *)
Columns(t, text, priority, type) ==
    [title |-> text, description |-> text, status |-> ticket[t].status,
     priority |-> priority, type |-> type, assigneeId |-> ticket[t].assignee]

ExportIsImported ==
    (\A r \in Reqs : req[r].pc = "idle") =>
        \A t \in {u \in Tickets : Active(u)}, priority \in Priorities, type \in Types,
           text \in {x \in Text(Words) : Postable(x)}, known \in SUBSET Users :
            ComesBack(Columns(t, text, priority, type), known)
=============================================================================
