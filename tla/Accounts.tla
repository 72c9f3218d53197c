------------------------------ MODULE Accounts ------------------------------
(* The users table and the rows that refer to it: projects by ownerId,      *)
(* tickets by assigneeId, comments by authorId.                             *)
(*                                                                          *)
(* Login and the profile update read a user, change the entity and save it; *)
(* the ORM's save reads the row again and writes what differs, or inserts   *)
(* the entity if the row is gone.  The deletion of a user checks its guards *)
(* first, then works in a transaction: what it did to comments and tickets  *)
(* is in req[r] until the last statement, which is taken together with the  *)
(* commit.  Its audit row is inserted on another connection and stays when  *)
(* the transaction is rolled back.                                          *)
(*                                                                          *)
(* History in req[r]: read is the hash the handler read; open is the tickets*)
(* of the user that were active and not DONE when the handler found him and *)
(* have been left to him, and in work, since.                               *)
(*                                                                          *)
(* Left out: user names and e-mails (a unique index refuses a second one),  *)
(* full name and role, mentions and memberships (they go with the user by   *)
(* ON DELETE CASCADE whatever the code deletes first).                      *)
EXTENDS Naturals, FiniteSets

CONSTANTS
    Users, Projects, Tickets, Comments, Passwords, Reqs,
    NoUser, NoPassword

ASSUME AccountAssumption ==
    /\ NoUser \notin Users
    /\ NoPassword \notin Passwords

VARIABLES
    user,       \* user[u]: life and passwordHash
    project,    \* project[p]: life and ownerId
    ticket,     \* ticket[t]: life, whether it is DONE, and assigneeId
    author,     \* author[c]: authorId of an existing comment, or NoUser
    audited,    \* the users for whom audit_logs has a DELETE row
    req

vars == <<user, project, ticket, author, audited, req>>

MaybeUser == Users \cup {NoUser}

UserRow == [life : {"unborn", "present", "gone"}, hash : Passwords \cup {NoPassword}]
Project == [life : {"absent", "active", "deleted"}, owner : MaybeUser]
Ticket  == [life : {"active", "deleted"}, done : BOOLEAN, assignee : MaybeUser]

Places == {"idle", "found", "changed", "loaded", "unowned", "unassigned",
           "purged", "released", "logged"}

Endpoints == {"login", "updateUser", "deleteUser", "createProject", "assign", "comment"}

Handler == [pc : Places, call : Endpoints, u : MaybeUser,
            hash : Passwords \cup {NoPassword}, base : UserRow,
            purged : SUBSET Comments, held : SUBSET Tickets,
            read : Passwords \cup {NoPassword}, open : SUBSET Tickets]

Undefined == [life |-> "present", hash |-> "undefined"]

NewUser == [life |-> "present", hash |-> NoPassword]

Idle == [pc |-> "idle", call |-> "login", u |-> NoUser, hash |-> NoPassword,
         base |-> NewUser, purged |-> {}, held |-> {},
         read |-> NoPassword, open |-> {}]

TypeOK ==
    /\ user \in [Users -> UserRow]
    /\ project \in [Projects -> Project]
    /\ ticket \in [Tickets -> Ticket]
    /\ author \in [Comments -> MaybeUser]
    /\ audited \subseteq Users
    /\ req \in [Reqs -> Handler]

Init ==
    /\ user = [u \in Users |-> [NewUser EXCEPT !.life = "unborn"]]
    /\ project = [p \in Projects |-> [life |-> "absent", owner |-> NoUser]]
    /\ ticket = [t \in Tickets |-> [life |-> "active", done |-> FALSE, assignee |-> NoUser]]
    /\ author = [c \in Comments |-> NoUser]
    /\ audited = {}
    /\ req = [r \in Reqs |-> Idle]

Present(u) == user[u].life = "present"

At(r, pc, calls) == req[r].pc = pc /\ req[r].call \in calls

Move(r, pc) == req' = [req EXCEPT ![r].pc = pc]

Return(r) == req' = [req EXCEPT ![r] = Idle]

Held(t) == \E r \in Reqs : t \in req[r].held

Workable(t) == ticket[t].life = "active" /\ ~ticket[t].done

Assigned(u) == {t \in Tickets : ticket[t].assignee = u}

(* The handlers, when tickets are taken from their assignees or out of work.*)
NoLongerOpen(tickets, handlers) ==
    [r \in Reqs |-> [handlers[r] EXCEPT !.open = @ \ tickets]]

(* A handler that read the user, or found it in the token of the request.   *)
Find(r, call, u) ==
    /\ req[r].pc = "idle"
    /\ Present(u)
    /\ req' = [req EXCEPT ![r] = [Idle EXCEPT
                 !.pc = "found", !.call = call, !.u = u,
                 !.hash = user[u].hash, !.read = user[u].hash,
                 !.open = {t \in Assigned(u) : Workable(t)}]]

CreateUser(u) ==
    /\ user[u].life = "unborn"
    /\ user' = [user EXCEPT ![u] = NewUser]
    /\ UNCHANGED <<project, ticket, author, audited, req>>

----------------------------------------------------------------------------
(* Login and profile update.                                                *)
FindAccount(r, u) ==
    /\ Find(r, "login", u) \/ Find(r, "updateUser", u)
    /\ UNCHANGED <<user, project, ticket, author, audited>>

(* First login: the supplied password becomes the entity's hash.            *)
EnrolAgain(r, password) ==
    /\ At(r, "found", {"login"})
    /\ req' = [req EXCEPT ![r] = [@ EXCEPT !.pc = "changed", !.hash = password]]
    /\ UNCHANGED <<user, project, ticket, author, audited>>

Enrol(r, password) ==
    /\ At(r, "found", {"login"})
    /\ req[r].hash = NoPassword
    /\ req' = [req EXCEPT ![r] = [@ EXCEPT !.pc = "changed", !.hash = password]]
    /\ UNCHANGED <<user, project, ticket, author, audited>>

(* A later login compares, and answers.                                     *)
LogIn(r, password) ==
    /\ At(r, "found", {"login"})
    /\ req[r].hash = password
    /\ Return(r)
    /\ UNCHANGED <<user, project, ticket, author, audited>>

ChangeProfile(r) ==
    /\ At(r, "found", {"updateUser"})
    /\ Move(r, "changed")
    /\ UNCHANGED <<user, project, ticket, author, audited>>

SaveLoad(r) ==
    /\ req[r].pc = "changed"
    /\ req' = [req EXCEPT ![r] = [@ EXCEPT !.pc = "loaded", !.base = user[req[r].u]]]
    /\ UNCHANGED <<user, project, ticket, author, audited>>

(* What save writes: an INSERT when the reload found no row, an UPDATE of   *)
(* the hash if it differs from the reloaded one, which changes nothing when *)
(* the row is gone by then.                                                 *)
Saved(current, base, hash) ==
    IF base.life = "gone"
    THEN [life |-> "present", hash |-> hash]
    ELSE IF current.life = "present" /\ hash # base.hash
         THEN [current EXCEPT !.hash = hash]
         ELSE current

SaveWrite(r) ==
    /\ req[r].pc = "loaded"
    /\ req[r].base.life = "gone" => user[req[r].u].life = "gone"
    /\ user' = [user EXCEPT ![req[r].u] = Saved(@, req[r].base, req[r].hash)]
    /\ Return(r)
    /\ UNCHANGED <<project, ticket, author, audited>>

----------------------------------------------------------------------------
(* DELETE /users/:userId.  Both counts skip soft-deleted rows.              *)
FindDoomed(r, u) ==
    /\ Find(r, "deleteUser", u)
    /\ UNCHANGED <<user, project, ticket, author, audited>>

OwnsProject(u) ==
    \E p \in Projects : project[p].life = "active" /\ project[p].owner = u

CountProjects(r) ==
    /\ At(r, "found", {"deleteUser"})
    /\ ~OwnsProject(req[r].u)
    /\ Move(r, "unowned")
    /\ UNCHANGED <<user, project, ticket, author, audited>>

NoAssignmentCheck(u) == FALSE

HasOpenTicket(u) == \E t \in Assigned(u) : Workable(t)

CountTickets(r) ==
    /\ At(r, "unowned", {"deleteUser"})
    /\ ~HasOpenTicket(req[r].u)
    /\ Move(r, "unassigned")
    /\ UNCHANGED <<user, project, ticket, author, audited>>

CommentsOf(u) == {c \in Comments : author[c] = u}

PurgeComments(r) ==
    /\ req[r].pc = "unassigned"
    /\ req' = [req EXCEPT ![r] = [@ EXCEPT !.pc = "purged",
                                           !.purged = CommentsOf(req[r].u)]]
    /\ UNCHANGED <<user, project, ticket, author, audited>>

ReleaseTickets(r) ==
    /\ req[r].pc = "purged"
    /\ \A t \in Assigned(req[r].u) : ~Held(t)
    /\ req' = [req EXCEPT ![r] = [@ EXCEPT !.pc = "released",
                                           !.held = Assigned(req[r].u)]]
    /\ UNCHANGED <<user, project, ticket, author, audited>>

LeaveNoTrace(r) ==
    /\ req[r].pc = "released"
    /\ Move(r, "logged")
    /\ UNCHANGED <<user, project, ticket, author, audited>>

LogDeletion(r) ==
    /\ req[r].pc = "released"
    /\ audited' = audited \cup {req[r].u}
    /\ Move(r, "logged")
    /\ UNCHANGED <<user, project, ticket, author>>

(* The foreign keys: a project that names the user, soft-deleted or not, or *)
(* a comment that is not purged, refuse the last DELETE; tickets assigned in*)
(* the meantime are cleared.                                                *)
NothingRefers(u, purged) == TRUE

ForeignKeysAllow(u, purged) ==
    /\ \A p \in Projects : project[p].owner # u
    /\ CommentsOf(u) \subseteq purged

DeleteUser(r) ==
    /\ req[r].pc = "logged"
    /\ ForeignKeysAllow(req[r].u, req[r].purged)
    /\ \A t \in Assigned(req[r].u) \ req[r].held : ~Held(t)
    /\ user' = [user EXCEPT ![req[r].u].life = "gone"]
    /\ LET cleared == req[r].held \cup Assigned(req[r].u)
       IN  /\ ticket' = [t \in Tickets |->
                           IF t \in cleared
                           THEN [ticket[t] EXCEPT !.assignee = NoUser] ELSE ticket[t]]
           /\ req' = NoLongerOpen(cleared, [req EXCEPT ![r] = Idle])
    /\ author' = [c \in Comments |-> IF c \in req[r].purged THEN NoUser ELSE author[c]]
    /\ UNCHANGED <<project, audited>>

(* A check fails, a foreign key or a unique index refuses, or the process   *)
(* dies: what is not committed is rolled back.                              *)
GiveUp(r) ==
    /\ req[r].pc # "idle"
    /\ Return(r)
    /\ UNCHANGED <<user, project, ticket, author, audited>>

----------------------------------------------------------------------------
(* Rows that come to name a user: the handler finds the user, later inserts *)
(* or updates, and the foreign key looks again.                             *)
FindUser(r, u) ==
    /\ \/ Find(r, "createProject", u)
       \/ Find(r, "assign", u)
       \/ Find(r, "comment", u)
    /\ UNCHANGED <<user, project, ticket, author, audited>>

CreateProject(r, p) ==
    /\ At(r, "found", {"createProject"})
    /\ project[p].life = "absent"
    /\ Present(req[r].u)
    /\ project' = [project EXCEPT ![p] = [life |-> "active", owner |-> req[r].u]]
    /\ Return(r)
    /\ UNCHANGED <<user, ticket, author, audited>>

Assign(r, t) ==
    /\ At(r, "found", {"assign"})
    /\ Workable(t)
    /\ ~Held(t)
    /\ Present(req[r].u)
    /\ ticket' = [ticket EXCEPT ![t].assignee = req[r].u]
    /\ req' = NoLongerOpen({t}, [req EXCEPT ![r] = Idle])
    /\ UNCHANGED <<user, project, author, audited>>

(* PATCH with assigneeId null.                                              *)
Unassign(t) ==
    /\ Workable(t)
    /\ ~Held(t)
    /\ ticket' = [ticket EXCEPT ![t].assignee = NoUser]
    /\ req' = NoLongerOpen({t}, req)
    /\ UNCHANGED <<user, project, author, audited>>

Comment(r, c) ==
    /\ At(r, "found", {"comment"})
    /\ author[c] = NoUser
    /\ Present(req[r].u)
    /\ author' = [author EXCEPT ![c] = req[r].u]
    /\ Return(r)
    /\ UNCHANGED <<user, project, ticket, audited>>

(* Soft deletes and restores, and DONE, as far as the guards see them.      *)
DeleteOrRestoreProject(p) ==
    /\ project[p].life # "absent"
    /\ project' = [project EXCEPT ![p].life = IF @ = "active" THEN "deleted" ELSE "active"]
    /\ UNCHANGED <<user, ticket, author, audited, req>>

DeleteOrRestoreTicket(t) ==
    /\ ~Held(t)
    /\ ticket' = [ticket EXCEPT ![t].life = IF @ = "active" THEN "deleted" ELSE "active"]
    /\ req' = NoLongerOpen({t}, req)
    /\ UNCHANGED <<user, project, author, audited>>

FinishTicket(t) ==
    /\ Workable(t)
    /\ ~Held(t)
    /\ ticket' = [ticket EXCEPT ![t].done = TRUE]
    /\ req' = NoLongerOpen({t}, req)
    /\ UNCHANGED <<user, project, author, audited>>

----------------------------------------------------------------------------
HandlerStep(r) ==
    \/ \E u \in Users : FindAccount(r, u) \/ FindDoomed(r, u) \/ FindUser(r, u)
    \/ \E password \in Passwords : Enrol(r, password) \/ LogIn(r, password)
    \/ ChangeProfile(r) \/ SaveLoad(r) \/ SaveWrite(r)
    \/ CountProjects(r) \/ CountTickets(r) \/ PurgeComments(r) \/ ReleaseTickets(r)
    \/ LogDeletion(r) \/ DeleteUser(r)
    \/ \E p \in Projects : CreateProject(r, p)
    \/ \E t \in Tickets : Assign(r, t)
    \/ \E c \in Comments : Comment(r, c)
    \/ GiveUp(r)

Next ==
    \/ \E r \in Reqs : HandlerStep(r)
    \/ \E u \in Users : CreateUser(u)
    \/ \E p \in Projects : DeleteOrRestoreProject(p)
    \/ \E t \in Tickets : Unassign(t) \/ DeleteOrRestoreTicket(t) \/ FinishTicket(t)

Spec == Init /\ [][Next]_vars

----------------------------------------------------------------------------
(* Every owner, assignee and author is a user of the table: the guards of   *)
(* the deletion run long before it, so this rests on the rows the last      *)
(* statement clears and on what the foreign keys refuse.                    *)
ReferencesExist ==
    /\ \A p \in Projects : project[p].life # "absent" => Present(project[p].owner)
    /\ \A t \in Tickets : ticket[t].assignee # NoUser => Present(ticket[t].assignee)
    /\ \A c \in Comments : author[c] # NoUser => Present(author[c])

(* BR-14, for what a count before the transaction can promise: a user who   *)
(* had an active ticket, not DONE, when the deletion began, and kept it, is *)
(* not deleted, however many handlers write to users and tickets meanwhile. *)
NobodyGoesWithOpenTickets ==
    \A u \in Users : Present(u) /\ ~Present(u)' =>
      \E r \in Reqs : req[r].pc = "logged" /\ req[r].u = u /\ req[r].open = {}

OpenTicketKeepsItsAssignee == [][NobodyGoesWithOpenTickets]_vars

(* BR-18: the deletion of a user is in the audit log by the time anyone can *)
(* see that the row is gone.                                                *)
DeletionIsAudited ==
    \A u \in Users : user[u].life = "gone" => u \in audited

(* PD-09, for what save can promise: a password that is set gives way only  *)
(* to a handler that read the row before that password was written.         *)
PasswordsYieldToStaleReads ==
    \A u \in Users :
      Present(u) /\ Present(u)' /\ user[u].hash \notin {NoPassword, user'[u].hash}
      => \E r \in Reqs : req[r].pc = "loaded" /\ req[r].u = u /\ req[r].read # user[u].hash

OnlyStaleReadsReplacePassword == [][PasswordsYieldToStaleReads]_vars
=============================================================================
