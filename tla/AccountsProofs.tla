--------------------------- MODULE AccountsProofs ---------------------------
(* Accounts for any number of users, projects, tickets, comments, passwords *)
(* and handlers: nothing names a user who is gone, and what the handlers    *)
(* overwrite or delete, they overwrite or delete knowingly.                 *)
EXTENDS Accounts, TLAPS

USE AccountAssumption

(* What a handler knows: whose call it is, that the tickets it remembers are*)
(* still the user's and in work, that a deletion past its counts remembers  *)
(* none, and which hash it is about to save.                                *)
HandlerIsSound(h) ==
    /\ h.pc # "idle" => h.u \in Users
    /\ h.open \subseteq {t \in Assigned(h.u) : Workable(t)}
    /\ h.pc \in {"unassigned", "purged", "released", "logged"} => h.open = {}
    /\ h.pc = "logged" => h.u \in audited
    /\ h.pc \in {"changed", "loaded"} =>
         \/ h.call = "login" /\ h.read = NoPassword
         \/ h.call = "updateUser" /\ h.read = h.hash
    /\ h.pc = "found" => h.read = h.hash

(* A project that exists has an owner.                                      *)
OwnersAreUsers == \A p \in Projects : project[p].life # "absent" => project[p].owner # NoUser

HandlersAreSound == \A r \in Reqs : HandlerIsSound(req[r])

Inv == TypeOK /\ OwnersAreUsers /\ ReferencesExist /\ DeletionIsAudited /\ HandlersAreSound

LEMMA IdleIsSound == Idle \in Handler /\ HandlerIsSound(Idle) /\ HandlerIsSound(Idle)'
BY DEF Idle, NewUser, Handler, Places, Endpoints, UserRow, MaybeUser, HandlerIsSound

LEMMA InitInv == Init => Inv
<1> SUFFICES ASSUME Init PROVE Inv
  OBVIOUS
<1>1. TypeOK
  BY IdleIsSound DEF Init, TypeOK, NewUser, UserRow, Project, Ticket, MaybeUser
<1>2. HandlersAreSound
  BY IdleIsSound DEF Init, HandlersAreSound
<1> QED
  BY <1>1, <1>2 DEF Init, Inv, OwnersAreUsers, NewUser, ReferencesExist, DeletionIsAudited

(* Only handler r moves.                                                    *)
LEMMA OneHandlerMoves ==
    ASSUME Inv, NEW r \in Reqs, NEW h \in Handler, HandlerIsSound(h)',
           req' = [req EXCEPT ![r] = h],
           UNCHANGED ticket, audited \subseteq audited'
    PROVE  HandlersAreSound' /\ req' \in [Reqs -> Handler]
<1>1. /\ req' \in [Reqs -> Handler]
      /\ \A q \in Reqs : req'[q] = IF q = r THEN h ELSE req[q]
  BY DEF Inv, TypeOK
<1>2. \A q \in Reqs : HandlerIsSound(req[q])'
  <2> SUFFICES ASSUME NEW q \in Reqs PROVE HandlerIsSound(req[q])'
    OBVIOUS
  <2>1. CASE q = r
    BY <1>1, <2>1 DEF HandlerIsSound
  <2>2. CASE q # r
    BY <1>1, <2>2 DEF Inv, HandlersAreSound, HandlerIsSound, Assigned, Workable
  <2> QED
    BY <2>1, <2>2
<1> QED
  BY <1>1, <1>2 DEF HandlersAreSound

(* The same when nothing but req changes.                                   *)
LEMMA QuietStep ==
    ASSUME Inv, NEW r \in Reqs, NEW h \in Handler, HandlerIsSound(h)',
           req' = [req EXCEPT ![r] = h],
           UNCHANGED <<user, project, ticket, author, audited>>
    PROVE  Inv'
<1>1. HandlersAreSound' /\ req' \in [Reqs -> Handler]
  BY OneHandlerMoves
<1> QED
  BY <1>1 DEF Inv, TypeOK, OwnersAreUsers, ReferencesExist, DeletionIsAudited, Present

(* The tickets of a set change, and no handler counts them as open any more.*)
LEMMA TicketsMove ==
    ASSUME Inv, NEW tickets, NEW handlers \in [Reqs -> Handler],
           \A q \in Reqs : HandlerIsSound(handlers[q]),
           req' = NoLongerOpen(tickets, handlers),
           \A t \in Tickets \ tickets : ticket'[t] = ticket[t],
           UNCHANGED audited
    PROVE  HandlersAreSound' /\ req' \in [Reqs -> Handler]
<1>1. ASSUME NEW q \in Reqs
      PROVE  req'[q] \in Handler /\ HandlerIsSound(req[q])'
  <2>1. req'[q] = [handlers[q] EXCEPT !.open = @ \ tickets]
    BY DEF NoLongerOpen
  <2>2. PICK h \in Handler : h = handlers[q]
    OBVIOUS
  <2>3. HandlerIsSound(h)
    BY <2>2
  <2>4. PICK g \in Handler : g = req'[q]
    BY <2>1, <2>2 DEF Handler
  <2>5. /\ g.pc = h.pc /\ g.u = h.u /\ g.call = h.call
        /\ g.read = h.read /\ g.hash = h.hash
        /\ g.open = h.open \ tickets
    BY <2>1, <2>2, <2>4 DEF Handler
  <2>6. h.open \subseteq Tickets
    BY DEF Handler
  <2>7. g.open \subseteq {t \in Assigned(g.u) : Workable(t)}'
    BY <2>3, <2>5, <2>6 DEF HandlerIsSound, Assigned, Workable
  <2>8. HandlerIsSound(g)'
    BY <2>3, <2>5, <2>7 DEF HandlerIsSound
  <2> QED
    BY <2>4, <2>8 DEF HandlerIsSound
<1>2. req' \in [Reqs -> Handler]
  BY <1>1 DEF NoLongerOpen
<1> QED
  BY <1>1, <1>2 DEF HandlersAreSound

LEMMA FindKeepsInv ==
    ASSUME Inv, NEW r \in Reqs, NEW call \in Endpoints, NEW u \in Users, Find(r, call, u),
           UNCHANGED <<user, project, ticket, author, audited>>
    PROVE  Inv'
<1>1. user[u].hash \in Passwords \cup {NoPassword}
  BY DEF Inv, TypeOK, UserRow
<1>2. PICK h \in Handler :
        h = [Idle EXCEPT !.pc = "found", !.call = call, !.u = u,
               !.hash = user[u].hash, !.read = user[u].hash,
               !.open = {t \in Assigned(u) : Workable(t)}]
  BY <1>1, IdleIsSound DEF Handler, Places, Idle, MaybeUser, Assigned
<1>3. HandlerIsSound(h)'
  BY <1>2 DEF HandlerIsSound, Idle, Assigned, Workable
<1> QED
  BY <1>2, <1>3, QuietStep DEF Find

(* Where the next statement of a handler takes it.                          *)
LEMMA PlaceTypes ==
    ASSUME NEW h \in Handler
    PROVE  /\ \A pc \in Places : [h EXCEPT !.pc = pc] \in Handler
           /\ \A password \in Passwords :
                [h EXCEPT !.pc = "changed", !.hash = password] \in Handler
           /\ \A base \in UserRow : [h EXCEPT !.pc = "loaded", !.base = base] \in Handler
           /\ \A purged \in SUBSET Comments :
                [h EXCEPT !.pc = "purged", !.purged = purged] \in Handler
           /\ \A held \in SUBSET Tickets :
                [h EXCEPT !.pc = "released", !.held = held] \in Handler
BY DEF Handler, Places

(* A handler that goes on to pc, where it must know no more than it did.    *)
LEMMA MoveStep ==
    ASSUME Inv, NEW r \in Reqs, NEW pc \in Places \ {"logged", "loaded"}, Move(r, pc),
           req[r].pc # "idle",
           pc \in {"unassigned", "purged", "released"} => req[r].open = {},
           pc = "changed" => req[r].call = "updateUser" /\ req[r].pc = "found",
           pc = "found" => req[r].pc = "found",
           UNCHANGED <<user, project, ticket, author, audited>>
    PROVE  Inv'
<1>1. req[r] \in Handler /\ req' = [req EXCEPT ![r] = [req[r] EXCEPT !.pc = pc]]
  BY DEF Inv, TypeOK, Move
<1>2. PICK h \in Handler : h = [req[r] EXCEPT !.pc = pc]
  BY <1>1, PlaceTypes
<1>3. HandlerIsSound(req[r])
  BY DEF Inv, HandlersAreSound
<1>4. /\ h.pc = pc /\ h.u = req[r].u /\ h.call = req[r].call
      /\ h.read = req[r].read /\ h.hash = req[r].hash /\ h.open = req[r].open
  BY <1>1, <1>2 DEF Handler
<1>5. HandlerIsSound(h)'
  BY <1>3, <1>4 DEF HandlerIsSound, Assigned, Workable
<1> QED
  BY <1>1, <1>2, <1>5, QuietStep

LEMMA ReturnStep ==
    ASSUME Inv, NEW r \in Reqs, Return(r), UNCHANGED <<user, project, ticket, author, audited>>
    PROVE  Inv'
BY IdleIsSound, QuietStep DEF Return

(* Login, profile update and the checks of a deletion change only req.      *)
LEMMA HandlerKeepsInv ==
    ASSUME Inv, NEW r \in Reqs,
           \/ \E u \in Users : FindAccount(r, u) \/ FindDoomed(r, u) \/ FindUser(r, u)
           \/ \E password \in Passwords : Enrol(r, password) \/ LogIn(r, password)
           \/ ChangeProfile(r) \/ SaveLoad(r)
           \/ CountProjects(r) \/ CountTickets(r) \/ PurgeComments(r) \/ ReleaseTickets(r)
           \/ GiveUp(r)
    PROVE  Inv'
<1> DEFINE Unchanged == UNCHANGED <<user, project, ticket, author, audited>>
<1>0. req[r] \in Handler /\ HandlerIsSound(req[r])
  BY DEF Inv, TypeOK, HandlersAreSound
<1>1. ASSUME NEW u \in Users, FindAccount(r, u) \/ FindDoomed(r, u) \/ FindUser(r, u)
      PROVE  Inv'
  <2>1. PICK call \in Endpoints : Find(r, call, u) /\ Unchanged
    BY <1>1 DEF FindAccount, FindDoomed, FindUser, Endpoints
  <2> QED
    BY <2>1, FindKeepsInv
<1>2. ASSUME NEW password \in Passwords, Enrol(r, password) PROVE Inv'
  <2>1. PICK h \in Handler : h = [req[r] EXCEPT !.pc = "changed", !.hash = password]
    BY <1>0, PlaceTypes
  <2>2. /\ h.pc = "changed" /\ h.u = req[r].u /\ h.call = "login"
        /\ h.open = req[r].open /\ h.read = NoPassword
    BY <1>0, <1>2, <2>1 DEF Enrol, At, Handler, HandlerIsSound
  <2>3. HandlerIsSound(h)'
    BY <1>0, <1>2, <2>2 DEF Enrol, At, HandlerIsSound, Assigned, Workable
  <2> QED
    BY <1>2, <2>1, <2>3, QuietStep DEF Enrol
<1>3. ASSUME NEW password \in Passwords, LogIn(r, password) PROVE Inv'
  BY <1>3, ReturnStep DEF LogIn
<1>4. CASE ChangeProfile(r)
  BY <1>4, MoveStep DEF ChangeProfile, At, Places
<1>5. CASE SaveLoad(r)
  <2>1. user[req[r].u] \in UserRow
    BY <1>0, <1>5 DEF SaveLoad, HandlerIsSound, Inv, TypeOK
  <2>2. PICK h \in Handler : h = [req[r] EXCEPT !.pc = "loaded", !.base = user[req[r].u]]
    BY <1>0, <2>1, PlaceTypes
  <2>3. /\ h.pc = "loaded" /\ h.u = req[r].u /\ h.call = req[r].call
        /\ h.open = req[r].open /\ h.read = req[r].read /\ h.hash = req[r].hash
    BY <1>0, <2>2 DEF Handler
  <2>4. HandlerIsSound(h)'
    BY <1>0, <1>5, <2>3 DEF SaveLoad, HandlerIsSound, Assigned, Workable
  <2> QED
    BY <1>5, <2>2, <2>4, QuietStep DEF SaveLoad
<1>6. CASE CountProjects(r)
  BY <1>6, MoveStep DEF CountProjects, At, Places
<1>7. CASE CountTickets(r)
  <2>1. req[r].open = {}
    BY <1>0, <1>7 DEF CountTickets, At, HasOpenTicket, HandlerIsSound
  <2> QED
    BY <1>7, <2>1, MoveStep DEF CountTickets, At, Places
<1>8. CASE PurgeComments(r)
  <2>1. PICK h \in Handler :
          h = [req[r] EXCEPT !.pc = "purged", !.purged = CommentsOf(req[r].u)]
    BY <1>0, PlaceTypes DEF CommentsOf
  <2>2. h.pc = "purged" /\ h.u = req[r].u /\ h.open = req[r].open
    BY <1>0, <2>1 DEF Handler
  <2>3. HandlerIsSound(h)'
    BY <1>0, <1>8, <2>2 DEF PurgeComments, HandlerIsSound, Assigned, Workable
  <2> QED
    BY <1>8, <2>1, <2>3, QuietStep DEF PurgeComments
<1>9. CASE ReleaseTickets(r)
  <2>1. PICK h \in Handler :
          h = [req[r] EXCEPT !.pc = "released", !.held = Assigned(req[r].u)]
    BY <1>0, PlaceTypes DEF Assigned
  <2>2. h.pc = "released" /\ h.u = req[r].u /\ h.open = req[r].open
    BY <1>0, <2>1 DEF Handler
  <2>3. HandlerIsSound(h)'
    BY <1>0, <1>9, <2>2 DEF ReleaseTickets, HandlerIsSound, Assigned, Workable
  <2> QED
    BY <1>9, <2>1, <2>3, QuietStep DEF ReleaseTickets
<1>10. CASE GiveUp(r)
  BY <1>10, ReturnStep DEF GiveUp
<1> QED
  BY <1>1, <1>2, <1>3, <1>4, <1>5, <1>6, <1>7, <1>8, <1>9, <1>10

(* The save writes a hash into a row whose life it leaves alone, or brings  *)
(* a user back: nobody goes.                                                *)
LEMMA SaveWriteKeepsInv ==
    ASSUME Inv, NEW r \in Reqs, SaveWrite(r)
    PROVE  Inv'
<1>1. /\ req[r] \in Handler /\ HandlerIsSound(req[r]) /\ req[r].u \in Users
      /\ UNCHANGED <<project, ticket, author, audited>>
  BY DEF Inv, TypeOK, HandlersAreSound, SaveWrite, HandlerIsSound
<1>2. HandlersAreSound' /\ req' \in [Reqs -> Handler]
  BY <1>1, IdleIsSound, OneHandlerMoves DEF SaveWrite, Return
<1> DEFINE row == Saved(user[req[r].u], req[r].base, req[r].hash)
<1>3. /\ row \in UserRow
      /\ Present(req[r].u) => row.life = "present"
      /\ row.life = "gone" => user[req[r].u].life = "gone"
  BY <1>1 DEF Saved, UserRow, Handler, Inv, TypeOK, Present
<1>4. user' = [user EXCEPT ![req[r].u] = row]
  BY DEF SaveWrite
<1>5. /\ user' \in [Users -> UserRow]
      /\ \A u \in Users : /\ Present(u) => Present(u)'
                          /\ user'[u].life = "gone" => user[u].life = "gone"
  <2> HIDE DEF row
  <2> QED
    BY <1>1, <1>3, <1>4 DEF Inv, TypeOK, Present
<1> QED
  BY <1>1, <1>2, <1>5 DEF Inv, TypeOK, OwnersAreUsers, ReferencesExist, DeletionIsAudited,
     Project, Ticket, MaybeUser

LEMMA LogDeletionKeepsInv ==
    ASSUME Inv, NEW r \in Reqs, LogDeletion(r)
    PROVE  Inv'
<1>1. req[r] \in Handler /\ HandlerIsSound(req[r]) /\ req[r].u \in Users
  BY DEF Inv, TypeOK, HandlersAreSound, LogDeletion, HandlerIsSound
<1>2. PICK h \in Handler : h = [req[r] EXCEPT !.pc = "logged"]
  BY <1>1, PlaceTypes DEF Places
<1>3. h.pc = "logged" /\ h.u = req[r].u /\ h.open = req[r].open
  BY <1>1, <1>2 DEF Handler
<1>4. HandlerIsSound(h)'
  BY <1>1, <1>3 DEF LogDeletion, HandlerIsSound, Assigned, Workable
<1>5. HandlersAreSound' /\ req' \in [Reqs -> Handler]
  BY <1>2, <1>4, OneHandlerMoves DEF LogDeletion, Move
<1> QED
  BY <1>1, <1>5 DEF LogDeletion, Inv, TypeOK, OwnersAreUsers, ReferencesExist,
     DeletionIsAudited, Present

(* The last statement of a deletion: what still names the user is cleared   *)
(* with him, or the foreign keys refuse.                                    *)
LEMMA DeleteUserKeepsInv ==
    ASSUME Inv, NEW r \in Reqs, DeleteUser(r)
    PROVE  Inv'
<1> DEFINE gone == req[r].u
           cleared == req[r].held \cup Assigned(gone)
           handlers == [req EXCEPT ![r] = Idle]
<1>1. req[r] \in Handler /\ HandlerIsSound(req[r]) /\ gone \in Users /\ gone \in audited
  BY DEF Inv, TypeOK, HandlersAreSound, DeleteUser, HandlerIsSound
<1>2. /\ ticket' = [t \in Tickets |-> IF t \in cleared
                    THEN [ticket[t] EXCEPT !.assignee = NoUser] ELSE ticket[t]]
      /\ req' = NoLongerOpen(cleared, handlers)
      /\ author' = [c \in Comments |-> IF c \in req[r].purged THEN NoUser ELSE author[c]]
      /\ user' = [user EXCEPT ![gone].life = "gone"]
      /\ UNCHANGED <<project, audited>>
  BY DEF DeleteUser
<1>3. handlers \in [Reqs -> Handler] /\ \A q \in Reqs : HandlerIsSound(handlers[q])
  BY IdleIsSound DEF Inv, TypeOK, HandlersAreSound
<1>4. HandlersAreSound' /\ req' \in [Reqs -> Handler]
  <2>1. \A t \in Tickets \ cleared : ticket'[t] = ticket[t]
    BY <1>2
  <2> HIDE DEF cleared, handlers
  <2> QED
    BY <1>2, <1>3, <2>1, TicketsMove
<1>5. TypeOK'
  <2>1. ticket' \in [Tickets -> Ticket]
    BY <1>2 DEF Inv, TypeOK, Ticket, MaybeUser
  <2>2. user' \in [Users -> UserRow]
    BY <1>1, <1>2 DEF Inv, TypeOK, UserRow
  <2>3. author' \in [Comments -> MaybeUser]
    BY <1>2 DEF Inv, TypeOK, MaybeUser
  <2> QED
    BY <1>2, <1>4, <2>1, <2>2, <2>3 DEF Inv, TypeOK
<1>6. \A u \in Users : /\ u # gone /\ Present(u) => Present(u)'
                       /\ user'[u].life = "gone" => u = gone \/ user[u].life = "gone"
  BY <1>1, <1>2 DEF Inv, TypeOK, Present
<1>7. ReferencesExist'
  <2>1. ASSUME NEW p \in Projects, project'[p].life # "absent"
        PROVE  Present(project[p].owner)'
    BY <1>2, <1>6, <2>1 DEF DeleteUser, ForeignKeysAllow, Inv, TypeOK, OwnersAreUsers,
       ReferencesExist, Project, MaybeUser, Present
  <2>2. ASSUME NEW t \in Tickets, ticket'[t].assignee # NoUser
        PROVE  Present(ticket[t].assignee)'
    <3>1. t \notin cleared /\ ticket'[t] = ticket[t] /\ ticket[t].assignee # gone
      BY <1>2, <2>2 DEF Inv, TypeOK, Ticket, Assigned
    <3>2. ticket[t].assignee \in Users /\ Present(ticket[t].assignee)
      BY <2>2, <3>1 DEF Inv, TypeOK, ReferencesExist, Ticket, MaybeUser
    <3>3. user'[ticket[t].assignee].life = "present"
      BY <1>6, <3>1, <3>2 DEF Present
    <3> QED
      BY <3>1, <3>3 DEF Present
  <2>3. ASSUME NEW c \in Comments, author'[c] # NoUser
        PROVE  Present(author[c])'
    <3>1. author'[c] = author[c] /\ author[c] # gone
      BY <1>2, <2>3 DEF DeleteUser, ForeignKeysAllow, CommentsOf
    <3>2. author[c] \in Users /\ Present(author[c])
      BY <2>3, <3>1 DEF Inv, TypeOK, ReferencesExist, MaybeUser
    <3>3. user'[author[c]].life = "present"
      BY <1>6, <3>1, <3>2 DEF Present
    <3> QED
      BY <3>1, <3>3 DEF Present
  <2> QED
    BY <2>1, <2>2, <2>3 DEF ReferencesExist
<1> QED
  BY <1>1, <1>2, <1>4, <1>5, <1>6, <1>7 DEF Inv, OwnersAreUsers, DeletionIsAudited

(* Rows that come to name a user, and what happens to rows by themselves.   *)
LEMMA RowsKeepInv ==
    ASSUME Inv,
           \/ \E r \in Reqs : \/ \E p \in Projects : CreateProject(r, p)
                              \/ \E c \in Comments : Comment(r, c)
           \/ \E u \in Users : CreateUser(u)
           \/ \E p \in Projects : DeleteOrRestoreProject(p)
    PROVE  Inv'
<1>1. ASSUME NEW r \in Reqs,
             \/ \E p \in Projects : CreateProject(r, p)
             \/ \E c \in Comments : Comment(r, c)
      PROVE  Inv'
  <2>1. /\ UNCHANGED <<user, ticket, audited>> /\ Return(r)
        /\ req[r].u \in Users /\ Present(req[r].u)
    BY <1>1 DEF CreateProject, Comment, At, Inv, HandlersAreSound, HandlerIsSound
  <2>2. HandlersAreSound' /\ req' \in [Reqs -> Handler]
    BY <2>1, IdleIsSound, OneHandlerMoves DEF Return
  <2>3. CASE \E p \in Projects : CreateProject(r, p)
    <3>1. PICK p \in Projects :
            /\ project' = [project EXCEPT ![p] = [life |-> "active", owner |-> req[r].u]]
            /\ UNCHANGED author
      BY <2>3 DEF CreateProject
    <3>2. project' \in [Projects -> Project]
      BY <2>1, <3>1 DEF Inv, TypeOK, Project, MaybeUser
    <3>3. \A q \in Projects : \/ q = p /\ project'[q].owner = req[r].u
                              \/ project'[q] = project[q]
      BY <3>1 DEF Inv, TypeOK
    <3> QED
      BY <2>1, <2>2, <3>1, <3>2, <3>3 DEF Inv, TypeOK, OwnersAreUsers, ReferencesExist,
         DeletionIsAudited, Present
  <2>4. CASE \E c \in Comments : Comment(r, c)
    BY <2>1, <2>2, <2>4 DEF Comment, Inv, TypeOK, MaybeUser, OwnersAreUsers,
       ReferencesExist, DeletionIsAudited, Present
  <2> QED
    BY <1>1, <2>3, <2>4
<1>2. ASSUME NEW u \in Users, CreateUser(u) PROVE Inv'
  <2>1. /\ user' \in [Users -> UserRow]
        /\ \A v \in Users : /\ Present(v) => Present(v)'
                            /\ user'[v].life = "gone" => user[v].life = "gone"
    BY <1>2 DEF CreateUser, Inv, TypeOK, NewUser, UserRow, Present
  <2>2. HandlersAreSound'
    BY <1>2 DEF CreateUser, Inv, HandlersAreSound, HandlerIsSound, Assigned, Workable
  <2> QED
    BY <1>2, <2>1, <2>2 DEF CreateUser, Inv, TypeOK, OwnersAreUsers, ReferencesExist,
       DeletionIsAudited, Project, Ticket, MaybeUser, Present
<1>3. ASSUME NEW p \in Projects, DeleteOrRestoreProject(p) PROVE Inv'
  <2>1. project[p].life # "absent"
        /\ UNCHANGED <<user, ticket, author, audited, req>>
    BY <1>3 DEF DeleteOrRestoreProject
  <2>2. /\ project' \in [Projects -> Project]
        /\ \A q \in Projects : /\ project'[q].owner = project[q].owner
                               /\ project'[q].life = "absent" <=> project[q].life = "absent"
    BY <1>3, <2>1 DEF DeleteOrRestoreProject, Inv, TypeOK, Project
  <2>3. HandlersAreSound'
    BY <2>1 DEF Inv, HandlersAreSound, HandlerIsSound, Assigned, Workable
  <2>4. OwnersAreUsers'
    BY <2>2 DEF Inv, OwnersAreUsers
  <2>5. ReferencesExist'
    BY <2>1, <2>2 DEF Inv, ReferencesExist, Present
  <2> QED
    BY <2>1, <2>2, <2>3, <2>4, <2>5 DEF Inv, TypeOK, DeletionIsAudited
<1> QED
  BY <1>1, <1>2, <1>3

(* One ticket changes, and its assignee, if any, is there.                  *)
LEMMA TicketStep ==
    ASSUME Inv, NEW t \in Tickets, NEW new \in Ticket,
           NEW handlers \in [Reqs -> Handler],
           \A q \in Reqs : HandlerIsSound(handlers[q]),
           new.assignee # NoUser => Present(new.assignee),
           ticket' = [ticket EXCEPT ![t] = new],
           req' = NoLongerOpen({t}, handlers),
           UNCHANGED <<user, project, author, audited>>
    PROVE  Inv'
<1>1. /\ ticket' \in [Tickets -> Ticket]
      /\ \A s \in Tickets : ticket'[s] = IF s = t THEN new ELSE ticket[s]
  BY DEF Inv, TypeOK
<1>2. HandlersAreSound' /\ req' \in [Reqs -> Handler]
  <2>1. \A s \in Tickets \ {t} : ticket'[s] = ticket[s]
    BY <1>1
  <2> QED
    BY <2>1, TicketsMove
<1> QED
  BY <1>1, <1>2 DEF Inv, TypeOK, OwnersAreUsers, ReferencesExist, DeletionIsAudited, Present

LEMMA TicketsKeepInv ==
    ASSUME Inv, NEW t \in Tickets,
           \/ \E r \in Reqs : Assign(r, t)
           \/ Unassign(t) \/ DeleteOrRestoreTicket(t) \/ FinishTicket(t)
    PROVE  Inv'
<1>0. /\ ticket[t] \in Ticket /\ req \in [Reqs -> Handler]
      /\ \A q \in Reqs : HandlerIsSound(req[q])
      /\ ticket[t].assignee # NoUser => Present(ticket[t].assignee)
  BY DEF Inv, TypeOK, HandlersAreSound, ReferencesExist
<1>1. ASSUME NEW r \in Reqs, Assign(r, t) PROVE Inv'
  <2>1. req[r].u \in Users /\ Present(req[r].u)
    BY <1>0, <1>1 DEF Assign, At, HandlerIsSound
  <2>2. PICK new \in Ticket : new = [ticket[t] EXCEPT !.assignee = req[r].u]
    BY <1>0, <2>1 DEF Ticket, MaybeUser
  <2>3. new.assignee = req[r].u
    BY <1>0, <2>2 DEF Ticket
  <2>4. PICK handlers \in [Reqs -> Handler] : handlers = [req EXCEPT ![r] = Idle]
    BY <1>0, IdleIsSound
  <2>5. \A q \in Reqs : HandlerIsSound(handlers[q])
    BY <1>0, <2>4, IdleIsSound
  <2> QED
    BY <1>1, <2>1, <2>2, <2>3, <2>4, <2>5, TicketStep DEF Assign
<1>2. CASE Unassign(t)
  <2>1. PICK new \in Ticket : new = [ticket[t] EXCEPT !.assignee = NoUser]
    BY <1>0 DEF Ticket, MaybeUser
  <2>2. new.assignee = NoUser
    BY <1>0, <2>1 DEF Ticket
  <2> QED
    BY <1>0, <1>2, <2>1, <2>2, TicketStep DEF Unassign
<1>3. CASE DeleteOrRestoreTicket(t)
  <2>1. PICK new \in Ticket :
          new = [ticket[t] EXCEPT !.life = IF @ = "active" THEN "deleted" ELSE "active"]
    BY <1>0 DEF Ticket
  <2>2. new.assignee = ticket[t].assignee
    BY <1>0, <2>1 DEF Ticket
  <2> QED
    BY <1>0, <1>3, <2>1, <2>2, TicketStep DEF DeleteOrRestoreTicket
<1>4. CASE FinishTicket(t)
  <2>1. PICK new \in Ticket : new = [ticket[t] EXCEPT !.done = TRUE]
    BY <1>0 DEF Ticket
  <2>2. new.assignee = ticket[t].assignee
    BY <1>0, <2>1 DEF Ticket
  <2> QED
    BY <1>0, <1>4, <2>1, <2>2, TicketStep DEF FinishTicket
<1> QED
  BY <1>1, <1>2, <1>3, <1>4

LEMMA StepInv == Inv /\ [Next]_vars => Inv'
<1> SUFFICES ASSUME Inv, [Next]_vars PROVE Inv'
  OBVIOUS
<1>1. CASE \E r \in Reqs : HandlerStep(r)
  BY <1>1, HandlerKeepsInv, SaveWriteKeepsInv, LogDeletionKeepsInv, DeleteUserKeepsInv,
     RowsKeepInv, TicketsKeepInv DEF HandlerStep
<1>2. CASE \E u \in Users : CreateUser(u)
  BY <1>2, RowsKeepInv
<1>3. CASE \E p \in Projects : DeleteOrRestoreProject(p)
  BY <1>3, RowsKeepInv
<1>4. CASE \E t \in Tickets : Unassign(t) \/ DeleteOrRestoreTicket(t) \/ FinishTicket(t)
  BY <1>4, TicketsKeepInv
<1>5. CASE UNCHANGED vars
  BY <1>5 DEF vars, Inv, TypeOK, OwnersAreUsers, ReferencesExist, DeletionIsAudited,
     HandlersAreSound, HandlerIsSound, Assigned, Workable, Present
<1> QED
  BY <1>1, <1>2, <1>3, <1>4, <1>5 DEF Next

LEMMA Invariance == Spec => []Inv
BY InitInv, StepInv, PTL DEF Spec

(* Which steps write to the users table.                                    *)
LEMMA OtherStepsKeepUsers ==
    ASSUME [Next]_vars
    PROVE  \/ \E r \in Reqs : SaveWrite(r) \/ DeleteUser(r)
           \/ \E u \in Users : CreateUser(u)
           \/ UNCHANGED user
<1>1. ASSUME NEW r \in Reqs, HandlerStep(r)
      PROVE  SaveWrite(r) \/ DeleteUser(r) \/ UNCHANGED user
  BY <1>1 DEF HandlerStep, FindAccount, FindDoomed, FindUser, Enrol, LogIn, ChangeProfile,
     SaveLoad, CountProjects, CountTickets, PurgeComments, ReleaseTickets, LogDeletion,
     CreateProject, Assign, Comment, GiveUp
<1> QED
  BY <1>1 DEF Next, vars, DeleteOrRestoreProject, Unassign, DeleteOrRestoreTicket,
     FinishTicket

----------------------------------------------------------------------------
(* The type invariant.                                                      *)
THEOREM Typing == Spec => []TypeOK
BY Invariance, PTL DEF Inv

(* Every owner, assignee and author is a row of the users table, for any    *)
(* interleaving of deletions, creations and assignments.                    *)
THEOREM References == Spec => []ReferencesExist
BY Invariance, PTL DEF Inv

(* No user is gone without a DELETE row in the audit log.                   *)
THEOREM AuditedDeletion == Spec => []DeletionIsAudited
BY Invariance, PTL DEF Inv

(* A deletion never removes the assignee of a ticket that was open, and his,*)
(* from the moment the handler found him.                                   *)
THEOREM KeptAssignee == Spec => OpenTicketKeepsItsAssignee
<1>1. ASSUME Inv, [Next]_vars, NEW u \in Users, Present(u), ~Present(u)'
      PROVE  \E r \in Reqs : req[r].pc = "logged" /\ req[r].u = u /\ req[r].open = {}
  <2>1. ASSUME NEW r \in Reqs, DeleteUser(r)
        PROVE  req[r].pc = "logged" /\ req[r].u = u /\ req[r].open = {}
    BY <1>1, <2>1 DEF DeleteUser, Inv, TypeOK, HandlersAreSound, HandlerIsSound, Present
  <2>2. ASSUME NEW r \in Reqs, SaveWrite(r) PROVE FALSE
    BY <1>1, <2>2 DEF SaveWrite, Saved, Inv, TypeOK, UserRow, Present
  <2>3. ASSUME NEW v \in Users, CreateUser(v) PROVE FALSE
    BY <1>1, <2>3 DEF CreateUser, NewUser, Inv, TypeOK, Present
  <2>4. CASE UNCHANGED user
    BY <1>1, <2>4 DEF Present
  <2> QED
    BY <1>1, <2>1, <2>2, <2>3, <2>4, OtherStepsKeepUsers DEF vars
<1>2. Inv /\ [Next]_vars => [NobodyGoesWithOpenTickets]_vars
  BY <1>1 DEF NobodyGoesWithOpenTickets
<1> QED
  BY <1>2, Invariance, PTL DEF OpenTicketKeepsItsAssignee, Spec

(* A password that is set is replaced only by a handler that read the row   *)
(* before that password was written.                                        *)
THEOREM StaleReads == Spec => OnlyStaleReadsReplacePassword
<1>1. ASSUME Inv, [Next]_vars, NEW u \in Users, Present(u), Present(u)',
             user[u].hash \notin {NoPassword, user'[u].hash}
      PROVE  \E r \in Reqs : req[r].pc = "loaded" /\ req[r].u = u
                             /\ req[r].read # user[u].hash
  <2>1. ASSUME NEW r \in Reqs, SaveWrite(r)
        PROVE  req[r].pc = "loaded" /\ req[r].u = u /\ req[r].read # user[u].hash
    <3>0. HandlerIsSound(req[r]) /\ req[r] \in Handler
      BY <1>1 DEF Inv, TypeOK, HandlersAreSound
    <3>1. /\ req[r].pc = "loaded"
          /\ user' = [user EXCEPT ![req[r].u] = Saved(@, req[r].base, req[r].hash)]
          /\ req[r].base.life = "gone" => user[req[r].u].life = "gone"
      BY <2>1 DEF SaveWrite
    <3>2. req[r].u = u /\ user'[u] = Saved(user[u], req[r].base, req[r].hash)
      BY <1>1, <3>0, <3>1 DEF Inv, TypeOK, HandlerIsSound
    <3>3. user'[u].hash = req[r].hash
      BY <1>1, <3>1, <3>2 DEF Saved, Inv, TypeOK, UserRow, Present
    <3> QED
      BY <1>1, <3>0, <3>1, <3>2, <3>3 DEF HandlerIsSound
  <2>2. ASSUME NEW r \in Reqs, DeleteUser(r) PROVE FALSE
    BY <1>1, <2>2 DEF DeleteUser, Inv, TypeOK, UserRow, Present
  <2>3. ASSUME NEW v \in Users, CreateUser(v) PROVE FALSE
    BY <1>1, <2>3 DEF CreateUser, NewUser, Inv, TypeOK, Present
  <2>4. CASE UNCHANGED user
    BY <1>1, <2>4
  <2> QED
    BY <1>1, <2>1, <2>2, <2>3, <2>4, OtherStepsKeepUsers DEF vars
<1>2. Inv /\ [Next]_vars => [PasswordsYieldToStaleReads]_vars
  BY <1>1 DEF PasswordsYieldToStaleReads
<1> QED
  BY <1>2, Invariance, PTL DEF OnlyStaleReadsReplacePassword, Spec
=============================================================================
