------------------------ MODULE ProjectCascadeProofs ------------------------
(* ProjectCascade for any number of tickets and handlers, whatever calls    *)
(* overlap and wherever they fail.                                          *)
EXTENDS ProjectCascade, TLAPS

USE CascadeAssumption

Carries(r, call) == req[r].pc = "listed" /\ req[r].call = call

Listed(r) == req[r].todo \cup req[r].wrote

(* Which ticket a handler is about, and which locks are its own.            *)
HandlerIsPlaced(r) ==
    /\ /\ req[r].pc # "idle"
       /\ req[r].call \in {"createTicket", "deleteTicket", "restoreTicket", "escalate"}
       => req[r].t \in Tickets
    /\ req[r].pc \in {"marked", "listed"} =>
         req[r].call \in {"deleteProject", "restoreProject"} /\ projectLock = r
    /\ At(r, "wrote", {"deleteTicket"}) => lock[req[r].t] = r
    /\ \A t \in req[r].wrote : lock[t] = r
    /\ req[r].pc # "listed" => req[r].wrote = {}

Placed == TypeOK /\ \A r \in Reqs : HandlerIsPlaced(r)

(* The list of a deletion holds every active ticket that is not late, and   *)
(* of the others only those that went on their own since; the list of a     *)
(* restore holds every marked ticket but the strays, and of the deleted     *)
(* ones none that only its own DELETE took.                                 *)
CarriedIsRight(r, t) ==
    /\ Carries(r, "deleteProject") =>
         /\ ticket[t].life = "active" => t \in Listed(r) \cup late
         /\ t \in Listed(r) => ticket[t].life = "active" \/ removedBy[t] = "both"
    /\ Carries(r, "restoreProject") =>
         /\ ticket[t].withProject => t \in Listed(r) \cup strays
         /\ t \in Listed(r) => ticket[t].life = "active" \/ removedBy[t] # "ticket"

(* The property, and that a ticket only its own DELETE took has no mark.    *)
TicketIsRight(t) ==
    /\ project = "deleted" /\ ticket[t].life = "active" => t \in late
    /\ ticket[t].withProject => project = "deleted" \/ t \in strays
    /\ removedBy[t] = "project" => ticket[t].withProject
    /\ ticket[t].withProject => ticket[t].life = "active" \/ removedBy[t] # "ticket"

Inv ==
    /\ Placed
    /\ \A t \in Tickets : TicketIsRight(t)
    /\ \A r \in Reqs, t \in Tickets : CarriedIsRight(r, t)

LEMMA IdleTypes == Idle \in Handler /\ Idle.pc = "idle" /\ Idle.todo = {} /\ Idle.wrote = {}
BY DEF Idle, Handler, Places, Endpoints, Lives, Ticket, Unmarked

LEMMA InitInv == Init => Inv
<1> SUFFICES ASSUME Init PROVE Inv
  OBVIOUS
<1>1. \A r \in Reqs : req[r] = Idle
  BY DEF Init
<1>2. /\ ticket \in [Tickets -> Ticket]
      /\ \A t \in Tickets : ~ticket[t].withProject
  BY DEF Init, Ticket, Lives, Unmarked
<1>3. TypeOK
  BY <1>2, IdleTypes DEF Init, TypeOK, Lives, Removers
<1>4. \A r \in Reqs : HandlerIsPlaced(r) /\ \A t \in Tickets : CarriedIsRight(r, t)
  BY <1>1, IdleTypes DEF HandlerIsPlaced, CarriedIsRight, Carries, At
<1> QED
  BY <1>2, <1>3, <1>4 DEF Init, Inv, Placed, TicketIsRight

----------------------------------------------------------------------------
(* A step of handler r, pointwise, and what it leaves to the others.        *)
LEMMA OneHandlerMoves ==
    ASSUME TypeOK, NEW r \in Reqs, NEW h \in Handler, req' = [req EXCEPT ![r] = h]
    PROVE  /\ req' \in [Reqs -> Handler]
           /\ \A q \in Reqs : req'[q] = IF q = r THEN h ELSE req[q]
BY DEF TypeOK

OthersKeepLocks(r) ==
    /\ projectLock' \in Reqs \cup {Free}
    /\ projectLock \notin {r, Free} => projectLock' = projectLock
    /\ lock' \in [Tickets -> Reqs \cup {Free}]
    /\ \A t \in Tickets : lock[t] \notin {r, Free} => lock'[t] = lock[t]

RowsKeepTypes ==
    /\ project' \in Lives
    /\ ticket' \in [Tickets -> Ticket]
    /\ removedBy' \in [Tickets -> Removers]
    /\ late' \subseteq Tickets
    /\ strays' \subseteq Tickets

LEMMA FinishFrees ==
    ASSUME TypeOK, NEW r \in Reqs, Finish(r)
    PROVE  req' = [req EXCEPT ![r] = Idle] /\ OthersKeepLocks(r)
BY DEF TypeOK, Finish, OthersKeepLocks

LEMMA SameRows ==
    ASSUME TypeOK, UNCHANGED <<rows, history>>
    PROVE  RowsKeepTypes
BY DEF TypeOK, RowsKeepTypes, rows, history

LEMMA StartTypes ==
    ASSUME TypeOK, NEW r \in Reqs, NEW pc \in Places, NEW call \in Endpoints,
           NEW t \in Tickets \cup {NoTicket}, NEW mark \in BOOLEAN,
           Start(r, pc, call, t, mark)
    PROVE  \E h \in Handler :
             /\ req' = [req EXCEPT ![r] = h]
             /\ h.pc = pc /\ h.call = call /\ h.t = t /\ h.wrote = {} /\ h.todo = {}
<1>1. [Idle EXCEPT !.pc = pc, !.call = call, !.t = t, !.mark = mark] \in Handler
  BY DEF Idle, Handler, Lives, Ticket, Unmarked
<1> QED
  BY <1>1 DEF Start, Idle

Moved(r, pc) == [req[r] EXCEPT !.pc = pc]

LEMMA MoveTypes ==
    ASSUME TypeOK, NEW r \in Reqs, NEW pc \in Places
    PROVE  LET h == Moved(r, pc)
           IN  /\ h \in Handler
               /\ h.pc = pc /\ h.call = req[r].call /\ h.t = req[r].t
               /\ h.todo = req[r].todo /\ h.wrote = req[r].wrote
<1>1. req[r] \in Handler
  BY DEF TypeOK
<1> QED
  BY <1>1 DEF Handler, Moved

(* What a call writes into the row of its own ticket, and who removed it.   *)
LEMMA OwnRowTypes ==
    ASSUME TypeOK, NEW t \in Tickets, NEW row \in Ticket, NEW by \in Removers,
           ticket' = [ticket EXCEPT ![t] = row],
           removedBy' = [removedBy EXCEPT ![t] = by]
    PROVE  /\ ticket' \in [Tickets -> Ticket]
           /\ removedBy' \in [Tickets -> Removers]
           /\ \A s \in Tickets : /\ ticket'[s] = IF s = t THEN row ELSE ticket[s]
                                 /\ removedBy'[s] = IF s = t THEN by ELSE removedBy[s]
BY DEF TypeOK

LEMMA AppearTypes ==
    ASSUME TypeOK, NEW t \in Tickets, Appear(t)
    PROVE  late' \subseteq Tickets
BY DEF TypeOK, Appear

(* Handlers stay placed when one moves and is placed itself.                *)
LEMMA PlacedStep ==
    ASSUME Placed, NEW r \in Reqs, NEW h \in Handler, req' = [req EXCEPT ![r] = h],
           OthersKeepLocks(r), RowsKeepTypes, HandlerIsPlaced(r)'
    PROVE  Placed'
<1>1. /\ req' \in [Reqs -> Handler]
      /\ \A q \in Reqs : req'[q] = IF q = r THEN h ELSE req[q]
  BY OneHandlerMoves DEF Placed
<1>2. TypeOK'
  BY <1>1 DEF TypeOK, OthersKeepLocks, RowsKeepTypes
<1>3. ASSUME NEW q \in Reqs PROVE HandlerIsPlaced(q)'
  <2>1. CASE q # r
    <3>1. HandlerIsPlaced(q) /\ req'[q] = req[q] /\ req[q] \in Handler
      BY <1>1, <2>1 DEF Placed, TypeOK
    <3>2. /\ \A t \in Tickets : lock[t] = q => lock'[t] = q
          /\ projectLock = q => projectLock' = q
      BY <2>1 DEF OthersKeepLocks
    <3>3. req[q].wrote \subseteq Tickets
      BY <3>1 DEF Handler
    <3> QED
      BY <3>1, <3>2, <3>3 DEF HandlerIsPlaced, At
  <2> QED
    BY <2>1
<1> QED
  BY <1>2, <1>3 DEF Placed

(* A call starts, moves on or ends.                                         *)
LEMMA PlacedStart ==
    ASSUME Placed, NEW r \in Reqs, NEW pc \in {"found", "allowed"}, NEW call \in Endpoints,
           NEW t \in Tickets \cup {NoTicket}, NEW mark \in BOOLEAN,
           Start(r, pc, call, t, mark),
           call \in {"createTicket", "deleteTicket", "restoreTicket", "escalate"} => t \in Tickets,
           UNCHANGED <<rows, locks, history>>
    PROVE  Placed'
<1>1. pc \in Places
  BY DEF Places
<1>2. PICK h \in Handler :
        /\ req' = [req EXCEPT ![r] = h]
        /\ h.pc = pc /\ h.call = call /\ h.t = t /\ h.wrote = {} /\ h.todo = {}
  BY <1>1, StartTypes DEF Placed
<1>3. req'[r] = h
  BY <1>2, OneHandlerMoves DEF Placed
<1>4. HandlerIsPlaced(r)'
  BY <1>2, <1>3 DEF HandlerIsPlaced, At
<1>5. OthersKeepLocks(r) /\ RowsKeepTypes
  BY SameRows DEF Placed, OthersKeepLocks, TypeOK, locks
<1> QED
  BY <1>2, <1>4, <1>5, PlacedStep

LEMMA PlacedEnd ==
    ASSUME Placed, NEW r \in Reqs, Finish(r), RowsKeepTypes
    PROVE  Placed'
<1>1. req' = [req EXCEPT ![r] = Idle] /\ OthersKeepLocks(r)
  BY FinishFrees DEF Placed
<1>2. req'[r] = Idle
  BY <1>1, IdleTypes, OneHandlerMoves DEF Placed
<1>3. HandlerIsPlaced(r)'
  BY <1>2, IdleTypes DEF HandlerIsPlaced, At
<1> QED
  BY <1>1, <1>3, IdleTypes, PlacedStep

LEMMA PlacedMove ==
    ASSUME Placed, NEW r \in Reqs, NEW pc \in {"marked", "allowed", "wrote"},
           req' = [req EXCEPT ![r].pc = pc],
           req[r].pc \in {"found", "allowed"},
           pc = "marked" => /\ req[r].call \in {"deleteProject", "restoreProject"}
                            /\ projectLock' = r,
           pc = "wrote" /\ req[r].call = "deleteTicket" => lock'[req[r].t] = r,
           OthersKeepLocks(r), RowsKeepTypes
    PROVE  Placed'
<1> DEFINE h == Moved(r, pc)
<1>1. /\ h \in Handler /\ h.pc = pc
      /\ h.call = req[r].call /\ h.t = req[r].t /\ h.wrote = req[r].wrote
  BY MoveTypes DEF Placed, Places
<1>2. req' = [req EXCEPT ![r] = h] /\ req'[r] = h
  BY DEF Moved, Placed, TypeOK
<1> HIDE DEF h
<1>3. HandlerIsPlaced(r)
  BY DEF Placed
<1>4. HandlerIsPlaced(r)'
  BY <1>1, <1>2, <1>3 DEF HandlerIsPlaced, At
<1> QED
  BY <1>1, <1>2, <1>4, PlacedStep

LEMMA PlacedBegin ==
    ASSUME Placed, NEW r \in Reqs, Begin(r)
    PROVE  Placed'
<1> USE DEF Endpoints
<1>1. CASE FindProject(r)
  BY <1>1, PlacedStart DEF FindProject
<1>2. CASE UpdateFind(r)
  BY <1>2, PlacedStart DEF UpdateFind
<1>3. ASSUME NEW t \in Tickets, CreateCheck(r, t) PROVE Placed'
  BY <1>3, PlacedStart DEF CreateCheck
<1>4. ASSUME NEW t \in Tickets, DeleteFind(r, t) PROVE Placed'
  BY <1>4, PlacedStart DEF DeleteFind
<1>5. ASSUME NEW t \in Tickets, RestoreFind(r, t) PROVE Placed'
  BY <1>5, PlacedStart DEF RestoreFind
<1>6. ASSUME NEW t \in Tickets, EscalationFind(r, t) PROVE Placed'
  <2>1. ticket[t].withProject \in BOOLEAN
    BY DEF Placed, TypeOK, Ticket
  <2> QED
    BY <1>6, <2>1, PlacedStart DEF EscalationFind
<1> QED
  BY <1>1, <1>2, <1>3, <1>4, <1>5, <1>6 DEF Begin

(* The steps of a handler that only read, lock or refuse.                   *)
LEMMA PlacedMiddle ==
    ASSUME Placed, NEW r \in Reqs,
           \/ MarkProject(r) \/ DeleteMark(r) \/ RestoreFindProject(r)
           \/ RestoreRefuse(r) \/ Fail(r)
    PROVE  Placed'
<1>0. TypeOK /\ HandlerIsPlaced(r)
  BY DEF Placed
<1>1. CASE MarkProject(r)
  <2>1. OthersKeepLocks(r) /\ RowsKeepTypes
    BY <1>0, <1>1, SameRows DEF MarkProject, OthersKeepLocks, TypeOK
  <2> QED
    BY <1>1, <2>1, PlacedMove DEF MarkProject, At
<1>2. CASE DeleteMark(r)
  <2>0. req[r].t \in Tickets /\ lock[req[r].t] = Free /\ lock' = [lock EXCEPT ![req[r].t] = r]
    BY <1>0, <1>2 DEF DeleteMark, At, HandlerIsPlaced
  <2>1. OthersKeepLocks(r) /\ lock'[req[r].t] = r
    BY <1>0, <1>2, <2>0 DEF DeleteMark, OthersKeepLocks, TypeOK
  <2>2. RowsKeepTypes
    BY <1>0, <1>2, SameRows DEF DeleteMark
  <2> QED
    BY <1>2, <2>1, <2>2, PlacedMove DEF DeleteMark, At
<1>3. CASE RestoreFindProject(r)
  <2>1. OthersKeepLocks(r) /\ RowsKeepTypes
    BY <1>0, <1>3, SameRows DEF RestoreFindProject, OthersKeepLocks, TypeOK, locks
  <2> QED
    BY <1>3, <2>1, PlacedMove DEF RestoreFindProject, At
<1>4. CASE RestoreRefuse(r) \/ Fail(r)
  BY <1>0, <1>4, SameRows, PlacedEnd DEF RestoreRefuse, Fail
<1> QED
  BY <1>1, <1>2, <1>3, <1>4

(* The steps that record something in the handler.                          *)
LEMMA PlacedRecord ==
    ASSUME Placed, NEW r \in Reqs,
           \/ ListTickets(r) \/ UpdateLoad(r) \/ EscalationLoad(r)
           \/ \E t \in Tickets : UpdateTicket(r, t)
    PROVE  Placed'
<1>0. TypeOK /\ HandlerIsPlaced(r) /\ req[r] \in Handler
  BY DEF Placed, TypeOK
<1>1. CASE ListTickets(r)
  <2>1. [req[r] EXCEPT !.pc = "listed", !.todo = Affected(req[r].call)] \in Handler
    BY <1>0 DEF Handler, Places, Affected
  <2>2. PICK h \in Handler :
          h = [req[r] EXCEPT !.pc = "listed", !.todo = Affected(req[r].call)]
    BY <2>1
  <2>3. h.pc = "listed" /\ h.call = req[r].call /\ h.wrote = {}
    BY <1>0, <1>1, <2>2 DEF ListTickets, Handler, HandlerIsPlaced
  <2>4. req' = [req EXCEPT ![r] = h] /\ req'[r] = h
    BY <1>0, <1>1, <2>2 DEF ListTickets, TypeOK
  <2>5. HandlerIsPlaced(r)'
    BY <1>0, <1>1, <2>3, <2>4 DEF ListTickets, HandlerIsPlaced, At, locks
  <2>6. OthersKeepLocks(r) /\ RowsKeepTypes
    BY <1>0, <1>1 DEF ListTickets, OthersKeepLocks, RowsKeepTypes, TypeOK, rows, locks
  <2> QED
    BY <2>4, <2>5, <2>6, PlacedStep
<1>2. CASE UpdateLoad(r) \/ EscalationLoad(r)
  <2>1. PICK row \in Ticket : req' = [req EXCEPT ![r] = [@ EXCEPT !.pc = "loaded", !.base = row]]
    <3>1. CASE UpdateLoad(r)
      <4>1. Unmarked(project) \in Ticket
        BY <1>0 DEF TypeOK, Unmarked, Ticket
      <4> QED
        BY <3>1, <4>1 DEF UpdateLoad
    <3>2. CASE EscalationLoad(r)
      <4>1. ticket[req[r].t] \in Ticket
        BY <1>0, <3>2 DEF EscalationLoad, At, HandlerIsPlaced, TypeOK
      <4> QED
        BY <3>2, <4>1 DEF EscalationLoad
    <3> QED
      BY <1>2, <3>1, <3>2
  <2>2. [req[r] EXCEPT !.pc = "loaded", !.base = row] \in Handler
    BY <1>0 DEF Handler, Places
  <2>3. PICK h \in Handler : h = [req[r] EXCEPT !.pc = "loaded", !.base = row]
    BY <2>2
  <2>4. h.pc = "loaded" /\ h.call = req[r].call /\ h.t = req[r].t /\ h.wrote = {}
    BY <1>0, <1>2, <2>3 DEF UpdateLoad, EscalationLoad, At, Handler, HandlerIsPlaced
  <2>5. req' = [req EXCEPT ![r] = h] /\ req'[r] = h
    BY <1>0, <2>1, <2>3 DEF TypeOK
  <2>6. HandlerIsPlaced(r)'
    BY <1>0, <1>2, <2>4, <2>5 DEF UpdateLoad, EscalationLoad, HandlerIsPlaced, At
  <2>7. OthersKeepLocks(r) /\ RowsKeepTypes
    BY <1>0, <1>2, SameRows DEF UpdateLoad, EscalationLoad, OthersKeepLocks, TypeOK, locks
  <2> QED
    BY <2>5, <2>6, <2>7, PlacedStep
<1>3. ASSUME NEW t \in Tickets, UpdateTicket(r, t) PROVE Placed'
  <2>1. [req[r] EXCEPT !.todo = @ \ {t}, !.wrote = @ \cup {t}] \in Handler
    BY <1>0 DEF Handler
  <2>2. PICK h \in Handler : h = [req[r] EXCEPT !.todo = @ \ {t}, !.wrote = @ \cup {t}]
    BY <2>1
  <2>3. h.pc = "listed" /\ h.call = req[r].call /\ h.wrote = req[r].wrote \cup {t}
    BY <1>0, <1>3, <2>2 DEF UpdateTicket, Handler
  <2>4. req' = [req EXCEPT ![r] = h] /\ req'[r] = h
    BY <1>0, <1>3, <2>2 DEF UpdateTicket, TypeOK
  <2>5. \A s \in req[r].wrote \cup {t} : lock'[s] = r
    <3>1. /\ req[r].wrote \subseteq Tickets
          /\ \A s \in req[r].wrote : lock[s] = r
          /\ lock \in [Tickets -> Reqs \cup {Free}] /\ lock' = [lock EXCEPT ![t] = r]
      BY <1>0, <1>3 DEF UpdateTicket, HandlerIsPlaced, TypeOK, Handler
    <3> QED
      BY <3>1
  <2>6. HandlerIsPlaced(r)'
    BY <1>0, <1>3, <2>3, <2>4, <2>5 DEF UpdateTicket, HandlerIsPlaced, At
  <2>7. OthersKeepLocks(r) /\ RowsKeepTypes
    BY <1>0, <1>3, SameRows DEF UpdateTicket, OthersKeepLocks, TypeOK
  <2> QED
    BY <2>4, <2>6, <2>7, PlacedStep
<1> QED
  BY <1>1, <1>2, <1>3

LEMMA RemoverTypes ==
    ASSUME NEW by \in Removers, NEW row \in Ticket
    PROVE  /\ Remover(by, row) \in Removers
           /\ row.life = "active" => Remover(by, row) = "nobody"
           /\ row.life # "active" =>
                /\ by = "both" => Remover(by, row) = "both"
                /\ by # "ticket" => Remover(by, row) # "ticket"
                /\ row.withProject => Remover(by, row) # "ticket"
                /\ Remover(by, row) = "project" => by = "project" /\ row.withProject
BY DEF Remover, Removers, Ticket

(* The steps that write the row of one ticket, the handler's own: the row   *)
(* it leaves, who has removed the ticket then, and the types of the rest.   *)
LEMMA CreateWrites ==
    ASSUME Placed, NEW r \in Reqs, CreateInsert(r)
    PROVE  /\ req[r].t \in Tickets
           /\ ticket' = [ticket EXCEPT ![req[r].t] = [@ EXCEPT !.life = "active"]]
           /\ removedBy' = [removedBy EXCEPT ![req[r].t] = @]
           /\ RowsKeepTypes
<1>1. TypeOK /\ req[r].t \in Tickets
  BY DEF CreateInsert, Placed, HandlerIsPlaced, At
<1>2. [ticket[req[r].t] EXCEPT !.life = "active"] \in Ticket
  BY <1>1 DEF TypeOK, Ticket, Lives
<1>3. late' \subseteq Tickets
  BY <1>1, AppearTypes DEF CreateInsert
<1> QED
  BY <1>1, <1>2, <1>3 DEF CreateInsert, RowsKeepTypes, TypeOK

LEMMA DeleteWrites ==
    ASSUME Placed, NEW r \in Reqs, DeleteCommit(r)
    PROVE  /\ req[r].t \in Tickets /\ lock[req[r].t] = r
           /\ ticket' = [ticket EXCEPT ![req[r].t] = [@ EXCEPT !.life = "deleted"]]
           /\ RowsKeepTypes
<1>1. TypeOK /\ req[r].t \in Tickets /\ lock[req[r].t] = r
  BY DEF DeleteCommit, Placed, HandlerIsPlaced, At
<1>2. [ticket[req[r].t] EXCEPT !.life = "deleted"] \in Ticket
  BY <1>1 DEF TypeOK, Ticket, Lives
<1>3. removedBy' \in [Tickets -> Removers]
  BY <1>1 DEF DeleteCommit, TypeOK, Removers
<1> QED
  BY <1>1, <1>2, <1>3 DEF DeleteCommit, RowsKeepTypes, TypeOK

LEMMA RestoreWrites ==
    ASSUME Placed, NEW r \in Reqs, RestoreWrite(r)
    PROVE  /\ req[r].t \in Tickets
           /\ ticket' = [ticket EXCEPT ![req[r].t] = [@ EXCEPT !.life = "active"]]
           /\ RowsKeepTypes
<1>1. TypeOK /\ req[r].t \in Tickets
  BY DEF RestoreWrite, Placed, HandlerIsPlaced, At
<1>2. [ticket[req[r].t] EXCEPT !.life = "active"] \in Ticket
  BY <1>1 DEF TypeOK, Ticket, Lives
<1>3. late' \subseteq Tickets
  BY <1>1, AppearTypes DEF RestoreWrite
<1>4. removedBy' \in [Tickets -> Removers]
  BY <1>1 DEF RestoreWrite, TypeOK, Removers
<1> QED
  BY <1>1, <1>2, <1>3, <1>4 DEF RestoreWrite, RowsKeepTypes, TypeOK

LEMMA ClearWrites ==
    ASSUME Placed, NEW r \in Reqs, RestoreClear(r)
    PROVE  LET row == [ticket[req[r].t] EXCEPT !.withProject = FALSE]
           IN  /\ req[r].t \in Tickets
               /\ row \in Ticket
               /\ ticket' = [ticket EXCEPT ![req[r].t] = row]
               /\ removedBy' = [removedBy EXCEPT ![req[r].t] = Remover(@, row)]
               /\ RowsKeepTypes
<1> DEFINE row == [ticket[req[r].t] EXCEPT !.withProject = FALSE]
<1>1. TypeOK /\ req[r].t \in Tickets /\ ticket[req[r].t] \in Ticket
  BY DEF RestoreClear, Placed, HandlerIsPlaced, At, TypeOK
<1>2. row \in Ticket
  BY <1>1 DEF Ticket
<1>3. ticket' = [ticket EXCEPT ![req[r].t] = row]
  BY DEF RestoreClear
<1> HIDE DEF row
<1>4. ticket'[req[r].t] = row /\ ticket' \in [Tickets -> Ticket]
  BY <1>1, <1>2, <1>3 DEF TypeOK
<1>5. removedBy' = [removedBy EXCEPT ![req[r].t] = Remover(@, row)]
  BY <1>4 DEF RestoreClear
<1>6. Remover(removedBy[req[r].t], row) \in Removers
  BY <1>1, <1>2, RemoverTypes DEF TypeOK
<1>7. removedBy' \in [Tickets -> Removers]
  BY <1>1, <1>5, <1>6 DEF TypeOK
<1>8. RowsKeepTypes
  BY <1>1, <1>4, <1>7 DEF RestoreClear, RowsKeepTypes, TypeOK
<1> QED
  BY <1>1, <1>2, <1>3, <1>5, <1>8 DEF row

LEMMA EscalationWrites ==
    ASSUME Placed, NEW r \in Reqs, EscalationSave(r)
    PROVE  LET row == Overwritten(ticket[req[r].t], req[r])
           IN  /\ req[r].t \in Tickets
               /\ row \in Ticket
               /\ row.life \in {ticket[req[r].t].life, "active"}
               /\ ticket' = [ticket EXCEPT ![req[r].t] = row]
               /\ removedBy' = [removedBy EXCEPT ![req[r].t] = Remover(@, row)]
               /\ (row.life = ticket[req[r].t].life /\ late' = late) \/ Appear(req[r].t)
               /\ strays \subseteq strays'
               /\ row.withProject => ticket[req[r].t].withProject \/ req[r].t \in strays'
               /\ RowsKeepTypes
<1> DEFINE row == Overwritten(ticket[req[r].t], req[r])
<1>1. /\ TypeOK /\ req[r].t \in Tickets /\ ticket[req[r].t] \in Ticket
      /\ req[r].mark \in BOOLEAN /\ req[r].base \in Ticket
  BY DEF EscalationSave, Placed, HandlerIsPlaced, At, TypeOK, Handler
<1>2. row \in Ticket /\ row.life \in {ticket[req[r].t].life, "active"}
  BY <1>1 DEF Ticket, Overwritten, Lives
<1>3. /\ ticket' = [ticket EXCEPT ![req[r].t] = row]
      /\ removedBy' = [removedBy EXCEPT ![req[r].t] = Remover(@, row)]
      /\ (row.life = ticket[req[r].t].life /\ late' = late) \/ Appear(req[r].t)
      /\ strays' = IF ~ticket[req[r].t].withProject /\ row.withProject THEN strays \cup {req[r].t}
                                                                       ELSE strays
      /\ project' = project
  BY DEF EscalationSave
<1> HIDE DEF row
<1>4. late' \subseteq Tickets /\ strays' \subseteq Tickets
  BY <1>1, <1>3, AppearTypes DEF TypeOK
<1>5. Remover(removedBy[req[r].t], row) \in Removers
  BY <1>1, <1>2, RemoverTypes DEF TypeOK
<1>6. ticket' \in [Tickets -> Ticket] /\ removedBy' \in [Tickets -> Removers]
  BY <1>1, <1>2, <1>3, <1>5 DEF TypeOK
<1>7. RowsKeepTypes
  BY <1>1, <1>3, <1>4, <1>6 DEF RowsKeepTypes, TypeOK
<1> QED
  BY <1>1, <1>2, <1>3, <1>7 DEF row

LEMMA CommitTypes ==
    ASSUME Placed, NEW r \in Reqs, CommitProject(r)
    PROVE  RowsKeepTypes
<1>1. TypeOK /\ req[r].call \in Endpoints
  BY DEF Placed, TypeOK, Handler
<1>2. Carried(req[r].call) \in Ticket /\ Carried(req[r].call).life \in Lives
  BY DEF Carried, Ticket, Lives, Unmarked
<1>3. ticket' \in [Tickets -> Ticket] /\ project' \in Lives
  BY <1>1, <1>2 DEF CommitProject, TypeOK
<1>4. removedBy' \in [Tickets -> Removers]
  BY <1>1 DEF CommitProject, TypeOK, Removers
<1> QED
  BY <1>1, <1>3, <1>4 DEF CommitProject, RowsKeepTypes, TypeOK

LEMMA PlacedWrite ==
    ASSUME Placed, NEW r \in Reqs,
           \/ CommitProject(r) \/ UpdateSave(r) \/ CreateInsert(r) \/ DeleteCommit(r)
           \/ RestoreWrite(r) \/ RestoreClear(r) \/ EscalationSave(r)
    PROVE  Placed'
<1>0. TypeOK
  BY DEF Placed
<1>1. CASE CommitProject(r)
  BY <1>1, CommitTypes, PlacedEnd DEF CommitProject
<1>2. CASE UpdateSave(r)
  <2>1. RowsKeepTypes
    BY <1>0, <1>2 DEF UpdateSave, RowsKeepTypes, TypeOK, Lives
  <2> QED
    BY <1>2, <2>1, PlacedEnd DEF UpdateSave
<1>3. CASE CreateInsert(r)
  BY <1>3, CreateWrites, PlacedEnd DEF CreateInsert
<1>4. CASE DeleteCommit(r)
  BY <1>4, DeleteWrites, PlacedEnd DEF DeleteCommit
<1>5. CASE RestoreWrite(r)
  <2>1. OthersKeepLocks(r)
    BY <1>0, <1>5 DEF RestoreWrite, OthersKeepLocks, TypeOK, locks
  <2> QED
    BY <1>5, <2>1, RestoreWrites, PlacedMove DEF RestoreWrite, At
<1>6. CASE RestoreClear(r)
  BY <1>6, ClearWrites, PlacedEnd DEF RestoreClear
<1>7. CASE EscalationSave(r)
  BY <1>7, EscalationWrites, PlacedEnd DEF EscalationSave
<1> QED
  BY <1>1, <1>2, <1>3, <1>4, <1>5, <1>6, <1>7

LEMMA PlacedNext == Placed /\ [Next]_vars => Placed'
<1> SUFFICES ASSUME Placed, [Next]_vars PROVE Placed'
  OBVIOUS
<1>1. ASSUME NEW r \in Reqs, Begin(r) \/ Progress(r) \/ Fail(r) PROVE Placed'
  BY <1>1, PlacedBegin, PlacedMiddle, PlacedRecord, PlacedWrite DEF Progress
<1>2. CASE UNCHANGED vars
  BY <1>2 DEF vars, Placed, TypeOK, HandlerIsPlaced, At
<1> QED
  BY <1>1, <1>2 DEF Next

----------------------------------------------------------------------------
(* A step that changes no committed row, and no list of another handler.    *)
LEMMA QuietStep ==
    ASSUME Inv, Placed', NEW r \in Reqs, UNCHANGED <<rows, history>>,
           \A q \in Reqs \ {r} : req'[q] = req[q],
           Carries(r, "deleteProject")' => Carries(r, "deleteProject") /\ Listed(r)' = Listed(r),
           Carries(r, "restoreProject")' => Carries(r, "restoreProject") /\ Listed(r)' = Listed(r)
    PROVE  Inv'
<1>1. \A t \in Tickets : TicketIsRight(t)'
  BY DEF Inv, TicketIsRight, rows, history
<1>2. ASSUME NEW q \in Reqs, NEW t \in Tickets PROVE CarriedIsRight(q, t)'
  <2>1. CarriedIsRight(q, t) /\ (q # r => req'[q] = req[q])
    BY DEF Inv
  <2> QED
    BY <2>1 DEF CarriedIsRight, Carries, Listed, rows, history
<1> QED
  BY <1>1, <1>2 DEF Inv

LEMMA Others ==
    ASSUME Placed, NEW r \in Reqs, NEW h, req' = [req EXCEPT ![r] = h]
    PROVE  (\A q \in Reqs \ {r} : req'[q] = req[q]) /\ req'[r] = h
BY DEF Placed, TypeOK

LEMMA FinishedOthers ==
    ASSUME Placed, NEW r \in Reqs, Finish(r)
    PROVE  /\ \A q \in Reqs \ {r} : req'[q] = req[q]
           /\ req'[r].pc = "idle"
BY Others, IdleTypes DEF Finish

LEMMA StartStep ==
    ASSUME Inv, Placed', NEW r \in Reqs, Begin(r)
    PROVE  Inv'
<1>1. ASSUME NEW pc \in {"found", "allowed"}, NEW call, NEW t, NEW mark,
             Start(r, pc, call, t, mark), UNCHANGED <<rows, locks, history>>
      PROVE  Inv'
  <2>1. /\ \A q \in Reqs \ {r} : req'[q] = req[q]
        /\ req'[r].pc = pc
    <3>1. PICK h : /\ h = [Idle EXCEPT !.pc = pc, !.call = call, !.t = t, !.mark = mark]
                   /\ req' = [req EXCEPT ![r] = h]
      BY <1>1 DEF Start
    <3>2. h.pc = pc
      BY <3>1 DEF Idle
    <3> QED
      BY <3>1, <3>2, Others DEF Inv
  <2> QED
    BY <1>1, <2>1, QuietStep DEF Carries
<1>2. CASE FindProject(r)
  BY <1>1, <1>2 DEF FindProject
<1>3. CASE UpdateFind(r)
  BY <1>1, <1>3 DEF UpdateFind
<1>4. ASSUME NEW t \in Tickets, CreateCheck(r, t) PROVE Inv'
  BY <1>1, <1>4 DEF CreateCheck
<1>5. ASSUME NEW t \in Tickets, DeleteFind(r, t) PROVE Inv'
  BY <1>1, <1>5 DEF DeleteFind
<1>6. ASSUME NEW t \in Tickets, RestoreFind(r, t) PROVE Inv'
  BY <1>1, <1>6 DEF RestoreFind
<1>7. ASSUME NEW t \in Tickets, EscalationFind(r, t) PROVE Inv'
  BY <1>1, <1>7 DEF EscalationFind
<1> QED
  BY <1>2, <1>3, <1>4, <1>5, <1>6, <1>7 DEF Begin

LEMMA MiddleStep ==
    ASSUME Inv, Placed', NEW r \in Reqs,
           \/ MarkProject(r) \/ DeleteMark(r) \/ RestoreFindProject(r) \/ RestoreRefuse(r)
           \/ Fail(r) \/ UpdateLoad(r) \/ EscalationLoad(r)
    PROVE  Inv'
<1>1. CASE RestoreRefuse(r) \/ Fail(r)
  <2>1. /\ \A q \in Reqs \ {r} : req'[q] = req[q]
        /\ req'[r].pc = "idle"
    BY <1>1, FinishedOthers DEF RestoreRefuse, Fail, Inv
  <2> QED
    BY <1>1, <2>1, QuietStep DEF RestoreRefuse, Fail, Carries
<1>2. CASE MarkProject(r) \/ DeleteMark(r) \/ RestoreFindProject(r) \/ UpdateLoad(r) \/ EscalationLoad(r)
  <2>1. req[r] \in Handler /\ req \in [Reqs -> Handler]
    BY DEF Inv, Placed, TypeOK
  <2>2. /\ \A q \in Reqs \ {r} : req'[q] = req[q]
        /\ req'[r].pc # "listed"
    <3>1. CASE MarkProject(r) \/ DeleteMark(r) \/ RestoreFindProject(r)
      BY <2>1, <3>1 DEF MarkProject, DeleteMark, RestoreFindProject, Handler
    <3>2. CASE UpdateLoad(r) \/ EscalationLoad(r)
      <4>1. PICK row : req' = [req EXCEPT ![r] = [req[r] EXCEPT !.pc = "loaded", !.base = row]]
        BY <2>1, <3>2 DEF UpdateLoad, EscalationLoad
      <4>2. PICK h : h = [req[r] EXCEPT !.pc = "loaded", !.base = row]
        OBVIOUS
      <4>3. h.pc = "loaded"
        BY <2>1, <4>2 DEF Handler
      <4>4. req' = [req EXCEPT ![r] = h]
        BY <4>1, <4>2
      <4> QED
        BY <2>1, <4>3, <4>4
    <3> QED
      BY <1>2, <3>1, <3>2
  <2>3. UNCHANGED <<rows, history>>
    BY <1>2 DEF MarkProject, DeleteMark, RestoreFindProject, UpdateLoad, EscalationLoad
  <2> QED
    BY <2>2, <2>3, QuietStep DEF Carries
<1> QED
  BY <1>1, <1>2

(* The transaction that has locked the project is the only one that carries.*)
LEMMA OneCarries ==
    ASSUME Placed, NEW q \in Reqs, NEW call, Carries(q, call)
    PROVE  projectLock = q /\ projectLock # Free
BY DEF Placed, HandlerIsPlaced, Carries

LEMMA ListStep ==
    ASSUME Inv, Placed', NEW r \in Reqs, ListTickets(r)
    PROVE  Inv'
<1>1. /\ projectLock = r /\ req[r].wrote = {} /\ req[r] \in Handler
      /\ req[r].call \in {"deleteProject", "restoreProject"}
  BY DEF ListTickets, Inv, Placed, HandlerIsPlaced, TypeOK
<1>2. /\ \A q \in Reqs \ {r} : req'[q] = req[q]
      /\ req'[r].call = req[r].call
      /\ Listed(r)' = Affected(req[r].call)
  <2> DEFINE h == [req[r] EXCEPT !.pc = "listed", !.todo = Affected(req[r].call)]
  <2>1. h.call = req[r].call /\ h.todo = Affected(req[r].call) /\ h.wrote = {}
    BY <1>1 DEF Handler
  <2>2. req' = [req EXCEPT ![r] = h]
    BY DEF ListTickets
  <2> HIDE DEF h
  <2>3. (\A q \in Reqs \ {r} : req'[q] = req[q]) /\ req'[r] = h
    BY <2>2, Others DEF Inv
  <2> QED
    BY <2>1, <2>3 DEF Listed
<1>3. UNCHANGED <<rows, removedBy, strays>> /\ (project = "deleted" => late' = late)
  BY DEF ListTickets
<1>4. ASSUME NEW t \in Tickets PROVE TicketIsRight(t)'
  <2>1. TicketIsRight(t)
    BY DEF Inv
  <2> QED
    BY <1>3, <2>1 DEF TicketIsRight, rows
<1>5. ASSUME NEW q \in Reqs, NEW t \in Tickets PROVE CarriedIsRight(q, t)'
  <2>1. CASE q # r
    <3>1. ~Carries(q, "deleteProject") /\ ~Carries(q, "restoreProject")
      BY <1>1, <2>1, OneCarries DEF Inv
    <3> QED
      BY <1>2, <2>1, <3>1 DEF CarriedIsRight, Carries
  <2>2. CASE q = r
    <3>1. TicketIsRight(t)
      BY DEF Inv
    <3>2. CASE req[r].call = "deleteProject"
      <4>1. t \in Listed(r)' <=> ticket[t].life = "active"
        BY <1>2, <3>2 DEF Affected
      <4> QED
        BY <1>2, <1>3, <2>2, <3>2, <4>1 DEF CarriedIsRight, Carries, rows
    <3>3. CASE req[r].call = "restoreProject"
      <4>1. t \in Listed(r)' <=> ticket[t].withProject
        BY <1>2, <3>3 DEF Affected
      <4> QED
        BY <1>2, <1>3, <2>2, <3>1, <3>3, <4>1 DEF CarriedIsRight, Carries, TicketIsRight, rows
    <3> QED
      BY <1>1, <3>2, <3>3
  <2> QED
    BY <2>1, <2>2
<1> QED
  BY <1>4, <1>5 DEF Inv

LEMMA UpdateStep ==
    ASSUME Inv, Placed', NEW r \in Reqs, NEW t \in Tickets, UpdateTicket(r, t)
    PROVE  Inv'
<1> DEFINE h == [req[r] EXCEPT !.todo = @ \ {t}, !.wrote = @ \cup {t}]
<1>1. req[r] \in Handler /\ req[r].pc = "listed" /\ t \in req[r].todo
  BY DEF UpdateTicket, Inv, Placed, TypeOK
<1>2. /\ h.pc = "listed" /\ h.call = req[r].call
      /\ h.todo \cup h.wrote = req[r].todo \cup req[r].wrote
  BY <1>1 DEF Handler
<1>3. req' = [req EXCEPT ![r] = h]
  BY DEF UpdateTicket, Inv, Placed, TypeOK
<1> HIDE DEF h
<1>4. (\A q \in Reqs \ {r} : req'[q] = req[q]) /\ req'[r] = h
  BY <1>3, Others DEF Inv
<1>5. UNCHANGED <<rows, history>>
  BY DEF UpdateTicket
<1> QED
  BY <1>1, <1>2, <1>4, <1>5, QuietStep DEF Carries, Listed

(* The stale save of PATCH waits for the project's row: nobody carries.     *)
LEMMA SaveStep ==
    ASSUME Inv, Placed', NEW r \in Reqs, UpdateSave(r)
    PROVE  Inv'
<1>1. /\ projectLock = Free
      /\ \/ project' = project /\ strays' = strays
         \/ project' = "active" /\ \A t \in Tickets : ticket[t].withProject => t \in strays'
      /\ UNCHANGED <<ticket, removedBy, late>>
  BY DEF UpdateSave
<1>2. /\ \A q \in Reqs \ {r} : req'[q] = req[q]
      /\ req'[r].pc = "idle"
  BY FinishedOthers DEF UpdateSave, Inv
<1>3. ASSUME NEW t \in Tickets PROVE TicketIsRight(t)'
  <2>1. TicketIsRight(t)
    BY DEF Inv
  <2> QED
    BY <1>1, <2>1 DEF TicketIsRight
<1>4. ASSUME NEW q \in Reqs, NEW t \in Tickets PROVE CarriedIsRight(q, t)'
  <2>1. ~Carries(q, "deleteProject") /\ ~Carries(q, "restoreProject")
    BY <1>1, OneCarries DEF Inv
  <2> QED
    BY <1>2, <2>1 DEF CarriedIsRight, Carries
<1> QED
  BY <1>3, <1>4 DEF Inv

(* A cascade commits with every listed ticket written; nobody else carries. *)
LEMMA CommitStep ==
    ASSUME Inv, Placed', NEW r \in Reqs, CommitProject(r)
    PROVE  Inv'
<1>1. /\ req[r].pc = "listed" /\ Listed(r) = req[r].wrote /\ projectLock = r
      /\ req[r].call \in {"deleteProject", "restoreProject"}
  BY DEF CommitProject, AllCarried, Listed, Inv, Placed, HandlerIsPlaced
<1>2. /\ \A q \in Reqs \ {r} : req'[q] = req[q]
      /\ req'[r].pc = "idle"
  BY FinishedOthers DEF CommitProject, Inv
<1>3. ASSUME NEW q \in Reqs, NEW t \in Tickets PROVE CarriedIsRight(q, t)'
  <2>1. q # r => ~Carries(q, "deleteProject") /\ ~Carries(q, "restoreProject")
    BY <1>1, OneCarries DEF Inv
  <2> QED
    BY <1>2, <2>1 DEF CarriedIsRight, Carries
<1>4. ASSUME NEW t \in Tickets PROVE TicketIsRight(t)'
  <2>1. TicketIsRight(t) /\ CarriedIsRight(r, t)
    BY DEF Inv
  <2>2. CASE req[r].call = "deleteProject"
    <3>1. /\ project' = "deleted" /\ late' = late
          /\ t \in req[r].wrote =>
               /\ ticket'[t].life = "deleted" /\ ticket'[t].withProject
               /\ removedBy'[t] = IF ticket[t].life = "active" THEN "project" ELSE removedBy[t]
          /\ t \notin req[r].wrote => ticket'[t] = ticket[t] /\ removedBy'[t] = removedBy[t]
      BY <2>2 DEF CommitProject, Carried
    <3>2. /\ ticket[t].life = "active" => t \in req[r].wrote \cup late
          /\ t \in req[r].wrote => ticket[t].life = "active" \/ removedBy[t] = "both"
      BY <1>1, <2>1, <2>2 DEF CarriedIsRight, Carries
    <3> QED
      BY <2>1, <3>1, <3>2 DEF TicketIsRight
  <2>3. CASE req[r].call = "restoreProject"
    <3>1. /\ project' = "active" /\ strays' = strays \ req[r].wrote
          /\ t \in req[r].wrote => /\ ticket'[t].life = "active" /\ ~ticket'[t].withProject
                                   /\ removedBy'[t] = "nobody"
          /\ t \notin req[r].wrote => ticket'[t] = ticket[t] /\ removedBy'[t] = removedBy[t]
      BY <2>3 DEF CommitProject, Carried, Unmarked
    <3>2. ticket[t].withProject => t \in req[r].wrote \cup strays
      BY <1>1, <2>1, <2>3 DEF CarriedIsRight, Carries
    <3> QED
      BY <2>1, <3>1, <3>2 DEF TicketIsRight
  <2> QED
    BY <1>1, <2>2, <2>3
<1> QED
  BY <1>3, <1>4 DEF Inv

(* A call writes the row of its own ticket x: what is to be shown of x.     *)
LEMMA OneTicketStep ==
    ASSUME Inv, Placed', NEW r \in Reqs, NEW x \in Tickets,
           \A q \in Reqs \ {r} : req'[q] = req[q],
           req'[r].pc # "listed",
           project' = project,
           \A t \in Tickets \ {x} : /\ ticket'[t] = ticket[t] /\ removedBy'[t] = removedBy[t]
                                    /\ t \in late => t \in late'
                                    /\ t \in strays => t \in strays',
           TicketIsRight(x)',
           \A q \in Reqs \ {r} : CarriedIsRight(q, x)'
    PROVE  Inv'
<1>1. ASSUME NEW t \in Tickets PROVE TicketIsRight(t)'
  <2>1. CASE t # x
    <3>1. TicketIsRight(t)
      BY DEF Inv
    <3> QED
      BY <2>1, <3>1 DEF TicketIsRight
  <2> QED
    BY <2>1
<1>2. ASSUME NEW q \in Reqs, NEW t \in Tickets PROVE CarriedIsRight(q, t)'
  <2>1. CASE q = r
    BY <2>1 DEF CarriedIsRight, Carries
  <2>2. CASE q # r /\ t # x
    <3>1. CarriedIsRight(q, t) /\ req'[q] = req[q]
      BY <2>2 DEF Inv
    <3> QED
      BY <2>2, <3>1 DEF CarriedIsRight, Carries, Listed
  <2>3. CASE q # r /\ t = x
    BY <2>3
  <2> QED
    BY <2>1, <2>2, <2>3
<1> QED
  BY <1>1, <1>2 DEF Inv

(* A ticket that appears is late for whoever carries a deletion, and for    *)
(* the deletion that is over.                                               *)
LEMMA AppearIsLate ==
    ASSUME Placed, NEW x \in Tickets, Appear(x)
    PROVE  /\ late \subseteq late'
           /\ project = "deleted" => x \in late'
           /\ \A q \in Reqs : Carries(q, "deleteProject") => x \in late'
<1>1. ASSUME NEW q \in Reqs, Carries(q, "deleteProject") PROVE projectLock # Free
  BY <1>1, OneCarries
<1> QED
  BY <1>1 DEF Appear

(* It is active and keeps its mark.                                         *)
LEMMA ActivatedStep ==
    ASSUME Inv, Placed', NEW r \in Reqs, NEW x \in Tickets,
           \A q \in Reqs \ {r} : req'[q] = req[q],
           req'[r].pc # "listed",
           project' = project, strays' = strays, Appear(x),
           NEW row \in Ticket, row.life = "active",
           row.withProject = ticket[x].withProject,
           ticket' = [ticket EXCEPT ![x] = row],
           NEW by \in {removedBy[x], "nobody"},
           removedBy' = [removedBy EXCEPT ![x] = by]
    PROVE  Inv'
<1>1. TypeOK /\ Placed /\ removedBy[x] \in Removers /\ by \in Removers
  BY DEF Inv, Placed, TypeOK, Removers
<1>2. \A s \in Tickets : /\ ticket'[s] = IF s = x THEN row ELSE ticket[s]
                         /\ removedBy'[s] = IF s = x THEN by ELSE removedBy[s]
  BY <1>1 DEF TypeOK
<1>3. /\ late \subseteq late'
      /\ project = "deleted" => x \in late'
      /\ \A q \in Reqs : Carries(q, "deleteProject") => x \in late'
  BY <1>1, AppearIsLate
<1>4. TicketIsRight(x)'
  <2>1. TicketIsRight(x)
    BY DEF Inv
  <2> QED
    BY <1>2, <1>3, <2>1 DEF TicketIsRight
<1>5. ASSUME NEW q \in Reqs \ {r} PROVE CarriedIsRight(q, x)'
  <2>1. CarriedIsRight(q, x) /\ req'[q] = req[q]
    BY DEF Inv
  <2> QED
    BY <1>2, <1>3, <2>1 DEF CarriedIsRight, Carries, Listed
<1> QED
  BY <1>2, <1>3, <1>4, <1>5, OneTicketStep

LEMMA CreateStep ==
    ASSUME Inv, Placed', NEW r \in Reqs, CreateInsert(r)
    PROVE  Inv'
<1> DEFINE x == req[r].t
<1> DEFINE row == [ticket[x] EXCEPT !.life = "active"]
<1>1. /\ x \in Tickets
      /\ ticket' = [ticket EXCEPT ![x] = row]
      /\ removedBy' = [removedBy EXCEPT ![x] = removedBy[x]]
  BY CreateWrites DEF Inv
<1>2. ticket[x] \in Ticket
  BY <1>1 DEF Inv, Placed, TypeOK
<1>3. row \in Ticket /\ row.life = "active" /\ row.withProject = ticket[x].withProject
  BY <1>2 DEF Ticket, Lives
<1>4. Appear(x) /\ project' = project /\ strays' = strays
  BY DEF CreateInsert
<1>5. /\ \A q \in Reqs \ {r} : req'[q] = req[q]
      /\ req'[r].pc = "idle"
  BY FinishedOthers DEF CreateInsert, Inv
<1> HIDE DEF x, row
<1> QED
  BY <1>1, <1>3, <1>4, <1>5, ActivatedStep

LEMMA RestoreStep ==
    ASSUME Inv, Placed', NEW r \in Reqs, RestoreWrite(r)
    PROVE  Inv'
<1> DEFINE x == req[r].t
<1> DEFINE row == [ticket[x] EXCEPT !.life = "active"]
<1>1. /\ x \in Tickets
      /\ ticket' = [ticket EXCEPT ![x] = row]
  BY RestoreWrites DEF Inv
<1>2. ticket[x] \in Ticket /\ req[r] \in Handler /\ req \in [Reqs -> Handler]
  BY <1>1 DEF Inv, Placed, TypeOK
<1>3. row \in Ticket /\ row.life = "active" /\ row.withProject = ticket[x].withProject
  BY <1>2 DEF Ticket, Lives
<1>4. /\ Appear(x) /\ project' = project /\ strays' = strays
      /\ removedBy' = [removedBy EXCEPT ![x] = "nobody"]
  BY DEF RestoreWrite
<1>5. /\ \A q \in Reqs \ {r} : req'[q] = req[q]
      /\ req'[r].pc = "wrote"
  BY <1>2 DEF RestoreWrite, Handler
<1> HIDE DEF x, row
<1> QED
  BY <1>1, <1>3, <1>4, <1>5, ActivatedStep

(* Only the deleter holds the row: no cascade has written it, and one that  *)
(* has listed it has it still to do.                                        *)
LEMMA DeleteStep ==
    ASSUME Inv, Placed', NEW r \in Reqs, DeleteCommit(r)
    PROVE  Inv'
<1>0. PICK x \in Tickets : x = req[r].t
  BY DeleteWrites DEF Inv
<1>1. /\ x \in Tickets /\ lock[x] = r
      /\ ticket' = [ticket EXCEPT ![x] = [@ EXCEPT !.life = "deleted"]]
  BY <1>0, DeleteWrites DEF Inv
<1>2. ticket[x] \in Ticket /\ TypeOK
  BY <1>1 DEF Inv, Placed, TypeOK
<1>3. /\ project' = project /\ late' = late /\ strays' = strays
      /\ removedBy' = [removedBy EXCEPT ![x] =
                         IF ticket[x].life # "active" THEN @
                         ELSE IF CascadeHas(x) THEN "both" ELSE "ticket"]
  BY <1>0 DEF DeleteCommit
<1>4. /\ \A q \in Reqs \ {r} : req'[q] = req[q]
      /\ req'[r].pc = "idle"
  BY FinishedOthers DEF DeleteCommit, Inv
<1>5. /\ \A t \in Tickets \ {x} : ticket'[t] = ticket[t] /\ removedBy'[t] = removedBy[t]
      /\ ticket'[x].life = "deleted" /\ ticket'[x].withProject = ticket[x].withProject
      /\ removedBy'[x] = IF ticket[x].life # "active" THEN removedBy[x]
                         ELSE IF CascadeHas(x) THEN "both" ELSE "ticket"
  BY <1>1, <1>2, <1>3 DEF TypeOK, Ticket
<1>6. TicketIsRight(x)'
  <2>1. TicketIsRight(x) /\ (ticket[x].withProject => CascadeHas(x))
    BY <1>1 DEF Inv, CascadeHas
  <2> QED
    BY <1>3, <1>5, <2>1 DEF TicketIsRight
<1>7. ASSUME NEW q \in Reqs \ {r} PROVE CarriedIsRight(q, x)'
  <2>1. CarriedIsRight(q, x) /\ req'[q] = req[q] /\ HandlerIsPlaced(q)
    BY <1>1, <1>4 DEF Inv, Placed
  <2>2. x \in Listed(q) => CascadeHas(x)
    BY <1>1, <2>1 DEF HandlerIsPlaced, Listed, CascadeHas
  <2> QED
    BY <1>3, <1>5, <2>1, <2>2 DEF CarriedIsRight, Carries, Listed
<1> QED
  BY <1>1, <1>3, <1>4, <1>5, <1>6, <1>7, OneTicketStep

LEMMA ClearStep ==
    ASSUME Inv, Placed', NEW r \in Reqs, RestoreClear(r)
    PROVE  Inv'
<1>0. PICK x \in Tickets : x = req[r].t
  BY ClearWrites DEF Inv
<1> DEFINE row == [ticket[x] EXCEPT !.withProject = FALSE]
<1> DEFINE by == Remover(removedBy[x], row)
<1>1. /\ x \in Tickets /\ row \in Ticket
      /\ ticket' = [ticket EXCEPT ![x] = row]
      /\ removedBy' = [removedBy EXCEPT ![x] = by]
  BY <1>0, ClearWrites DEF Inv
<1>2. TypeOK /\ ticket[x] \in Ticket /\ removedBy[x] \in Removers
  BY <1>1 DEF Inv, Placed, TypeOK
<1>3. row.life = ticket[x].life /\ ~row.withProject
  BY <1>2 DEF Ticket
<1>4. project' = project /\ late' = late /\ strays' = strays \ {x}
  BY <1>0 DEF RestoreClear
<1>5. /\ \A q \in Reqs \ {r} : req'[q] = req[q]
      /\ req'[r].pc = "idle"
  BY FinishedOthers DEF RestoreClear, Inv
<1> HIDE DEF row
<1>6. /\ row.life = "active" => by = "nobody"
      /\ row.life # "active" => /\ removedBy[x] = "both" => by = "both"
                                /\ removedBy[x] # "ticket" => by # "ticket"
                                /\ by # "project"
  BY <1>1, <1>2, <1>3, RemoverTypes
<1> HIDE DEF by
<1>7. \A s \in Tickets : /\ ticket'[s] = IF s = x THEN row ELSE ticket[s]
                         /\ removedBy'[s] = IF s = x THEN by ELSE removedBy[s]
  BY <1>1, <1>2 DEF TypeOK
<1>8. TicketIsRight(x)'
  <2>1. TicketIsRight(x)
    BY <1>1 DEF Inv
  <2> QED
    BY <1>1, <1>3, <1>4, <1>6, <1>7, <2>1 DEF TicketIsRight
<1>9. ASSUME NEW q \in Reqs \ {r} PROVE CarriedIsRight(q, x)'
  <2>1. CarriedIsRight(q, x) /\ req'[q] = req[q]
    BY <1>1, <1>5 DEF Inv
  <2> QED
    BY <1>1, <1>3, <1>4, <1>6, <1>7, <2>1 DEF CarriedIsRight, Carries, Listed
<1> QED
  BY <1>1, <1>4, <1>5, <1>7, <1>8, <1>9, OneTicketStep

LEMMA EscalationStep ==
    ASSUME Inv, Placed', NEW r \in Reqs, EscalationSave(r)
    PROVE  Inv'
<1>0. PICK x \in Tickets : x = req[r].t
  BY EscalationWrites DEF Inv
<1> DEFINE row == Overwritten(ticket[x], req[r])
<1> DEFINE by == Remover(removedBy[x], row)
<1>1. /\ x \in Tickets /\ row \in Ticket
      /\ row.life \in {ticket[x].life, "active"}
      /\ ticket' = [ticket EXCEPT ![x] = row]
      /\ removedBy' = [removedBy EXCEPT ![x] = by]
      /\ (row.life = ticket[x].life /\ late' = late) \/ Appear(x)
      /\ strays \subseteq strays'
      /\ row.withProject => ticket[x].withProject \/ x \in strays'
  BY <1>0, EscalationWrites DEF Inv
<1>2. TypeOK /\ Placed /\ ticket[x] \in Ticket /\ removedBy[x] \in Removers
  BY <1>1 DEF Inv, Placed, TypeOK
<1>3. project' = project
  BY DEF EscalationSave
<1>4. /\ \A q \in Reqs \ {r} : req'[q] = req[q]
      /\ req'[r].pc = "idle"
  BY FinishedOthers DEF EscalationSave, Inv
<1> HIDE DEF row
<1>5. /\ row.life = "active" => by = "nobody"
      /\ row.life # "active" => /\ removedBy[x] = "both" => by = "both"
                                /\ removedBy[x] # "ticket" => by # "ticket"
                                /\ row.withProject => by # "ticket"
                                /\ by = "project" => row.withProject
  BY <1>1, <1>2, RemoverTypes
<1> HIDE DEF by
<1>6. \A s \in Tickets : /\ ticket'[s] = IF s = x THEN row ELSE ticket[s]
                         /\ removedBy'[s] = IF s = x THEN by ELSE removedBy[s]
  BY <1>1, <1>2 DEF TypeOK
<1>7. /\ late \subseteq late'
      /\ project = "deleted" => row.life = ticket[x].life \/ x \in late'
      /\ \A q \in Reqs : Carries(q, "deleteProject") => row.life = ticket[x].life \/ x \in late'
  BY <1>1, <1>2, AppearIsLate
<1>8. TicketIsRight(x)'
  <2>1. TicketIsRight(x)
    BY <1>1 DEF Inv
  <2>2. ticket'[x] = row /\ removedBy'[x] = by
    BY <1>1, <1>6
  <2> QED
    BY <1>1, <1>3, <1>5, <1>7, <2>1, <2>2 DEF TicketIsRight
<1>9. ASSUME NEW q \in Reqs \ {r} PROVE CarriedIsRight(q, x)'
  <2>1. CarriedIsRight(q, x) /\ req'[q] = req[q]
    BY <1>1, <1>4 DEF Inv
  <2>2. ticket'[x] = row /\ removedBy'[x] = by
    BY <1>1, <1>6
  <2> QED
    BY <1>1, <1>5, <1>7, <2>1, <2>2 DEF CarriedIsRight, Carries, Listed
<1> QED
  BY <1>1, <1>3, <1>4, <1>6, <1>7, <1>8, <1>9, OneTicketStep

LEMMA StepInv == Inv /\ [Next]_vars => Inv'
<1> SUFFICES ASSUME Inv, [Next]_vars PROVE Inv'
  OBVIOUS
<1>1. Placed'
  BY PlacedNext DEF Inv
<1>2. ASSUME NEW r \in Reqs, Begin(r) \/ Progress(r) \/ Fail(r) PROVE Inv'
  BY <1>1, <1>2, StartStep, MiddleStep, ListStep, UpdateStep, SaveStep, CommitStep, CreateStep,
     RestoreStep, DeleteStep, ClearStep, EscalationStep DEF Progress
<1>3. CASE UNCHANGED vars
  BY <1>1, <1>3 DEF vars, Inv, TicketIsRight, CarriedIsRight, Carries, Listed
<1> QED
  BY <1>2, <1>3 DEF Next

LEMMA Invariance == Spec => []Inv
BY InitInv, StepInv, PTL DEF Spec

----------------------------------------------------------------------------
(* Every row, lock and handler keeps its type, whatever calls overlap.      *)
THEOREM Typing == Spec => []TypeOK
<1>1. Inv => TypeOK
  BY DEF Inv, Placed
<1> QED
  BY <1>1, Invariance, PTL

(* BR-10 and BR-11, for any number of tickets and calls, with any overlap:  *)
(* only a ticket created or put back after the list of the deletion is      *)
(* active in a deleted project, a ticket that only the deletion took has    *)
(* its mark, and no mark is there without the deletion unless a stale save  *)
(* ended the deletion or wrote the mark.                                    *)
THEOREM Cascade == Spec => []CascadeIsConsistent
<1>1. Inv => CascadeIsConsistent
  BY DEF Inv, TicketIsRight, CascadeIsConsistent
<1> QED
  BY <1>1, Invariance, PTL

(* BR-11: the restore of a project brings back no ticket that only its own  *)
(* DELETE took.                                                             *)
THEOREM OwnDeletion == Spec => OwnDeletionStays
<1>1. Inv /\ [Next]_vars => [OnlyTakenTicketsRevive]_vars
  <2> SUFFICES ASSUME Inv, NEW r \in Reqs, NEW t \in Tickets,
                      req[r].call = "restoreProject", t \in req[r].wrote,
                      ticket[t].life = "deleted"
               PROVE  removedBy[t] # "ticket"
    BY DEF OnlyTakenTicketsRevive
  <2>1. HandlerIsPlaced(r) /\ CarriedIsRight(r, t)
    BY DEF Inv, Placed
  <2>2. Carries(r, "restoreProject") /\ t \in Listed(r)
    BY <2>1 DEF HandlerIsPlaced, Carries, Listed
  <2> QED
    BY <2>1, <2>2 DEF CarriedIsRight
<1> QED
  BY <1>1, Invariance, PTL DEF Spec, OwnDeletionStays
=============================================================================
