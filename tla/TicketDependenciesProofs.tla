---------------------- MODULE TicketDependenciesProofs ----------------------
(* TicketDependencies for any number of tickets and handlers, whatever      *)
(* overlaps.                                                                *)
EXTENDS TicketDependencies, TLAPS

USE DependencyAssumption

Busy(r, call) == req[r].pc # "idle" /\ req[r].call = call

OfProject == {"deleteProject", "restoreProject"}

(* Which tickets a handler is about, and the lock a PATCH holds.            *)
HandlerIsPlaced(r) ==
    /\ req[r].pc # "idle" /\ req[r].call \notin OfProject => req[r].t \in Tickets
    /\ Busy(r, "add") \/ Busy(r, "remove") => req[r].b \in Tickets
    /\ Busy(r, "patch") => lock[req[r].t] = r

(* What a handler found still stands, except where it remembers a change.   *)
HandlerIsRight(r) ==
    /\ At(r, "allowed", "patch") => OpenBlockers(req[r].t) \subseteq turned[r]
    /\ Busy(r, "delete") /\ req[r].pc # "begun" =>
         \A b \in BlockersOf(req[r].t) : b \in turned[r] \/ <<req[r].t, b>> \in added[r]
    /\ Busy(r, "delete") /\ req[r].pc \notin {"begun", "seen"} =>
         \A d \in DependentsOf(req[r].t) : d \in turned[r] \/ <<d, req[r].t>> \in added[r]
    /\ Busy(r, "add") => Active(req[r].t) \/ req[r].t \in turned[r]
    /\ Busy(r, "add") /\ req[r].pc # "begun" => Active(req[r].b) \/ req[r].b \in turned[r]

Placed == TypeOK /\ \A r \in Reqs : HandlerIsPlaced(r)

Inv ==
    /\ Placed
    /\ DeletedIsMentionedInKeptRows
    /\ \A r \in Reqs : HandlerIsRight(r)

DataOK ==
    /\ ticket \in [Tickets -> Ticket]
    /\ project \in Life
    /\ deps \subseteq Rows
    /\ turned \in [Reqs -> SUBSET Tickets]
    /\ added \in [Reqs -> SUBSET Rows]
    /\ kept \subseteq Rows

LEMMA InitInv == Init => Inv
<1> SUFFICES ASSUME Init PROVE Inv
  OBVIOUS
<1>1. \A r \in Reqs : req[r].pc = "idle"
  BY DEF Init, Idle
<1>2. TypeOK
  BY DEF Init, TypeOK, Idle, Handler, Places, Endpoints, Ticket, Life
<1> QED
  BY <1>1, <1>2 DEF Init, Inv, Placed, HandlerIsPlaced, HandlerIsRight, Busy, At,
     DeletedIsMentionedInKeptRows, Active

----------------------------------------------------------------------------
(* Types and places.                                                        *)

(* A step of handler r, pointwise.                                          *)
LEMMA OneHandlerMoves ==
    ASSUME TypeOK, NEW r \in Reqs, NEW h \in Handler, req' = [req EXCEPT ![r] = h]
    PROVE  /\ req' \in [Reqs -> Handler]
           /\ \A q \in Reqs : req'[q] = IF q = r THEN h ELSE req[q]
BY DEF TypeOK

(* The locks of the others stay theirs.                                     *)
OthersKeepLocks(r) ==
    /\ lock' \in [Tickets -> Reqs \cup {Free}]
    /\ \A t \in Tickets : lock[t] \notin {r, Free} => lock'[t] = lock[t]

LEMMA FinishFrees ==
    ASSUME TypeOK, NEW r \in Reqs, Finish(r)
    PROVE  /\ Idle \in Handler /\ Idle.pc = "idle"
           /\ req' = [req EXCEPT ![r] = Idle]
           /\ OthersKeepLocks(r)
BY DEF TypeOK, Finish, Idle, Handler, Places, Endpoints, OthersKeepLocks

LEMMA StartTypes ==
    ASSUME TypeOK, NEW r \in Reqs, NEW call \in Endpoints,
           NEW t \in Tickets \cup {NoTicket}, NEW b \in Tickets \cup {NoTicket},
           NEW pc \in Places, Start(r, pc, call, t, b)
    PROVE  \E h \in Handler :
             /\ req' = [req EXCEPT ![r] = h]
             /\ h.pc = pc /\ h.call = call /\ h.t = t /\ h.b = b
<1>1. [pc |-> pc, call |-> call, t |-> t, b |-> b, list |-> {}] \in Handler
  BY DEF Handler
<1> QED
  BY <1>1 DEF Start

LEMMA MoveTypes ==
    ASSUME TypeOK, NEW r \in Reqs, NEW pc \in Places, Move(r, pc)
    PROVE  \E h \in Handler :
             /\ req' = [req EXCEPT ![r] = h]
             /\ h.pc = pc /\ h.call = req[r].call /\ h.t = req[r].t /\ h.b = req[r].b
<1>1. req[r] \in Handler
  BY DEF TypeOK
<1>2. [req[r] EXCEPT !.pc = pc] \in Handler
  BY <1>1 DEF Handler
<1> QED
  BY <1>1, <1>2 DEF Move, Handler, TypeOK

LEMMA RememberTypes ==
    ASSUME TypeOK, NEW ts \in SUBSET Tickets, NEW ds \in SUBSET Rows, Remember(ts, ds)
    PROVE  turned' \in [Reqs -> SUBSET Tickets] /\ added' \in [Reqs -> SUBSET Rows]
BY DEF TypeOK, Remember

LEMMA WriteTypes ==
    ASSUME TypeOK, NEW ts \in SUBSET Tickets, NEW ds \in SUBSET Rows, Remember(ts, ds),
           ticket' \in [Tickets -> Ticket], project' \in Life, deps' \subseteq Rows,
           kept' \subseteq Rows
    PROVE  DataOK'
<1>1. turned' \in [Reqs -> SUBSET Tickets] /\ added' \in [Reqs -> SUBSET Rows]
  BY RememberTypes
<1> QED
  BY <1>1 DEF DataOK

LEMMA LooksTypes ==
    ASSUME TypeOK, NEW r \in Reqs, Looks(r)
    PROVE  /\ turned' \in [Reqs -> SUBSET Tickets] /\ added' \in [Reqs -> SUBSET Rows]
           /\ kept' = kept
BY DEF TypeOK, Looks

(* Handlers stay placed when one moves and is placed itself.                *)
LEMMA PlacedStep ==
    ASSUME Placed, NEW r \in Reqs, NEW h \in Handler, req' = [req EXCEPT ![r] = h],
           OthersKeepLocks(r), DataOK',
           h.pc # "idle" /\ h.call \notin OfProject => h.t \in Tickets,
           h.pc # "idle" /\ h.call \in {"add", "remove"} => h.b \in Tickets,
           h.pc # "idle" /\ h.call = "patch" => lock'[h.t] = r
    PROVE  Placed'
<1>1. /\ req' \in [Reqs -> Handler]
      /\ \A q \in Reqs : req'[q] = IF q = r THEN h ELSE req[q]
  BY OneHandlerMoves DEF Placed
<1>2. TypeOK'
  BY <1>1 DEF TypeOK, DataOK, OthersKeepLocks
<1>3. ASSUME NEW q \in Reqs PROVE HandlerIsPlaced(q)'
  <2>1. CASE q = r
    BY <1>1, <2>1 DEF HandlerIsPlaced, Busy
  <2>2. CASE q # r
    <3>1. HandlerIsPlaced(q) /\ req'[q] = req[q]
      BY <1>1, <2>2 DEF Placed
    <3>2. \A t \in Tickets : lock[t] = q => lock'[t] = q
      BY <2>2 DEF OthersKeepLocks
    <3> QED
      BY <3>1, <3>2 DEF HandlerIsPlaced, Busy, OfProject
  <2> QED
    BY <2>1, <2>2
<1> QED
  BY <1>2, <1>3 DEF Placed

(* A call begins.                                                           *)
LEMMA StartPlaced ==
    ASSUME Placed, NEW r \in Reqs, NEW call \in Endpoints, NEW t \in Tickets \cup {NoTicket},
           NEW b \in Tickets \cup {NoTicket}, NEW pc \in Places, Start(r, pc, call, t, b),
           call \notin OfProject => t \in Tickets,
           call \in {"add", "remove"} => b \in Tickets,
           UNCHANGED <<ticket, project, deps>>, UNCHANGED history,
           \/ call # "patch" /\ UNCHANGED lock
           \/ call = "patch" /\ lock[t] = Free /\ lock' = [lock EXCEPT ![t] = r]
    PROVE  Placed'
<1>1. PICK h \in Handler : /\ req' = [req EXCEPT ![r] = h]
                           /\ h.pc = pc /\ h.call = call /\ h.t = t /\ h.b = b
  BY StartTypes DEF Placed
<1>2. OthersKeepLocks(r) /\ (call = "patch" => lock'[t] = r)
  BY DEF OthersKeepLocks, Placed, TypeOK, OfProject
<1>3. DataOK'
  BY DEF DataOK, Placed, TypeOK, history
<1> QED
  BY <1>1, <1>2, <1>3, PlacedStep

LEMMA BeginPlaced ==
    ASSUME Placed, NEW r \in Reqs, Begin(r)
    PROVE  Placed'
<1> USE DEF Endpoints, OfProject, Reads, Places
<1>1. ASSUME NEW t \in Tickets, PatchLock(r, t) PROVE Placed'
  BY <1>1, StartPlaced DEF PatchLock, history
<1>2. ASSUME NEW t \in Tickets, DeleteFind(r, t) \/ Restore(r, t) \/ EscalationFind(r, t)
      PROVE  Placed'
  BY <1>2, StartPlaced DEF DeleteFind, Restore, EscalationFind
<1>3. ASSUME NEW t \in Tickets, NEW b \in Tickets, AddFindTicket(r, t, b) \/ RemoveFind(r, t, b)
      PROVE  Placed'
  BY <1>3, StartPlaced DEF AddFindTicket, RemoveFind
<1>4. ASSUME NEW call \in OfProject, NEW life, ProjectFind(r, call, life) PROVE Placed'
  BY <1>4, StartPlaced DEF ProjectFind
<1> QED
  BY <1>1, <1>2, <1>3, <1>4 DEF Begin

(* A call goes on, and keeps or takes locks.                                *)
LEMMA MovePlaced ==
    ASSUME Placed, NEW r \in Reqs, NEW pc \in Places, req[r].pc # "idle", Move(r, pc),
           OthersKeepLocks(r), \A t \in Tickets : lock[t] = r => lock'[t] = r, DataOK'
    PROVE  Placed'
<1>1. PICK h \in Handler :
        /\ req' = [req EXCEPT ![r] = h]
        /\ h.pc = pc /\ h.call = req[r].call /\ h.t = req[r].t /\ h.b = req[r].b
  BY MoveTypes DEF Placed
<1>2. HandlerIsPlaced(r)
  BY DEF Placed
<1>3. /\ h.call \notin OfProject => h.t \in Tickets
      /\ h.call \in {"add", "remove"} => h.b \in Tickets
      /\ h.call = "patch" => lock'[h.t] = r
  BY <1>1, <1>2 DEF HandlerIsPlaced, Busy, OfProject
<1> QED
  BY <1>1, <1>3, PlacedStep

(* A call ends.                                                             *)
LEMMA FinishPlaced ==
    ASSUME Placed, NEW r \in Reqs, Finish(r), DataOK'
    PROVE  Placed'
<1>1. /\ Idle \in Handler /\ Idle.pc = "idle" /\ req' = [req EXCEPT ![r] = Idle]
      /\ OthersKeepLocks(r)
  BY FinishFrees DEF Placed
<1> QED
  BY <1>1, PlacedStep

LEMMA LookingPlaced ==
    ASSUME Placed, NEW r \in Reqs, Looking(r)
    PROVE  Placed'
<1>1. CASE \/ PatchProject(r) \/ PatchGate(r) \/ DeleteCountBlockers(r)
           \/ DeleteCountDependents(r) \/ RestoreFindProject(r)
           \/ AddFindBlocker(r) \/ AddLook(r)
  <2>1. /\ req[r].pc # "idle" /\ \E pc \in Places : Move(r, pc)
        /\ Reads /\ (Looks(r) \/ UNCHANGED history)
    BY <1>1 DEF PatchProject, PatchGate, DeleteCountBlockers, DeleteCountDependents,
       RestoreFindProject, AddFindBlocker, AddLook, At, Places
  <2>2. DataOK'
    BY <2>1, LooksTypes DEF DataOK, Placed, TypeOK, Reads, history
  <2>3. OthersKeepLocks(r) /\ lock' = lock
    BY <2>1 DEF Reads, OthersKeepLocks, Placed, TypeOK
  <2> QED
    BY <2>1, <2>2, <2>3, MovePlaced
<1>2. ASSUME NEW call \in OfProject, NEW tickets \in SUBSET Tickets, ProjectList(r, call, tickets)
      PROVE  Placed'
  <2> DEFINE h == [req[r] EXCEPT !.pc = "seen", !.list = tickets]
  <2>0. req[r] \in Handler /\ req[r].call = call
    BY <1>2 DEF Placed, TypeOK, ProjectList, At
  <2>1. h \in Handler /\ h.pc = "seen" /\ h.call = call
    BY <2>0 DEF Handler, Places
  <2>2. req' = [req EXCEPT ![r] = h]
    BY <1>2 DEF ProjectList, Placed, TypeOK
  <2>3. DataOK' /\ OthersKeepLocks(r)
    BY <1>2 DEF ProjectList, Reads, history, DataOK, OthersKeepLocks, Placed, TypeOK
  <2> HIDE DEF h
  <2> QED
    BY <2>1, <2>2, <2>3, PlacedStep DEF OfProject
<1> QED
  BY <1>1, <1>2 DEF Looking, ProjectDeleteList, ProjectRestoreList, OfProject

LEMMA WritingPlaced ==
    ASSUME Placed, NEW r \in Reqs, Writing(r) \/ GiveUp(r)
    PROVE  Placed'
<1>0. HandlerIsPlaced(r) /\ TypeOK
  BY DEF Placed
<1>1. CASE DeleteMark(r)
  <2>1. DataOK'
    BY <1>0, <1>1 DEF DeleteMark, TypeOK, DataOK
  <2>2. OthersKeepLocks(r) /\ \A t \in Tickets : lock[t] = r => lock'[t] = r
    BY <1>0, <1>1 DEF DeleteMark, OthersKeepLocks, TypeOK
  <2> QED
    BY <1>1, <2>1, <2>2, MovePlaced DEF DeleteMark, At, Places
<1>2. CASE RestoreWrite(r)
  <2>1. req[r].t \in Tickets
    BY <1>0, <1>2 DEF RestoreWrite, At, HandlerIsPlaced, OfProject
  <2>0. ticket' \in [Tickets -> Ticket]
    BY <1>0, <1>2, <2>1 DEF RestoreWrite, TypeOK, Ticket, Life
  <2>2. DataOK'
    <3>1. Remember({req[r].t}, {}) /\ UNCHANGED <<project, deps, kept>>
      BY <1>2 DEF RestoreWrite
    <3> QED
      BY <1>0, <2>0, <2>1, <3>1, WriteTypes DEF TypeOK
  <2>3. OthersKeepLocks(r) /\ \A t \in Tickets : lock[t] = r => lock'[t] = r
    BY <1>0, <1>2 DEF RestoreWrite, OthersKeepLocks, TypeOK
  <2> QED
    BY <1>2, <2>2, <2>3, MovePlaced DEF RestoreWrite, At, Places
<1>3. ASSUME NEW t \in Tickets, CascadeUpdate(r, t) PROVE Placed'
  <2>1. TypeOK'
    BY <1>0, <1>3 DEF CascadeUpdate, TypeOK
  <2>2. \A q \in Reqs : \A u \in Tickets : lock[u] = q => lock'[u] = q
    BY <1>0, <1>3 DEF CascadeUpdate, TypeOK
  <2>3. \A q \in Reqs : HandlerIsPlaced(q) /\ req'[q] = req[q]
    BY <1>3 DEF CascadeUpdate, Placed
  <2> QED
    BY <2>1, <2>2, <2>3 DEF Placed, HandlerIsPlaced, Busy, OfProject
<1>4. CASE PatchCommit(r) \/ GiveUp(r)
  <2>0. ticket' \in [Tickets -> Ticket]
    BY <1>0, <1>4 DEF PatchCommit, GiveUp, TypeOK, Ticket
  <2>1. DataOK'
    <3>1. Remember({}, {}) /\ UNCHANGED <<project, deps, kept>>
      BY <1>4 DEF PatchCommit, GiveUp
    <3> QED
      BY <1>0, <2>0, <3>1, WriteTypes DEF TypeOK
  <2> QED
    BY <1>4, <2>1, FinishPlaced DEF PatchCommit, GiveUp
<1>5. CASE DeleteCommit(r)
  <2>1. req[r].t \in Tickets
    BY <1>0, <1>5 DEF DeleteCommit, At, HandlerIsPlaced, OfProject
  <2>0. /\ ticket' \in [Tickets -> Ticket]
        /\ project' = project /\ deps' \subseteq deps /\ kept' \subseteq kept
    BY <1>0, <1>5 DEF DeleteCommit, TypeOK, Ticket, Life
  <2>2. DataOK'
    <3>1. Remember({req[r].t}, {})
      BY <1>5 DEF DeleteCommit
    <3> QED
      BY <1>0, <2>0, <2>1, <3>1, WriteTypes DEF TypeOK
  <2> QED
    BY <1>5, <2>2, FinishPlaced DEF DeleteCommit
<1>6. CASE RestoreUnmark(r)
  <2>0. ticket' \in [Tickets -> Ticket]
    BY <1>0, <1>6 DEF RestoreUnmark, TypeOK, Ticket
  <2>1. DataOK'
    <3>1. Remember({}, {}) /\ UNCHANGED <<project, deps, kept>>
      BY <1>6 DEF RestoreUnmark
    <3> QED
      BY <1>0, <2>0, <3>1, WriteTypes DEF TypeOK
  <2> QED
    BY <1>6, <2>1, FinishPlaced DEF RestoreUnmark
<1>7. CASE EscalationSave(r)
  <2>1. req[r].t \in Tickets
    BY <1>0, <1>7 DEF EscalationSave, At, HandlerIsPlaced, OfProject
  <2>0. ticket' \in [Tickets -> Ticket]
    <3>1. ticket[req[r].t] \in Ticket
      BY <1>0, <2>1 DEF TypeOK
    <3>2. PICK row : /\ row \in Ticket
                     /\ ticket' = [ticket EXCEPT ![req[r].t] = row]
      <4>1. PICK status \in {ticket[req[r].t].status, "OPEN"},
                 life \in {ticket[req[r].t].life, "active"},
                 withProject \in {ticket[req[r].t].withProject, req[r].pc = "seen"} :
              ticket' = [ticket EXCEPT ![req[r].t] =
                [status |-> status, life |-> life, withProject |-> withProject]]
        BY <1>7 DEF EscalationSave
      <4>2. withProject \in BOOLEAN
        BY <3>1 DEF Ticket
      <4>3. [status |-> status, life |-> life, withProject |-> withProject] \in Ticket
        BY <3>1, <4>2 DEF Ticket, Life
      <4> QED
        BY <4>1, <4>3
    <3> QED
      BY <1>0, <3>2 DEF TypeOK
  <2>2. DataOK'
    <3>1. Remember({req[r].t}, {}) /\ UNCHANGED <<project, deps, kept>>
      BY <1>7 DEF EscalationSave
    <3> QED
      BY <1>0, <2>0, <2>1, <3>1, WriteTypes DEF TypeOK
  <2> QED
    BY <1>7, <2>2, FinishPlaced DEF EscalationSave
<1>8. CASE ProjectDeleteCommit(r) \/ ProjectRestoreCommit(r)
  <2>1. req[r].list \in SUBSET Tickets
    BY <1>0 DEF TypeOK, Handler
  <2>2. kept' \subseteq Rows
    BY <1>0, <1>8 DEF TypeOK, ProjectDeleteCommit, ProjectRestoreCommit, Mentioning
  <2>3. Remember(req[r].list, {}) /\ deps' = deps
    BY <1>8 DEF ProjectDeleteCommit, ProjectRestoreCommit, CascadeCommit
  <2>4. ASSUME NEW life \in Life, CascadeCommit(r, "deleteProject", life)
               \/ CascadeCommit(r, "restoreProject", life)
        PROVE  ticket' \in [Tickets -> Ticket] /\ project' \in Life
    <3>1. /\ project' = life
          /\ ticket' = [t \in Tickets |->
               IF t \in req[r].list
               THEN [status |-> ticket[t].status, life |-> life,
                     withProject |-> life = "deleted"]
               ELSE ticket[t]]
      BY <2>4 DEF CascadeCommit
    <3>2. (life = "deleted") \in BOOLEAN
      OBVIOUS
    <3>3. ASSUME NEW t \in Tickets
          PROVE  [status |-> ticket[t].status, life |-> life,
                  withProject |-> life = "deleted"] \in Ticket
      BY <1>0, <3>2 DEF TypeOK, Ticket
    <3> QED
      BY <1>0, <3>1, <3>3 DEF TypeOK
  <2>5. DataOK'
    <3>1. ticket' \in [Tickets -> Ticket] /\ project' \in Life
      BY <1>8, <2>4 DEF ProjectDeleteCommit, ProjectRestoreCommit, Life
    <3> QED
      BY <1>0, <2>1, <2>2, <2>3, <3>1, WriteTypes DEF TypeOK
  <2> QED
    BY <1>8, <2>5, FinishPlaced DEF ProjectDeleteCommit, ProjectRestoreCommit, CascadeCommit
<1>9. CASE AddInsert(r) \/ RemoveDelete(r)
  <2>1. req[r].t \in Tickets /\ req[r].b \in Tickets
    BY <1>0, <1>9 DEF AddInsert, RemoveDelete, At, HandlerIsPlaced, OfProject, Busy
  <2>2. InsertedRow(r) \in Rows
    BY <2>1 DEF InsertedRow, Rows
  <2>3. /\ Remember({}, {InsertedRow(r)}) \/ Remember({}, {})
        /\ UNCHANGED <<ticket, project>>
        /\ deps' \subseteq Rows /\ kept' \subseteq Rows
    BY <1>0, <1>9, <2>2 DEF AddInsert, RemoveDelete, TypeOK
  <2>4. DataOK'
    BY <1>0, <2>2, <2>3, WriteTypes DEF TypeOK
  <2> QED
    BY <1>9, <2>4, FinishPlaced DEF AddInsert, RemoveDelete
<1> QED
  BY <1>1, <1>2, <1>3, <1>4, <1>5, <1>6, <1>7, <1>8, <1>9 DEF Writing

LEMMA PlacedNext == Placed /\ [Next]_vars => Placed'
<1>1. Placed /\ UNCHANGED vars => Placed'
  BY DEF vars, Placed, TypeOK, HandlerIsPlaced, Busy
<1> QED
  BY <1>1, BeginPlaced, LookingPlaced, WritingPlaced DEF Next, Step

----------------------------------------------------------------------------
(* What the calls found.                                                    *)

(* At most the tickets ts are deleted, restored or reopened, and at most the*)
(* rows ds are inserted.                                                    *)
Changes(ts, ds) ==
    /\ deps' \subseteq deps \cup ds
    /\ \A t \in Tickets \ ts : /\ Active(t)' = Active(t)
                               /\ ticket'[t].status # "DONE" => ticket[t].status # "DONE"

Remembered(q, ts, ds) ==
    /\ turned[q] \cup ts \subseteq turned'[q]
    /\ added[q] \cup ds \subseteq added'[q]

LEMMA RememberWorks ==
    ASSUME NEW q \in Reqs, NEW ts, NEW ds, Remember(ts, ds), req'[q].pc # "idle"
    PROVE  Remembered(q, ts, ds)
BY DEF Remember, Remembered

LEMMA StaysRight ==
    ASSUME NEW q \in Reqs, NEW ts, NEW ds, HandlerIsPlaced(q), HandlerIsRight(q),
           Changes(ts, ds),
           req'[q].pc = req[q].pc, req'[q].call = req[q].call,
           req'[q].t = req[q].t, req'[q].b = req[q].b,
           req[q].pc # "idle" => Remembered(q, ts, ds),
           At(q, "allowed", "patch") => \A b \in Tickets : <<req[q].t, b>> \notin ds
    PROVE  HandlerIsRight(q)'
<1>1. CASE req[q].pc = "idle"
  BY <1>1 DEF HandlerIsRight, At, Busy
<1>2. CASE Busy(q, "patch")
  <2>1. ASSUME NEW b \in OpenBlockers(req[q].t)', At(q, "allowed", "patch")
        PROVE  b \in turned'[q]
    <3>1. /\ b \in Tickets /\ <<req[q].t, b>> \in deps
          /\ Active(b)' /\ ticket'[b].status # "DONE"
      BY <2>1 DEF OpenBlockers, Changes, Active
    <3>2. CASE b \in ts
      BY <1>2, <3>2 DEF Remembered, Busy
    <3>3. CASE b \notin ts
      <4>1. b \in OpenBlockers(req[q].t)
        BY <3>1, <3>3 DEF OpenBlockers, Changes
      <4> QED
        BY <1>2, <2>1, <4>1 DEF HandlerIsRight, Remembered, Busy
    <3> QED
      BY <3>2, <3>3
  <2> QED
    BY <1>2, <2>1 DEF HandlerIsRight, At, Busy
<1>3. CASE Busy(q, "delete")
  <2>0. req[q].t \in Tickets /\ Remembered(q, ts, ds)
    BY <1>3 DEF HandlerIsPlaced, Busy, OfProject
  <2>1. ASSUME NEW b \in BlockersOf(req[q].t)', req[q].pc # "begun"
        PROVE  b \in turned'[q] \/ <<req[q].t, b>> \in added'[q]
    <3>1. CASE b \in ts \/ <<req[q].t, b>> \in ds
      BY <2>0, <3>1 DEF Remembered
    <3>2. CASE b \notin ts /\ <<req[q].t, b>> \notin ds
      <4>1. b \in BlockersOf(req[q].t)
        BY <2>1, <3>2 DEF BlockersOf, Changes
      <4> QED
        BY <1>3, <2>0, <2>1, <4>1 DEF HandlerIsRight, Remembered
    <3> QED
      BY <3>1, <3>2
  <2>2. ASSUME NEW d \in DependentsOf(req[q].t)', req[q].pc \notin {"begun", "seen"}
        PROVE  d \in turned'[q] \/ <<d, req[q].t>> \in added'[q]
    <3>1. CASE d \in ts \/ <<d, req[q].t>> \in ds
      BY <2>0, <3>1 DEF Remembered
    <3>2. CASE d \notin ts /\ <<d, req[q].t>> \notin ds
      <4>1. d \in DependentsOf(req[q].t)
        BY <2>2, <3>2 DEF DependentsOf, Changes
      <4> QED
        BY <1>3, <2>0, <2>2, <4>1 DEF HandlerIsRight, Remembered
    <3> QED
      BY <3>1, <3>2
  <2> QED
    BY <1>3, <2>1, <2>2 DEF HandlerIsRight, At, Busy
<1>4. CASE Busy(q, "add")
  <2>1. /\ req[q].t \in Tickets /\ req[q].b \in Tickets /\ Remembered(q, ts, ds)
        /\ \A t \in Tickets : Active(t) \/ t \in turned[q] =>
                               ticket'[t].life = "active" \/ t \in turned'[q]
    BY <1>4 DEF HandlerIsPlaced, Busy, OfProject, Remembered, Changes, Active
  <2> QED
    BY <1>4, <2>1 DEF HandlerIsRight, At, Busy, Active
<1>5. CASE req[q].call \notin {"patch", "delete", "add"}
  BY <1>5 DEF HandlerIsRight, At, Busy
<1> QED
  BY <1>1, <1>2, <1>3, <1>4, <1>5 DEF Busy

(* A step of r that changes at most that keeps the invariant, if r itself   *)
(* stays right and the rows of deleted tickets stay kept ones.              *)
LEMMA StepKeepsInv ==
    ASSUME Inv, Placed', NEW r \in Reqs, NEW ts, NEW ds, Changes(ts, ds),
           \A q \in Reqs \ {r} : /\ req'[q] = req[q]
                                 /\ req[q].pc # "idle" => Remembered(q, ts, ds),
           \A q \in Reqs : At(q, "allowed", "patch") =>
             \A b \in Tickets : <<req[q].t, b>> \notin ds,
           HandlerIsRight(r)',
           DeletedIsMentionedInKeptRows'
    PROVE  Inv'
<1>1. ASSUME NEW q \in Reqs PROVE HandlerIsRight(q)'
  <2>1. CASE q # r
    BY <2>1, StaysRight DEF Inv, Placed
  <2> QED
    BY <2>1
<1> QED
  BY <1>1 DEF Inv

(* Nothing is written: a look, or a beginning.                              *)
LEMMA QuietStep ==
    ASSUME Inv, Placed', NEW r \in Reqs, UNCHANGED <<ticket, deps, kept>>,
           \A q \in Reqs \ {r} : req'[q] = req[q] /\ turned'[q] = turned[q] /\ added'[q] = added[q],
           HandlerIsRight(r)'
    PROVE  Inv'
<1>1. Changes({}, {})
  BY DEF Changes, Active
<1>2. DeletedIsMentionedInKeptRows'
  BY DEF Inv, DeletedIsMentionedInKeptRows, Active, Mentioning
<1>3. \A q \in Reqs \ {r} : Remembered(q, {}, {})
  BY DEF Remembered
<1> QED
  BY <1>1, <1>2, <1>3, StepKeepsInv

(* A call that ends with ts and ds.                                         *)
LEMMA ReturnStep ==
    ASSUME Inv, Placed', NEW r \in Reqs, NEW ts, NEW ds, Changes(ts, ds),
           req' = [req EXCEPT ![r] = Idle], Remember(ts, ds),
           \A q \in Reqs : At(q, "allowed", "patch") =>
             \A b \in Tickets : <<req[q].t, b>> \notin ds,
           DeletedIsMentionedInKeptRows'
    PROVE  Inv'
<1>1. \A q \in Reqs : req'[q] = IF q = r THEN Idle ELSE req[q]
  BY DEF Inv, Placed, TypeOK
<1>2. HandlerIsRight(r)'
  BY <1>1 DEF HandlerIsRight, Busy, At, Idle
<1>3. \A q \in Reqs \ {r} : req[q].pc # "idle" => Remembered(q, ts, ds)
  BY <1>1, RememberWorks
<1> QED
  BY <1>1, <1>2, <1>3, StepKeepsInv

(* A call that ends without an insertion.                                   *)
LEMMA EndStep ==
    ASSUME Inv, Placed', NEW r \in Reqs, NEW ts, Changes(ts, {}),
           req' = [req EXCEPT ![r] = Idle], Remember(ts, {}),
           DeletedIsMentionedInKeptRows'
    PROVE  Inv'
<1> DEFINE none == {}
<1>1. Changes(ts, none) /\ Remember(ts, none)
  OBVIOUS
<1>2. \A q \in Reqs : At(q, "allowed", "patch") => \A b \in Tickets : <<req[q].t, b>> \notin none
  OBVIOUS
<1> HIDE DEF none
<1> QED
  BY <1>1, <1>2, ReturnStep

(* Tickets that come back or go on leave the rows of deleted ones alone.    *)
LEMMA KeptRowsStay ==
    ASSUME Inv, UNCHANGED <<deps, kept>>, \A t \in Tickets : Active(t) => Active(t)'
    PROVE  DeletedIsMentionedInKeptRows'
BY DEF Inv, DeletedIsMentionedInKeptRows, Mentioning

----------------------------------------------------------------------------
(* The steps.                                                               *)
LEMMA BeginKeepsInv ==
    ASSUME Inv, Placed', NEW r \in Reqs, Begin(r)
    PROVE  Inv'
<1>1. ASSUME NEW call \in Endpoints, NEW t \in Tickets \cup {NoTicket},
             NEW b \in Tickets \cup {NoTicket}, NEW pc \in Places, Start(r, pc, call, t, b),
             call \notin {"restore", "escalate"} => pc = "begun",
             call = "add" => Active(t), UNCHANGED <<ticket, deps>>, UNCHANGED history
      PROVE  Inv'
  <2>1. PICK h \in Handler : /\ req' = [req EXCEPT ![r] = h]
                             /\ h.pc = pc /\ h.call = call /\ h.t = t /\ h.b = b
    BY <1>1, StartTypes DEF Inv, Placed
  <2>2. \A q \in Reqs : req'[q] = IF q = r THEN h ELSE req[q]
    BY <2>1 DEF Inv, Placed, TypeOK
  <2>3. HandlerIsRight(r)'
    BY <1>1, <2>1, <2>2 DEF HandlerIsRight, Busy, At, Active
  <2> QED
    BY <1>1, <2>2, <2>3, QuietStep DEF history
<1>2. ASSUME NEW t \in Tickets, PatchLock(r, t) PROVE Inv'
  BY <1>1, <1>2 DEF PatchLock, Endpoints, Places, history
<1>3. ASSUME NEW t \in Tickets, DeleteFind(r, t) \/ Restore(r, t) \/ EscalationFind(r, t)
      PROVE  Inv'
  BY <1>1, <1>3 DEF DeleteFind, Restore, EscalationFind, Endpoints, Places, Reads
<1>4. ASSUME NEW t \in Tickets, NEW b \in Tickets, AddFindTicket(r, t, b) \/ RemoveFind(r, t, b)
      PROVE  Inv'
  BY <1>1, <1>4 DEF AddFindTicket, RemoveFind, Endpoints, Places, Reads
<1>5. ASSUME NEW call \in OfProject, NEW life, ProjectFind(r, call, life) PROVE Inv'
  BY <1>1, <1>5 DEF ProjectFind, Endpoints, Places, Reads, OfProject
<1> QED
  BY <1>2, <1>3, <1>4, <1>5 DEF Begin, OfProject

LEMMA LookingKeepsInv ==
    ASSUME Inv, Placed', NEW r \in Reqs, Looking(r) \/ DeleteMark(r)
    PROVE  Inv'
<1>0. HandlerIsRight(r) /\ HandlerIsPlaced(r) /\ TypeOK
  BY DEF Inv, Placed
<1>1. ASSUME NEW pc \in Places, Move(r, pc), UNCHANGED <<ticket, deps>>,
             UNCHANGED history \/ Looks(r),
             HandlerIsRight(r)'
      PROVE  Inv'
  <2>1. \A q \in Reqs \ {r} : req'[q] = req[q] /\ turned'[q] = turned[q] /\ added'[q] = added[q]
    BY <1>0, <1>1 DEF Move, Looks, history, TypeOK
  <2> QED
    BY <1>1, <2>1, QuietStep DEF Looks, history
<1>2. ASSUME NEW pc \in Places, Move(r, pc)
      PROVE  req'[r].pc = pc /\ req'[r].call = req[r].call /\ req'[r].t = req[r].t
             /\ req'[r].b = req[r].b
  BY <1>0, <1>2, MoveTypes DEF TypeOK
<1>3. CASE PatchProject(r) \/ RestoreFindProject(r) \/ DeleteMark(r) \/ AddLook(r)
  <2>1. HandlerIsRight(r)'
    BY <1>0, <1>2, <1>3 DEF PatchProject, RestoreFindProject, DeleteMark, AddLook, At, Places,
       Reads, history, HandlerIsRight, Busy, BlockersOf, DependentsOf, Active
  <2> QED
    BY <1>1, <1>3, <2>1 DEF PatchProject, RestoreFindProject, DeleteMark, AddLook, Places, Reads,
       history
<1>4. CASE PatchGate(r)
  <2>1. HandlerIsRight(r)'
    BY <1>2, <1>4 DEF PatchGate, MayBeDone, At, Places, Reads, HandlerIsRight, Busy,
       OpenBlockers, Active
  <2> QED
    BY <1>1, <1>4, <2>1 DEF PatchGate, Places, Reads
<1>5. CASE DeleteCountBlockers(r)
  <2>1. HandlerIsRight(r)'
    BY <1>2, <1>5 DEF DeleteCountBlockers, At, Places, Reads, HandlerIsRight, Busy,
       BlockersOf, Active
  <2> QED
    BY <1>1, <1>5, <2>1 DEF DeleteCountBlockers, Places, Reads
<1>6. CASE DeleteCountDependents(r)
  <2>1. HandlerIsRight(r)'
    BY <1>0, <1>2, <1>6 DEF DeleteCountDependents, At, Places, Reads, HandlerIsRight, Busy,
       BlockersOf, DependentsOf, Active, history
  <2> QED
    BY <1>1, <1>6, <2>1 DEF DeleteCountDependents, Places, Reads
<1>7. CASE AddFindBlocker(r)
  <2>1. HandlerIsRight(r)'
    BY <1>0, <1>2, <1>7 DEF AddFindBlocker, At, Places, Reads, HandlerIsRight, Busy,
       Active, history
  <2> QED
    BY <1>1, <1>7, <2>1 DEF AddFindBlocker, Places, Reads
<1>8. ASSUME NEW call \in OfProject, NEW tickets, ProjectList(r, call, tickets) PROVE Inv'
  <2>1. /\ \A q \in Reqs \ {r} : req'[q] = req[q]
        /\ req'[r].call = call
    BY <1>0, <1>8 DEF ProjectList, TypeOK, At, Handler
  <2>2. HandlerIsRight(r)'
    BY <2>1 DEF HandlerIsRight, Busy, At, OfProject
  <2> QED
    BY <1>8, <2>1, <2>2, QuietStep DEF ProjectList, Reads, history
<1> QED
  BY <1>3, <1>4, <1>5, <1>6, <1>7, <1>8
     DEF Looking, ProjectDeleteList, ProjectRestoreList, OfProject

LEMMA PatchKeepsInv ==
    ASSUME Inv, Placed', NEW r \in Reqs, PatchCommit(r) \/ GiveUp(r)
    PROVE  Inv'
<1>1. /\ ticket' = ticket \/ ticket' = [ticket EXCEPT ![req[r].t] = [@ EXCEPT !.status = "DONE"]]
      /\ UNCHANGED <<deps, kept>> /\ Remember({}, {}) /\ req' = [req EXCEPT ![r] = Idle]
  BY DEF PatchCommit, GiveUp, Finish
<1>2. \A t \in Tickets : /\ ticket'[t].life = ticket[t].life
                         /\ ticket'[t].status \in {ticket[t].status, "DONE"}
  BY <1>1 DEF Inv, Placed, TypeOK, Ticket
<1>3. Changes({}, {})
  BY <1>1, <1>2 DEF Changes, Active
<1>4. DeletedIsMentionedInKeptRows'
  BY <1>1, <1>2, KeptRowsStay DEF Active
<1> QED
  BY <1>1, <1>3, <1>4, EndStep

LEMMA DeleteCommitKeepsInv ==
    ASSUME Inv, Placed', NEW r \in Reqs, DeleteCommit(r)
    PROVE  Inv'
<1>1. /\ ticket' = [ticket EXCEPT ![req[r].t] = [@ EXCEPT !.life = "deleted"]]
      /\ deps' = deps \ Mentioning(req[r].t) /\ kept' = kept \ Mentioning(req[r].t)
      /\ req' = [req EXCEPT ![r] = Idle] /\ Remember({req[r].t}, {})
  BY DEF DeleteCommit, Finish
<1>2. \A t \in Tickets \ {req[r].t} : ticket'[t] = ticket[t]
  BY <1>1 DEF Inv, Placed, TypeOK
<1>3. Changes({req[r].t}, {})
  BY <1>1, <1>2 DEF Changes, Active
<1>4. DeletedIsMentionedInKeptRows'
  <2> SUFFICES ASSUME NEW t \in Tickets, ~Active(t)', NEW d \in Mentioning(t)'
               PROVE  d \in kept'
    BY DEF DeletedIsMentionedInKeptRows
  <2>1. /\ d \in deps /\ d \notin Mentioning(req[r].t) /\ t \in {d[1], d[2]}
    BY <1>1 DEF Mentioning
  <2>2. t # req[r].t
    BY <2>1 DEF Mentioning
  <2>3. d \in kept
    BY <1>2, <2>1, <2>2 DEF Inv, DeletedIsMentionedInKeptRows, Mentioning, Active
  <2> QED
    BY <1>1, <2>1, <2>3
<1> QED
  BY <1>1, <1>3, <1>4, EndStep

LEMMA RestoreKeepsInv ==
    ASSUME Inv, Placed', NEW r \in Reqs,
           RestoreWrite(r) \/ RestoreUnmark(r) \/ EscalationSave(r)
    PROVE  Inv'
<1>0. HandlerIsRight(r) /\ HandlerIsPlaced(r) /\ TypeOK
  BY DEF Inv, Placed
<1>1. CASE RestoreWrite(r)
  <2>1. /\ ticket' = [ticket EXCEPT ![req[r].t] = [@ EXCEPT !.life = "active"]]
        /\ UNCHANGED <<deps, kept>> /\ Remember({req[r].t}, {}) /\ At(r, "allowed", "restore")
        /\ Move(r, "marked")
    BY <1>1 DEF RestoreWrite
  <2>2. \A t \in Tickets : /\ t # req[r].t => ticket'[t] = ticket[t]
                           /\ Active(t) => Active(t)'
    BY <1>0, <2>1 DEF TypeOK, Ticket, Active
  <2>3. Changes({req[r].t}, {})
    BY <2>1, <2>2 DEF Changes, Active
  <2>4. /\ \A q \in Reqs \ {r} : req'[q] = req[q]
        /\ req'[r].call = "restore"
    BY <1>0, <2>1 DEF Move, At, TypeOK, Handler
  <2>5. HandlerIsRight(r)'
    BY <2>4 DEF HandlerIsRight, At, Busy
  <2>6. \A q \in Reqs \ {r} : req[q].pc # "idle" => Remembered(q, {req[r].t}, {})
    BY <2>1, <2>4, RememberWorks
  <2>7. DeletedIsMentionedInKeptRows'
    BY <2>1, <2>2, KeptRowsStay
  <2> QED
    BY <2>3, <2>4, <2>5, <2>6, <2>7, StepKeepsInv
<1>2. CASE RestoreUnmark(r)
  <2>1. /\ ticket' = [ticket EXCEPT ![req[r].t] = [@ EXCEPT !.withProject = FALSE]]
        /\ UNCHANGED <<deps, kept>> /\ Remember({}, {}) /\ req' = [req EXCEPT ![r] = Idle]
    BY <1>2 DEF RestoreUnmark, Finish
  <2>2. \A t \in Tickets : /\ ticket'[t].life = ticket[t].life
                           /\ ticket'[t].status = ticket[t].status
    BY <1>0, <2>1 DEF TypeOK, Ticket
  <2>3. Changes({}, {})
    BY <2>1, <2>2 DEF Changes, Active
  <2>4. DeletedIsMentionedInKeptRows'
    BY <2>1, <2>2, KeptRowsStay DEF Active
  <2> QED
    BY <2>1, <2>3, <2>4, EndStep
<1>3. CASE EscalationSave(r)
  <2>1. /\ \E status \in {ticket[req[r].t].status, "OPEN"},
              life \in {ticket[req[r].t].life, "active"},
              withProject \in {ticket[req[r].t].withProject, req[r].pc = "seen"} :
             ticket' = [ticket EXCEPT ![req[r].t] = [status |-> status, life |-> life,
                                                     withProject |-> withProject]]
        /\ UNCHANGED <<deps, kept>> /\ Remember({req[r].t}, {}) /\ req' = [req EXCEPT ![r] = Idle]
    BY <1>3 DEF EscalationSave, Finish
  <2>2. \A t \in Tickets : /\ t # req[r].t => ticket'[t] = ticket[t]
                           /\ Active(t) => Active(t)'
    BY <1>0, <2>1 DEF TypeOK, Active
  <2>3. Changes({req[r].t}, {})
    BY <2>1, <2>2 DEF Changes, Active
  <2>4. DeletedIsMentionedInKeptRows'
    BY <2>1, <2>2, KeptRowsStay
  <2> QED
    BY <2>1, <2>3, <2>4, EndStep
<1> QED
  BY <1>1, <1>2, <1>3

(* The rows of the tickets that go with the project are kept.               *)
LEMMA CascadeKeepsInv ==
    ASSUME Inv, Placed', NEW r \in Reqs,
           \/ \E t \in Tickets : CascadeUpdate(r, t)
           \/ ProjectDeleteCommit(r) \/ ProjectRestoreCommit(r)
    PROVE  Inv'
<1>1. ASSUME NEW t \in Tickets, CascadeUpdate(r, t) PROVE Inv'
  <2>1. UNCHANGED <<ticket, deps, req, turned, added, kept>>
    BY <1>1 DEF CascadeUpdate
  <2>2. HandlerIsRight(r)'
    BY <2>1 DEF Inv, HandlerIsRight, At, Busy, OpenBlockers, BlockersOf, DependentsOf, Active
  <2> QED
    BY <2>1, <2>2, QuietStep
<1>2. ASSUME NEW call, NEW life, CascadeCommit(r, call, life)
      PROVE  /\ \A t \in Tickets : IF t \in req[r].list THEN ticket'[t].life = life
                                                        ELSE ticket'[t] = ticket[t]
             /\ Changes(req[r].list, {})
             /\ deps' = deps /\ req' = [req EXCEPT ![r] = Idle] /\ Remember(req[r].list, {})
  BY <1>2 DEF CascadeCommit, Finish, Changes, Active
<1>3. CASE ProjectDeleteCommit(r)
  <2>1. /\ CascadeCommit(r, "deleteProject", "deleted")
        /\ kept' = kept \cup UNION {Mentioning(t) : t \in req[r].list}
    BY <1>3 DEF ProjectDeleteCommit
  <2>2. DeletedIsMentionedInKeptRows'
    BY <1>2, <2>1 DEF Inv, DeletedIsMentionedInKeptRows, Mentioning, Active
  <2> QED
    BY <1>2, <2>1, <2>2, ReturnStep
<1>4. CASE ProjectRestoreCommit(r)
  <2>1. CascadeCommit(r, "restoreProject", "active") /\ kept' = kept
    BY <1>4 DEF ProjectRestoreCommit
  <2>2. \A t \in Tickets : Active(t) => Active(t)'
    BY <1>2, <2>1 DEF Active
  <2> QED
    BY <1>2, <2>1, <2>2, KeptRowsStay, ReturnStep
<1> QED
  BY <1>1, <1>3, <1>4

(* The foreign keys keep the new row away from tickets being patched.       *)
LEMMA AddInsertKeepsInv ==
    ASSUME Inv, Placed', NEW r \in Reqs, AddInsert(r)
    PROVE  Inv'
<1> DEFINE t == req[r].t
           b == req[r].b
<1>1. /\ deps' = deps \cup {<<t, b>>} /\ UNCHANGED ticket
      /\ kept' = kept \cup (IF Overtaken(r) /\ ~(Active(t) /\ Active(b)) THEN {<<t, b>>} ELSE {})
      /\ t \in Tickets /\ b \in Tickets
      /\ Active(t) \/ t \in turned[r]
      /\ Active(b) \/ b \in turned[r]
      /\ \A q \in Reqs : lock[t] = q => req[q].call # "patch"
      /\ Remember({}, {<<t, b>>}) /\ req' = [req EXCEPT ![r] = Idle]
  BY DEF AddInsert, InsertedRow, Finish, KeyShareGranted, PatchHolds, At, Inv, Placed,
     HandlerIsPlaced, HandlerIsRight, Busy, OfProject
<1>2. Overtaken(r)
  BY <1>1 DEF Overtaken
<1> HIDE DEF t, b
<1>3. DeletedIsMentionedInKeptRows'
  BY <1>1, <1>2 DEF Inv, DeletedIsMentionedInKeptRows, Mentioning, Active
<1>4. Changes({}, {<<t, b>>})
  BY <1>1 DEF Changes, Active
<1>5. \A q \in Reqs : At(q, "allowed", "patch") =>
        \A c \in Tickets : <<req[q].t, c>> \notin {<<t, b>>}
  BY <1>1 DEF Inv, Placed, HandlerIsPlaced, Busy, At
<1> QED
  BY <1>1, <1>3, <1>4, <1>5, ReturnStep

LEMMA RemoveDeleteKeepsInv ==
    ASSUME Inv, Placed', NEW r \in Reqs, RemoveDelete(r)
    PROVE  Inv'
<1>1. /\ \E d \in {<<req[r].t, req[r].b>>} : deps' = deps \ {d} /\ kept' = kept \ {d}
      /\ UNCHANGED ticket
      /\ Remember({}, {}) /\ req' = [req EXCEPT ![r] = Idle]
  BY DEF RemoveDelete, Finish
<1>2. DeletedIsMentionedInKeptRows'
  BY <1>1 DEF Inv, DeletedIsMentionedInKeptRows, Mentioning, Active
<1>3. Changes({}, {})
  BY <1>1 DEF Changes, Active
<1> QED
  BY <1>1, <1>2, <1>3, EndStep

LEMMA StepInv == Inv /\ [Next]_vars => Inv'
<1> SUFFICES ASSUME Inv, [Next]_vars PROVE Inv'
  OBVIOUS
<1>0. Placed'
  BY PlacedNext DEF Inv
<1>1. ASSUME NEW r \in Reqs, Step(r) PROVE Inv'
  BY <1>0, <1>1, BeginKeepsInv, LookingKeepsInv, PatchKeepsInv, DeleteCommitKeepsInv,
     RestoreKeepsInv, CascadeKeepsInv, AddInsertKeepsInv, RemoveDeleteKeepsInv
     DEF Step, Writing
<1>2. CASE UNCHANGED vars
  BY <1>0, <1>2 DEF vars, Inv, HandlerIsRight, Busy, At, DeletedIsMentionedInKeptRows,
     Mentioning, OpenBlockers, BlockersOf, DependentsOf, Active
<1> QED
  BY <1>1, <1>2 DEF Next

LEMMA Invariance == Spec => []Inv
BY InitInv, StepInv, PTL DEF Spec

----------------------------------------------------------------------------
(* The types, whatever overlaps.                                            *)
THEOREM Typing == Spec => []TypeOK
<1>1. Inv => TypeOK
  BY DEF Inv, Placed
<1> QED
  BY <1>1, Invariance, PTL

(* Only the commit of a PATCH makes a ticket DONE.                          *)
LEMMA WhoMakesDone ==
    ASSUME TypeOK, [Next]_vars, NEW t \in Tickets,
           ticket[t].status # "DONE", ticket'[t].status = "DONE"
    PROVE  \E r \in Reqs : PatchCommit(r) /\ req[r].t = t
<1>1. ASSUME NEW r \in Reqs, Begin(r) \/ Looking(r) \/ GiveUp(r) PROVE UNCHANGED ticket
  BY <1>1 DEF Begin, Looking, GiveUp, PatchLock, DeleteFind, Restore, EscalationFind,
     AddFindTicket, RemoveFind, ProjectFind, PatchProject, PatchGate, DeleteCountBlockers,
     DeleteCountDependents, RestoreFindProject, ProjectDeleteList, ProjectRestoreList,
     ProjectList, AddFindBlocker, AddLook, Reads
<1>2. ASSUME NEW r \in Reqs,
             \/ DeleteMark(r) \/ AddInsert(r) \/ RemoveDelete(r)
             \/ \E u \in Tickets : CascadeUpdate(r, u)
      PROVE  UNCHANGED ticket
  BY <1>2 DEF DeleteMark, AddInsert, RemoveDelete, CascadeUpdate
<1>7. ASSUME NEW r \in Reqs, DeleteCommit(r) \/ RestoreWrite(r) \/ RestoreUnmark(r)
      PROVE  ticket'[t].status = ticket[t].status
  <2>1. ticket[t] \in Ticket
    BY DEF TypeOK
  <2> QED
    BY <1>7, <2>1 DEF DeleteCommit, RestoreWrite, RestoreUnmark, TypeOK, Ticket
<1>3. ASSUME NEW r \in Reqs, ProjectDeleteCommit(r) \/ ProjectRestoreCommit(r)
      PROVE  ticket'[t].status = ticket[t].status
  BY <1>3 DEF ProjectDeleteCommit, ProjectRestoreCommit, CascadeCommit
<1>4. ASSUME NEW r \in Reqs, EscalationSave(r)
      PROVE  ticket'[t].status \in {ticket[t].status, "OPEN"}
  BY <1>4 DEF EscalationSave, TypeOK
<1>5. ASSUME NEW r \in Reqs, PatchCommit(r)
      PROVE  req[r].t = t \/ ticket'[t] = ticket[t]
  BY <1>5 DEF PatchCommit, TypeOK
<1>6. CASE UNCHANGED vars
  BY <1>6 DEF vars
<1> QED
  BY <1>1, <1>2, <1>3, <1>4, <1>5, <1>6, <1>7 DEF Next, Step, Writing

(* BR-12: whatever overlaps, only a blocker restored, or put back by the    *)
(* escalation, while the PATCH was between its look-up and its commit can   *)
(* be open when the ticket becomes DONE.                                    *)
THEOREM DoneGate == Spec => DoneHasNoOpenBlocker
<1>1. Inv /\ [Next]_vars => [NoneIsOpenAtDone]_vars
  <2> SUFFICES ASSUME Inv, [Next]_vars, NEW t \in Tickets,
                      ticket[t].status # "DONE", ticket'[t].status = "DONE"
               PROVE  \E r \in Reqs : lock[t] = r /\ OpenBlockers(t) \subseteq turned[r]
    BY DEF NoneIsOpenAtDone
  <2>1. PICK r \in Reqs : PatchCommit(r) /\ req[r].t = t
    BY WhoMakesDone DEF Inv, Placed
  <2> QED
    BY <2>1 DEF PatchCommit, Inv, Placed, HandlerIsPlaced, HandlerIsRight, At, Busy
<1> QED
  BY <1>1, Invariance, PTL DEF Spec, DoneHasNoOpenBlocker

(* FR-TKT-014, FR-DEP-003, BR-13: rows that mention a deleted ticket are    *)
(* those the deletion of the project left, and those of overtaken POSTs.    *)
THEOREM DeletedAreForgotten == Spec => []DeletedIsMentionedInKeptRows
<1>1. Inv => DeletedIsMentionedInKeptRows
  BY DEF Inv
<1> QED
  BY <1>1, Invariance, PTL

(* FR-TKT-013: of the dependencies between active tickets, the purge of a   *)
(* DELETE takes only those that came up after the DELETE had counted.       *)
THEOREM LiveDependenciesStay == Spec => DeleteDropsNoLiveDependency
<1>1. Inv /\ [Next]_vars => [NoLiveDependencyGoes]_vars
  <2> SUFFICES ASSUME Inv, [Next]_vars, NEW r \in Reqs,
                      At(r, "marked", "delete"), req'[r].pc = "idle",
                      NEW d \in deps \ deps', Active(d[1]), Active(d[2])
               PROVE  d \in added[r] \/ {d[1], d[2]} \cap turned[r] # {}
    BY DEF NoLiveDependencyGoes
  <2>1. d[1] \in Tickets /\ d[2] \in Tickets /\ d = <<d[1], d[2]>>
    BY DEF Inv, Placed, TypeOK, Rows
  <2>2. req[r].t \in {d[1], d[2]}
    <3>1. PICK q \in Reqs : Step(q)
      BY DEF vars, Next, At
    <3>2. q = r
      <4>1. \A p \in Reqs \ {q} : req'[p] = req[p]
        BY <3>1 DEF Inv, Placed, TypeOK, Step, Begin, Looking, Writing, GiveUp, Finish, Start,
           Move, PatchLock, DeleteFind, Restore, EscalationFind, AddFindTicket, RemoveFind,
           ProjectFind, PatchProject, PatchGate, DeleteCountBlockers, DeleteCountDependents,
           RestoreFindProject, ProjectDeleteList, ProjectRestoreList, ProjectList,
           AddFindBlocker, AddLook, PatchCommit, DeleteMark, DeleteCommit, RestoreWrite,
           RestoreUnmark, CascadeUpdate, ProjectDeleteCommit, ProjectRestoreCommit,
           CascadeCommit, AddInsert, RemoveDelete, EscalationSave
      <4> QED
        BY <4>1 DEF At
    <3>3. DeleteCommit(r) \/ deps' = deps
      BY <3>1, <3>2 DEF At, Step, Begin, Looking, Writing, GiveUp, Start,
         PatchLock, DeleteFind, Restore, EscalationFind, AddFindTicket, RemoveFind,
         ProjectFind, PatchProject, PatchGate, DeleteCountBlockers, DeleteCountDependents,
         RestoreFindProject, ProjectDeleteList, ProjectRestoreList, ProjectList,
         AddFindBlocker, AddLook, PatchCommit, DeleteMark, RestoreWrite,
         RestoreUnmark, CascadeUpdate, ProjectDeleteCommit, ProjectRestoreCommit,
         CascadeCommit, AddInsert, RemoveDelete, EscalationSave
    <3> QED
      BY <3>3 DEF DeleteCommit, Mentioning
  <2>3. Busy(r, "delete") /\ HandlerIsRight(r) /\ req[r].pc = "marked"
    BY DEF Inv, At, Busy
  <2>4. CASE req[r].t = d[1]
    BY <2>1, <2>3, <2>4 DEF HandlerIsRight, BlockersOf
  <2>5. CASE req[r].t = d[2]
    BY <2>1, <2>3, <2>5 DEF HandlerIsRight, DependentsOf
  <2> QED
    BY <2>2, <2>4, <2>5
<1> QED
  BY <1>1, Invariance, PTL DEF Spec, DeleteDropsNoLiveDependency
=============================================================================
