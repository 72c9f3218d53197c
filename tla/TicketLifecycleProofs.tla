----------------------- MODULE TicketLifecycleProofs -----------------------
(* Theorems about TicketLifecycle and its ladder for any number of tickets, *)
(* handlers and escalation runs, any set of PATCH bodies and any clock      *)
(* bound.                                                                   *)
EXTENDS TicketLadder, TLAPS

(* What a transaction has written but not committed is what its own rules   *)
(* allow for the row it locked: an accepted edit of an active ticket, or    *)
(* the row with deletedAt set.  A handler or a run inside its work is about *)
(* a ticket that exists, and a run writes back only rows it saw active.     *)
AcceptedEdit(old, new) ==
    /\ old.life = "active"
    /\ \E edit \in Edits : EditAccepted(old, edit) /\ new = Edited(old, edit)

HandlerIsJustified(r) ==
    LET h == req[r]
    IN  /\ h.pc # "idle" => h.t \in Tickets /\ row[h.t].life # "absent"
        /\ h.pc = "locked" => h.op = "UPDATE" /\ h.snap \in Row
                              /\ h.snap.life = "active"
        /\ h.pc = "checked" => h.op = "SOFT_DELETE"
        /\ h.pc \in {"written", "audited"} =>
              /\ h.snap \in Row
              /\ h.new \in Row
              /\ \/ h.op = "UPDATE" /\ AcceptedEdit(h.snap, h.new)
                 \/ h.op = "SOFT_DELETE" /\ h.new = [h.snap EXCEPT !.life = "deleted"]
        /\ h.pc = "audited" => h.op \in audit[h.t]

RunIsJustified(j) ==
    LET run == job[j]
    IN  /\ \A t \in Tickets : run.batch[t] # NoRow =>
              run.batch[t].life = "active" /\ row[t].life # "absent"
        /\ run.pc \in {"loaded", "saved"} => run.t \in Tickets
        /\ run.pc = "loaded" =>
              /\ run.base \in Row /\ run.base.life # "absent"
              /\ run.new \in Row /\ run.new.life = "active"
              /\ row[run.t].life # "absent"

PendingWritesAreJustified ==
    /\ \A r \in Reqs : HandlerIsJustified(r)
    /\ \A j \in Jobs : RunIsJustified(j)

Inv ==
    /\ TypeOK
    /\ LockDiscipline
    /\ LockedSnapshotIsCurrent
    /\ PendingWritesAreJustified
    /\ DeletionIsAudited

LEMMA EditedIsRow ==
    ASSUME NEW old \in Row, NEW edit \in Edit
    PROVE  Edited(old, edit) \in Row /\ Edited(old, edit).life = old.life
BY DEF Edited, Row, Edit

LEMMA LifeChangeIsRow ==
    ASSUME NEW old \in Row, NEW life \in {"absent", "active", "deleted"}
    PROVE  [old EXCEPT !.life = life] \in Row
BY DEF Row

LEMMA AcceptedMovesForward ==
    ASSUME NEW old \in Row, NEW edit \in Edit, EditAccepted(old, edit)
    PROVE  Forward(old, Edited(old, edit)) /\ old.status # "DONE"
BY DEF Edited, Row, Edit, Forward, EditAccepted, NotDone, ValidTransition,
       Statuses, StatusOrder

LEMMA EscalatedIsRow ==
    ASSUME NEW old \in Row
    PROVE  Escalated(old) \in Row /\ Escalated(old).life = old.life
<1>1. old.priority \in Priorities /\ old.priority # "CRITICAL" =>
        NextRung[old.priority] \in Priorities
  BY DEF Priorities, NextRung
<1>2. CASE old.priority = "CRITICAL"
  BY <1>2 DEF Escalated, Row
<1>3. CASE old.priority # "CRITICAL"
  BY <1>1, <1>3 DEF Escalated, Row
<1> QED
  BY <1>2, <1>3

LEMMA DiffUpdateIsRow ==
    ASSUME NEW current \in Row, NEW base \in Row, NEW new \in Row
    PROVE  /\ DiffUpdate(current, base, new) \in Row
           /\ DiffUpdate(current, base, new).life \in {current.life, new.life}
BY DEF DiffUpdate, Row

LEMMA InitInv == Init => Inv
<1> SUFFICES ASSUME Init PROVE Inv
  OBVIOUS
<1> USE RulesAssumption, LifecycleAssumption DEF Init
<1>1. TypeOK
  BY DEF TypeOK, Row, Handler, Run, AbsentRow, IdleHandler, IdleRun, EmptyBatch,
         Times, Dues, Statuses, Priorities, Operations
<1>2. LockDiscipline /\ LockedSnapshotIsCurrent
  BY DEF LockDiscipline, LockedSnapshotIsCurrent, Holds, IdleHandler
<1>3. PendingWritesAreJustified
  BY DEF PendingWritesAreJustified, HandlerIsJustified, RunIsJustified,
         IdleHandler, IdleRun, EmptyBatch
<1>4. DeletionIsAudited
  BY DEF DeletionIsAudited, AbsentRow
<1> QED
  BY <1>1, <1>2, <1>3, <1>4 DEF Inv

LEMMA StepInv == Inv /\ [Next]_vars => Inv'
<1> SUFFICES ASSUME Inv, [Next]_vars PROVE Inv'
  OBVIOUS
<1> USE RulesAssumption, LifecycleAssumption DEF Inv
<1>1. ASSUME NEW r \in Reqs, NEW t \in Tickets, Create(r, t) PROVE Inv'
  <2> USE <1>1 DEF Create
  <2>1. TypeOK'
    <3> DEFINE next == [req[r] EXCEPT !.pc = "created", !.op = "CREATE", !.t = t]
    <3>1. req[r] \in Handler
      BY DEF TypeOK
    <3>2. next \in Handler
      BY <3>1 DEF TypeOK, Handler, Operations
    <3>3. req' = [req EXCEPT ![r] = next]
      OBVIOUS
    <3> HIDE DEF next
    <3>4. row' \in [Tickets -> Row]
      BY DEF TypeOK
    <3> QED
      BY <3>2, <3>3, <3>4 DEF TypeOK, Operations
  <2>2. LockDiscipline'
    BY DEF TypeOK, Handler, LockDiscipline, Holds
  <2>3. LockedSnapshotIsCurrent'
    <3>1. \A q \in Reqs : ~Holds(q, t)
      BY DEF Holds, PendingWritesAreJustified, HandlerIsJustified
    <3> QED
      BY <3>1 DEF TypeOK, LockedSnapshotIsCurrent, Holds
  <2>4. PendingWritesAreJustified'
    BY DEF TypeOK, Handler, Run, PendingWritesAreJustified, HandlerIsJustified,
           RunIsJustified
  <2>5. DeletionIsAudited'
    BY DEF TypeOK, Handler, DeletionIsAudited
  <2> QED
    BY <2>1, <2>2, <2>3, <2>4, <2>5
<1>2. ASSUME NEW r \in Reqs, NEW t \in Tickets, PatchLock(r, t) PROVE Inv'
  <2> USE <1>2 DEF PatchLock, Unlocked
  <2>1. TypeOK'
    <3> DEFINE next == [req[r] EXCEPT !.pc = "locked", !.op = "UPDATE", !.t = t,
                                 !.snap = row[t]]
    <3>1. req[r] \in Handler
      BY DEF TypeOK
    <3>2. next \in Handler
      BY <3>1 DEF TypeOK, Handler, Operations
    <3>3. req' = [req EXCEPT ![r] = next]
      OBVIOUS
    <3> HIDE DEF next
    <3> QED
      BY <3>2, <3>3 DEF TypeOK
  <2>2. LockDiscipline'
    BY DEF TypeOK, Handler, LockDiscipline, Holds
  <2>3. LockedSnapshotIsCurrent'
    BY DEF TypeOK, Handler, LockDiscipline, LockedSnapshotIsCurrent, Holds
  <2>4. PendingWritesAreJustified'
    BY DEF TypeOK, Handler, Run, PendingWritesAreJustified, HandlerIsJustified,
           RunIsJustified
  <2>5. DeletionIsAudited'
    BY DEF TypeOK, Handler, DeletionIsAudited
  <2> QED
    BY <2>1, <2>2, <2>3, <2>4, <2>5
<1>3. ASSUME NEW r \in Reqs, NEW t \in Tickets, DeleteCheck(r, t) PROVE Inv'
  <2> USE <1>3 DEF DeleteCheck
  <2>1. TypeOK'
    <3> DEFINE next == [req[r] EXCEPT !.pc = "checked", !.op = "SOFT_DELETE", !.t = t]
    <3>1. req[r] \in Handler
      BY DEF TypeOK
    <3>2. next \in Handler
      BY <3>1 DEF TypeOK, Handler, Operations
    <3>3. req' = [req EXCEPT ![r] = next]
      OBVIOUS
    <3> HIDE DEF next
    <3> QED
      BY <3>2, <3>3 DEF TypeOK
  <2>2. LockDiscipline'
    BY DEF TypeOK, Handler, LockDiscipline, Holds
  <2>3. LockedSnapshotIsCurrent'
    BY DEF TypeOK, Handler, LockDiscipline, LockedSnapshotIsCurrent, Holds
  <2>4. PendingWritesAreJustified'
    BY DEF TypeOK, Handler, Run, PendingWritesAreJustified, HandlerIsJustified,
           RunIsJustified
  <2>5. DeletionIsAudited'
    BY DEF TypeOK, Handler, DeletionIsAudited
  <2> QED
    BY <2>1, <2>2, <2>3, <2>4, <2>5
<1>4. ASSUME NEW r \in Reqs, NEW t \in Tickets, RestoreFind(r, t) PROVE Inv'
  <2> USE <1>4 DEF RestoreFind
  <2>1. TypeOK'
    <3> DEFINE next == [req[r] EXCEPT !.pc = "found", !.op = "RESTORE", !.t = t]
    <3>1. req[r] \in Handler
      BY DEF TypeOK
    <3>2. next \in Handler
      BY <3>1 DEF TypeOK, Handler, Operations
    <3>3. req' = [req EXCEPT ![r] = next]
      OBVIOUS
    <3> HIDE DEF next
    <3> QED
      BY <3>2, <3>3 DEF TypeOK
  <2>2. LockDiscipline'
    BY DEF TypeOK, Handler, LockDiscipline, Holds
  <2>3. LockedSnapshotIsCurrent'
    BY DEF TypeOK, Handler, LockDiscipline, LockedSnapshotIsCurrent, Holds
  <2>4. PendingWritesAreJustified'
    BY DEF TypeOK, Handler, Run, PendingWritesAreJustified, HandlerIsJustified,
           RunIsJustified
  <2>5. DeletionIsAudited'
    BY DEF TypeOK, Handler, DeletionIsAudited
  <2> QED
    BY <2>1, <2>2, <2>3, <2>4, <2>5
<1>5. ASSUME NEW r \in Reqs, PatchSave(r) PROVE Inv'
  <2> USE <1>5 DEF PatchSave
  <2>1. TypeOK'
    <3>1. req[r] \in Handler /\ req[r].snap \in Row
      BY DEF TypeOK, PendingWritesAreJustified, HandlerIsJustified
    <3>2. PICK edit \in Edits :
            req' = [req EXCEPT ![r] = [req[r] EXCEPT !.pc = "written",
                                         !.new = Edited(req[r].snap, edit)]]
      OBVIOUS
    <3>3. Edited(req[r].snap, edit) \in Row
      BY <3>1, EditedIsRow
    <3>4. [req[r] EXCEPT !.pc = "written", !.new = Edited(req[r].snap, edit)] \in Handler
      BY <3>1, <3>3 DEF Handler
    <3> QED
      BY <3>2, <3>4 DEF TypeOK
  <2>2. LockDiscipline'
    BY DEF TypeOK, Handler, LockDiscipline, Holds
  <2>3. LockedSnapshotIsCurrent'
    BY DEF TypeOK, Handler, LockDiscipline, LockedSnapshotIsCurrent, Holds
  <2>4. PendingWritesAreJustified'
    <3>1. req[r] \in Handler /\ req[r].snap \in Row /\ req[r].snap.life = "active"
          /\ req[r].op = "UPDATE" /\ req[r].t \in Tickets
      BY DEF TypeOK, PendingWritesAreJustified, HandlerIsJustified
    <3>2. PICK edit \in Edits :
            /\ EditAccepted(req[r].snap, edit)
            /\ req' = [req EXCEPT ![r] = [req[r] EXCEPT !.pc = "written",
                                            !.new = Edited(req[r].snap, edit)]]
      OBVIOUS
    <3>3. Edited(req[r].snap, edit) \in Row
      BY <3>1, EditedIsRow
    <3>4. AcceptedEdit(req[r].snap, Edited(req[r].snap, edit))
      BY <3>1, <3>2 DEF AcceptedEdit
    <3>5. /\ req'[r].pc = "written" /\ req'[r].op = "UPDATE" /\ req'[r].t = req[r].t
          /\ req'[r].snap = req[r].snap /\ req'[r].new = Edited(req[r].snap, edit)
      BY <3>1, <3>2 DEF TypeOK, Handler
    <3>6. HandlerIsJustified(r)'
      BY <3>1, <3>3, <3>4, <3>5 DEF PendingWritesAreJustified, HandlerIsJustified
    <3>7. \A q \in Reqs \ {r} : HandlerIsJustified(q)'
      BY <3>2 DEF TypeOK, PendingWritesAreJustified, HandlerIsJustified
    <3> QED
      BY <3>6, <3>7 DEF PendingWritesAreJustified, RunIsJustified
  <2>5. DeletionIsAudited'
    BY DEF TypeOK, Handler, DeletionIsAudited
  <2> QED
    BY <2>1, <2>2, <2>3, <2>4, <2>5
<1>6. ASSUME NEW r \in Reqs, PatchRefuse(r) PROVE Inv'
  <2> USE <1>6 DEF PatchRefuse, Finish, Release, IdleHandler
  <2>1. TypeOK'
    BY DEF TypeOK, Handler, Run, Operations, Times
  <2>2. LockDiscipline'
    BY DEF TypeOK, Handler, LockDiscipline, Holds
  <2>3. LockedSnapshotIsCurrent'
    BY DEF TypeOK, Handler, LockDiscipline, LockedSnapshotIsCurrent, Holds
  <2>4. PendingWritesAreJustified'
    BY DEF TypeOK, Handler, Run, PendingWritesAreJustified, HandlerIsJustified,
           RunIsJustified
  <2>5. DeletionIsAudited'
    BY DEF TypeOK, Handler, DeletionIsAudited
  <2> QED
    BY <2>1, <2>2, <2>3, <2>4, <2>5
<1>7. ASSUME NEW r \in Reqs, DeleteWrite(r) PROVE Inv'
  <2> USE <1>7 DEF DeleteWrite, Unlocked
  <2>1. TypeOK'
    <3> DEFINE gone == [row[req[r].t] EXCEPT !.life = "deleted"]
               next == [req[r] EXCEPT !.pc = "written", !.snap = row[req[r].t],
                                      !.new = gone]
    <3>1. req[r] \in Handler /\ req[r].t \in Tickets /\ row[req[r].t] \in Row
      BY DEF TypeOK, PendingWritesAreJustified, HandlerIsJustified
    <3>2. gone \in Row
      BY <3>1, LifeChangeIsRow
    <3>3. next \in Handler
      BY <3>1, <3>2 DEF Handler
    <3>4. req' = [req EXCEPT ![r] = next]
      OBVIOUS
    <3> HIDE DEF next
    <3> QED
      BY <3>1, <3>3, <3>4 DEF TypeOK
  <2>2. LockDiscipline'
    BY DEF TypeOK, Handler, LockDiscipline, Holds
  <2>3. LockedSnapshotIsCurrent'
    BY DEF TypeOK, Handler, LockDiscipline, LockedSnapshotIsCurrent, Holds
  <2>4. PendingWritesAreJustified'
    <3> DEFINE gone == [row[req[r].t] EXCEPT !.life = "deleted"]
    <3>1. req[r] \in Handler /\ req[r].t \in Tickets /\ row[req[r].t] \in Row
          /\ req[r].op = "SOFT_DELETE" /\ row[req[r].t].life # "absent"
      BY DEF TypeOK, PendingWritesAreJustified, HandlerIsJustified
    <3>2. gone \in Row
      BY <3>1, LifeChangeIsRow
    <3>3. /\ req'[r].pc = "written" /\ req'[r].op = "SOFT_DELETE"
          /\ req'[r].t = req[r].t /\ req'[r].snap = row[req[r].t]
          /\ req'[r].new = gone
      BY <3>1 DEF TypeOK, Handler
    <3>4. HandlerIsJustified(r)'
      BY <3>1, <3>2, <3>3 DEF PendingWritesAreJustified, HandlerIsJustified
    <3>5. \A q \in Reqs \ {r} : HandlerIsJustified(q)'
      BY DEF TypeOK, PendingWritesAreJustified, HandlerIsJustified
    <3> QED
      BY <3>4, <3>5 DEF PendingWritesAreJustified, RunIsJustified
  <2>5. DeletionIsAudited'
    BY DEF TypeOK, Handler, DeletionIsAudited
  <2> QED
    BY <2>1, <2>2, <2>3, <2>4, <2>5
<1>8. ASSUME NEW r \in Reqs, RestoreWrite(r) PROVE Inv'
  <2> USE <1>8 DEF RestoreWrite, Unlocked
  <2>1. TypeOK'
    <3> DEFINE next == [req[r] EXCEPT !.pc = "restored"]
    <3>1. req[r] \in Handler /\ req[r].t \in Tickets /\ row[req[r].t] \in Row
      BY DEF TypeOK, PendingWritesAreJustified, HandlerIsJustified
    <3>2. next \in Handler
      BY <3>1 DEF Handler
    <3>3. req' = [req EXCEPT ![r] = next]
      OBVIOUS
    <3>4. [row[req[r].t] EXCEPT !.life = "active"] \in Row
      BY <3>1, LifeChangeIsRow
    <3>5. row' = [row EXCEPT ![req[r].t] = [row[req[r].t] EXCEPT !.life = "active"]]
      OBVIOUS
    <3> HIDE DEF next
    <3> QED
      BY <3>1, <3>2, <3>3, <3>4, <3>5 DEF TypeOK
  <2>2. LockDiscipline'
    BY DEF TypeOK, Handler, LockDiscipline, Holds
  <2>3. LockedSnapshotIsCurrent'
    BY DEF TypeOK, Handler, LockDiscipline, LockedSnapshotIsCurrent, Holds
  <2>4. PendingWritesAreJustified'
    BY DEF TypeOK, Handler, Run, PendingWritesAreJustified, HandlerIsJustified,
           RunIsJustified
  <2>5. DeletionIsAudited'
    BY DEF TypeOK, Handler, DeletionIsAudited
  <2> QED
    BY <2>1, <2>2, <2>3, <2>4, <2>5
<1>9. ASSUME NEW r \in Reqs, Refuse(r) PROVE Inv'
  <2> USE <1>9 DEF Refuse, Finish, Release, IdleHandler
  <2>1. TypeOK'
    BY DEF TypeOK, Handler, Run, Operations, Times
  <2>2. LockDiscipline'
    BY DEF TypeOK, Handler, LockDiscipline, Holds
  <2>3. LockedSnapshotIsCurrent'
    BY DEF TypeOK, Handler, LockDiscipline, LockedSnapshotIsCurrent, Holds
  <2>4. PendingWritesAreJustified'
    BY DEF TypeOK, Handler, Run, PendingWritesAreJustified, HandlerIsJustified,
           RunIsJustified
  <2>5. DeletionIsAudited'
    BY DEF TypeOK, Handler, DeletionIsAudited
  <2> QED
    BY <2>1, <2>2, <2>3, <2>4, <2>5
<1>10. ASSUME NEW r \in Reqs, Audit(r) PROVE Inv'
  <2> USE <1>10 DEF Audit, IdleHandler
  <2>1. TypeOK'
    <3>1. req[r] \in Handler /\ req[r].t \in Tickets /\ req[r].op \in Operations
      BY DEF TypeOK, PendingWritesAreJustified, HandlerIsJustified, Handler
    <3>2. [req[r] EXCEPT !.pc = "audited"] \in Handler
      BY <3>1 DEF Handler
    <3>3. IdleHandler \in Handler
      BY DEF Handler, Operations
    <3>4. req' \in [Reqs -> Handler]
      BY <3>2, <3>3 DEF TypeOK
    <3>5. audit' \in [Tickets -> SUBSET (Operations \cup {"ESCALATE"})]
      BY <3>1 DEF TypeOK
    <3> QED
      BY <3>4, <3>5 DEF TypeOK
  <2>2. LockDiscipline'
    BY DEF TypeOK, Handler, LockDiscipline, Holds
  <2>3. LockedSnapshotIsCurrent'
    BY DEF TypeOK, Handler, LockDiscipline, LockedSnapshotIsCurrent, Holds
  <2>4. PendingWritesAreJustified'
    BY DEF TypeOK, Handler, Run, PendingWritesAreJustified, HandlerIsJustified,
           RunIsJustified
  <2>5. DeletionIsAudited'
    BY DEF TypeOK, Handler, DeletionIsAudited
  <2> QED
    BY <2>1, <2>2, <2>3, <2>4, <2>5
<1>11. ASSUME NEW r \in Reqs, Commit(r) PROVE Inv'
  <2> USE <1>11 DEF Commit, ReadyToCommit, Finish, Release, IdleHandler
  <2>1. TypeOK'
    <3>1. req[r].t \in Tickets /\ req[r].new \in Row
      BY DEF PendingWritesAreJustified, HandlerIsJustified
    <3>2. IdleHandler \in Handler
      BY DEF Handler, Operations
    <3>3. req' \in [Reqs -> Handler] /\ row' \in [Tickets -> Row]
      BY <3>1, <3>2 DEF TypeOK
    <3> QED
      BY <3>3 DEF TypeOK
  <2>2. LockDiscipline'
    BY DEF TypeOK, Handler, LockDiscipline, Holds
  <2>3. LockedSnapshotIsCurrent'
    BY DEF TypeOK, Handler, LockDiscipline, LockedSnapshotIsCurrent, Holds
  <2>4. PendingWritesAreJustified'
    <3>1. /\ req[r].t \in Tickets /\ req[r].new \in Row
          /\ row[req[r].t].life # "absent" => req[r].new.life # "absent"
      <4>1. CASE req[r].op = "UPDATE"
        <5>1. PICK edit \in Edits : req[r].new = Edited(req[r].snap, edit)
          BY <4>1 DEF PendingWritesAreJustified, HandlerIsJustified, AcceptedEdit
        <5>2. req[r].snap \in Row /\ req[r].snap.life = "active"
          BY <4>1 DEF PendingWritesAreJustified, HandlerIsJustified, AcceptedEdit
        <5>3. Edited(req[r].snap, edit) \in Row
              /\ Edited(req[r].snap, edit).life = "active"
          BY <5>2, EditedIsRow
        <5>4. req[r].t \in Tickets
          BY DEF PendingWritesAreJustified, HandlerIsJustified
        <5> QED
          BY <5>1, <5>3, <5>4
      <4>2. CASE req[r].op = "SOFT_DELETE"
        BY <4>2 DEF PendingWritesAreJustified, HandlerIsJustified, Row
      <4> QED
        BY <4>1, <4>2 DEF PendingWritesAreJustified, HandlerIsJustified
    <3>2. \A t \in Tickets : row[t].life # "absent" => row'[t].life # "absent"
      BY <3>1 DEF TypeOK
    <3>3. \A q \in Reqs : HandlerIsJustified(q)'
      BY <3>2 DEF TypeOK, PendingWritesAreJustified, HandlerIsJustified
    <3>4. \A j \in Jobs : RunIsJustified(j)'
      BY <3>2 DEF TypeOK, Run, PendingWritesAreJustified, RunIsJustified
    <3> QED
      BY <3>3, <3>4 DEF PendingWritesAreJustified
  <2>5. DeletionIsAudited'
    <3>1. /\ req[r].t \in Tickets /\ req[r].new \in Row
          /\ req[r].new.life = "deleted" => "SOFT_DELETE" \in audit[req[r].t]
      <4>1. CASE req[r].op = "UPDATE"
        <5>1. PICK edit \in Edits : req[r].new = Edited(req[r].snap, edit)
          BY <4>1 DEF PendingWritesAreJustified, HandlerIsJustified, AcceptedEdit
        <5>2. req[r].snap \in Row /\ req[r].snap.life = "active"
          BY <4>1 DEF PendingWritesAreJustified, HandlerIsJustified, AcceptedEdit
        <5>3. Edited(req[r].snap, edit) \in Row
              /\ Edited(req[r].snap, edit).life = "active"
          BY <5>2, EditedIsRow
        <5>4. req[r].t \in Tickets
          BY DEF PendingWritesAreJustified, HandlerIsJustified
        <5> QED
          BY <5>1, <5>3, <5>4
      <4>2. CASE req[r].op = "SOFT_DELETE"
        BY <4>2 DEF PendingWritesAreJustified, HandlerIsJustified
      <4> QED
        BY <4>1, <4>2 DEF PendingWritesAreJustified, HandlerIsJustified
    <3> QED
      BY <3>1 DEF TypeOK, DeletionIsAudited
  <2> QED
    BY <2>1, <2>2, <2>3, <2>4, <2>5
<1>12. ASSUME NEW r \in Reqs, Fail(r) PROVE Inv'
  <2> USE <1>12 DEF Fail, Finish, Release, IdleHandler
  <2>1. TypeOK'
    BY DEF TypeOK, Handler, Run, Operations, Times
  <2>2. LockDiscipline'
    BY DEF TypeOK, Handler, LockDiscipline, Holds
  <2>3. LockedSnapshotIsCurrent'
    BY DEF TypeOK, Handler, LockDiscipline, LockedSnapshotIsCurrent, Holds
  <2>4. PendingWritesAreJustified'
    BY DEF TypeOK, Handler, Run, PendingWritesAreJustified, HandlerIsJustified,
           RunIsJustified
  <2>5. DeletionIsAudited'
    BY DEF TypeOK, Handler, DeletionIsAudited
  <2> QED
    BY <2>1, <2>2, <2>3, <2>4, <2>5
<1>13. ASSUME NEW j \in Jobs, JobStart(j) PROVE Inv'
  <2> USE <1>13 DEF JobStart
  <2>1. TypeOK'
    <3> DEFINE next == [job[j] EXCEPT !.pc = "started", !.now = clock]
    <3>1. job[j] \in Run
      BY DEF TypeOK
    <3>2. next \in Run
      BY <3>1 DEF TypeOK, Run
    <3>3. job' = [job EXCEPT ![j] = next]
      OBVIOUS
    <3> HIDE DEF next
    <3> QED
      BY <3>2, <3>3 DEF TypeOK
  <2>2. LockDiscipline'
    BY DEF TypeOK, Handler, LockDiscipline, Holds
  <2>3. LockedSnapshotIsCurrent'
    BY DEF TypeOK, Handler, LockDiscipline, LockedSnapshotIsCurrent, Holds
  <2>4. PendingWritesAreJustified'
    BY DEF TypeOK, Handler, Run, PendingWritesAreJustified, HandlerIsJustified,
           RunIsJustified
  <2>5. DeletionIsAudited'
    BY DEF TypeOK, Handler, DeletionIsAudited
  <2> QED
    BY <2>1, <2>2, <2>3, <2>4, <2>5
<1>14. ASSUME NEW j \in Jobs, JobFind(j) PROVE Inv'
  <2> USE <1>14 DEF JobFind, Overdue
  <2>1. TypeOK'
    <3> DEFINE next == [job[j] EXCEPT !.pc = "loop",
                 !.batch = [t \in Tickets |->
                    IF Overdue(row[t], job[j].now) THEN row[t] ELSE NoRow]]
    <3>1. job[j] \in Run
      BY DEF TypeOK
    <3>2. next \in Run
      BY <3>1 DEF TypeOK, Run
    <3>3. job' = [job EXCEPT ![j] = next]
      OBVIOUS
    <3> HIDE DEF next
    <3> QED
      BY <3>2, <3>3 DEF TypeOK
  <2>2. LockDiscipline'
    BY DEF TypeOK, Handler, LockDiscipline, Holds
  <2>3. LockedSnapshotIsCurrent'
    BY DEF TypeOK, Handler, LockDiscipline, LockedSnapshotIsCurrent, Holds
  <2>4. PendingWritesAreJustified'
    BY DEF TypeOK, Handler, Run, PendingWritesAreJustified, HandlerIsJustified,
           RunIsJustified
  <2>5. DeletionIsAudited'
    BY DEF TypeOK, Handler, DeletionIsAudited
  <2> QED
    BY <2>1, <2>2, <2>3, <2>4, <2>5
<1>15. ASSUME NEW j \in Jobs, NEW t \in Tickets, JobLoad(j, t) PROVE Inv'
  <2> USE <1>15 DEF JobLoad
  <2>1. TypeOK'
    <3> DEFINE next == [job[j] EXCEPT !.pc = "loaded", !.t = t, !.base = row[t],
                          !.new = Escalated(job[j].batch[t]),
                          !.batch = [job[j].batch EXCEPT ![t] = NoRow]]
    <3>1. job[j] \in Run /\ row[t] \in Row /\ job[j].batch \in [Tickets -> Row \cup {NoRow}]
      BY DEF TypeOK, Run
    <3>2. Escalated(job[j].batch[t]) \in Row
      BY <3>1, EscalatedIsRow
    <3>3. next \in Run
      BY <3>1, <3>2 DEF Run
    <3>4. job' = [job EXCEPT ![j] = next]
      OBVIOUS
    <3> HIDE DEF next
    <3> QED
      BY <3>3, <3>4 DEF TypeOK
  <2>2. LockDiscipline'
    BY DEF TypeOK, Handler, LockDiscipline, Holds
  <2>3. LockedSnapshotIsCurrent'
    BY DEF TypeOK, Handler, LockDiscipline, LockedSnapshotIsCurrent, Holds
  <2>4. PendingWritesAreJustified'
    <3>1. /\ job[j] \in Run /\ row[t] \in Row /\ job[j].batch[t] \in Row
          /\ job[j].batch[t].life = "active" /\ row[t].life # "absent"
      BY DEF TypeOK, Run, PendingWritesAreJustified, RunIsJustified
    <3>2. /\ Escalated(job[j].batch[t]) \in Row
          /\ Escalated(job[j].batch[t]).life = "active"
      BY <3>1, EscalatedIsRow
    <3>3. /\ job'[j].pc = "loaded" /\ job'[j].t = t /\ job'[j].base = row[t]
          /\ job'[j].new = Escalated(job[j].batch[t])
          /\ job'[j].batch = [job[j].batch EXCEPT ![t] = NoRow]
      BY <3>1 DEF TypeOK, Run
    <3>4. \A u \in Tickets : job'[j].batch[u] \in {job[j].batch[u], NoRow}
      BY <3>1, <3>3 DEF Run
    <3>5. RunIsJustified(j)'
      BY <3>1, <3>2, <3>3, <3>4 DEF PendingWritesAreJustified, RunIsJustified
    <3>6. \A k \in Jobs \ {j} : RunIsJustified(k)'
      BY DEF TypeOK, PendingWritesAreJustified, RunIsJustified
    <3> QED
      BY <3>5, <3>6 DEF PendingWritesAreJustified, HandlerIsJustified
  <2>5. DeletionIsAudited'
    BY DEF TypeOK, Handler, DeletionIsAudited
  <2> QED
    BY <2>1, <2>2, <2>3, <2>4, <2>5
<1>16. ASSUME NEW j \in Jobs, JobUpdate(j) PROVE Inv'
  <2> USE <1>16 DEF JobUpdate, Unlocked
  <2>1. TypeOK'
    <3> DEFINE written == DiffUpdate(row[job[j].t], job[j].base, job[j].new)
    <3>1. /\ job[j] \in Run /\ job[j].t \in Tickets /\ row[job[j].t] \in Row
          /\ job[j].base \in Row /\ job[j].new \in Row /\ job[j].new.life = "active"
      BY DEF TypeOK, PendingWritesAreJustified, RunIsJustified
    <3>2. /\ written \in Row
          /\ written.life \in {row[job[j].t].life, "active"}
      BY <3>1, DiffUpdateIsRow
    <3>3. row' = [row EXCEPT ![job[j].t] = written]
      OBVIOUS
    <3>4. [job[j] EXCEPT !.pc = "saved"] \in Run
      BY <3>1 DEF Run
    <3> HIDE DEF written
    <3> QED
      BY <3>1, <3>2, <3>3, <3>4 DEF TypeOK
  <2>2. LockDiscipline'
    BY DEF TypeOK, Handler, LockDiscipline, Holds
  <2>3. LockedSnapshotIsCurrent'
    <3>1. CASE Unlocked(job[j].t)
      <4>1. \A r \in Reqs : ~Holds(r, job[j].t)
        BY <3>1 DEF TypeOK, LockDiscipline, PendingWritesAreJustified, RunIsJustified
      <4> QED
        BY <4>1 DEF TypeOK, LockedSnapshotIsCurrent, Holds
    <3>2. CASE job[j].new = job[j].base
      <4>1. job[j].t \in Tickets /\ row[job[j].t] \in Row
        BY DEF TypeOK, PendingWritesAreJustified, RunIsJustified
      <4>2. DiffUpdate(row[job[j].t], job[j].base, job[j].new) = row[job[j].t]
        BY <3>2, <4>1 DEF DiffUpdate, Row
      <4>3. row' = row
        BY <4>1, <4>2 DEF TypeOK
      <4> QED
        BY <4>3 DEF LockedSnapshotIsCurrent, Holds
    <3> QED
      BY <3>1, <3>2
  <2>4. PendingWritesAreJustified'
    <3> DEFINE written == DiffUpdate(row[job[j].t], job[j].base, job[j].new)
    <3>1. /\ job[j] \in Run /\ job[j].t \in Tickets /\ row[job[j].t] \in Row
          /\ job[j].base \in Row /\ job[j].new \in Row /\ job[j].new.life = "active"
      BY DEF TypeOK, PendingWritesAreJustified, RunIsJustified
    <3>2. /\ written \in Row
          /\ written.life \in {row[job[j].t].life, "active"}
      BY <3>1, DiffUpdateIsRow
    <3>3. row' = [row EXCEPT ![job[j].t] = written]
      OBVIOUS
    <3> HIDE DEF written
    <3>4. \A t \in Tickets : row[t].life # "absent" => row'[t].life # "absent"
      BY <3>1, <3>2, <3>3 DEF TypeOK
    <3>5. \A r \in Reqs : HandlerIsJustified(r)'
      BY <3>4 DEF PendingWritesAreJustified, HandlerIsJustified
    <3>6. /\ job'[j].pc = "saved" /\ job'[j].t = job[j].t
          /\ job'[j].batch = job[j].batch
      BY <3>1 DEF TypeOK, Run
    <3>7. RunIsJustified(j)'
      BY <3>1, <3>4, <3>6 DEF PendingWritesAreJustified, RunIsJustified
    <3>8. \A k \in Jobs \ {j} : RunIsJustified(k)'
      BY <3>4 DEF TypeOK, Run, PendingWritesAreJustified, RunIsJustified
    <3> QED
      BY <3>5, <3>7, <3>8 DEF PendingWritesAreJustified
  <2>5. DeletionIsAudited'
    <3> DEFINE written == DiffUpdate(row[job[j].t], job[j].base, job[j].new)
    <3>1. /\ job[j] \in Run /\ job[j].t \in Tickets /\ row[job[j].t] \in Row
          /\ job[j].base \in Row /\ job[j].new \in Row /\ job[j].new.life = "active"
      BY DEF TypeOK, PendingWritesAreJustified, RunIsJustified
    <3>2. /\ written \in Row
          /\ written.life \in {row[job[j].t].life, "active"}
      BY <3>1, DiffUpdateIsRow
    <3>3. row' = [row EXCEPT ![job[j].t] = written]
      OBVIOUS
    <3> HIDE DEF written
    <3> QED
      BY <3>1, <3>2, <3>3 DEF TypeOK, DeletionIsAudited
  <2> QED
    BY <2>1, <2>2, <2>3, <2>4, <2>5
<1>17. ASSUME NEW j \in Jobs, JobAudit(j) PROVE Inv'
  <2> USE <1>17 DEF JobAudit
  <2>1. TypeOK'
    <3> DEFINE next == [job[j] EXCEPT !.pc = "loop", !.t = NoTicket,
                                      !.base = NoRow, !.new = NoRow]
    <3>1. job[j] \in Run /\ job[j].t \in Tickets
      BY DEF TypeOK, PendingWritesAreJustified, RunIsJustified
    <3>2. next \in Run
      BY <3>1 DEF Run
    <3>3. job' = [job EXCEPT ![j] = next]
      OBVIOUS
    <3> HIDE DEF next
    <3> QED
      BY <3>1, <3>2, <3>3 DEF TypeOK, Operations
  <2>2. LockDiscipline'
    BY DEF TypeOK, Handler, LockDiscipline, Holds
  <2>3. LockedSnapshotIsCurrent'
    BY DEF TypeOK, Handler, LockDiscipline, LockedSnapshotIsCurrent, Holds
  <2>4. PendingWritesAreJustified'
    BY DEF TypeOK, Handler, Run, PendingWritesAreJustified, HandlerIsJustified,
           RunIsJustified
  <2>5. DeletionIsAudited'
    BY DEF TypeOK, Handler, DeletionIsAudited
  <2> QED
    BY <2>1, <2>2, <2>3, <2>4, <2>5
<1>18. ASSUME NEW j \in Jobs, JobEnd(j) PROVE Inv'
  <2> USE <1>18 DEF JobEnd, IdleRun, EmptyBatch
  <2>1. TypeOK'
    BY DEF TypeOK, Handler, Run, Operations, Times
  <2>2. LockDiscipline'
    BY DEF TypeOK, Handler, LockDiscipline, Holds
  <2>3. LockedSnapshotIsCurrent'
    BY DEF TypeOK, Handler, LockDiscipline, LockedSnapshotIsCurrent, Holds
  <2>4. PendingWritesAreJustified'
    BY DEF TypeOK, Handler, Run, PendingWritesAreJustified, HandlerIsJustified,
           RunIsJustified
  <2>5. DeletionIsAudited'
    BY DEF TypeOK, Handler, DeletionIsAudited
  <2> QED
    BY <2>1, <2>2, <2>3, <2>4, <2>5
<1>19. ASSUME NEW j \in Jobs, JobFail(j) PROVE Inv'
  <2> USE <1>19 DEF JobFail, IdleRun, EmptyBatch
  <2>1. TypeOK'
    BY DEF TypeOK, Handler, Run, Operations, Times
  <2>2. LockDiscipline'
    BY DEF TypeOK, Handler, LockDiscipline, Holds
  <2>3. LockedSnapshotIsCurrent'
    BY DEF TypeOK, Handler, LockDiscipline, LockedSnapshotIsCurrent, Holds
  <2>4. PendingWritesAreJustified'
    BY DEF TypeOK, Handler, Run, PendingWritesAreJustified, HandlerIsJustified,
           RunIsJustified
  <2>5. DeletionIsAudited'
    BY DEF TypeOK, Handler, DeletionIsAudited
  <2> QED
    BY <2>1, <2>2, <2>3, <2>4, <2>5
<1>20. ASSUME Tick PROVE Inv'
  <2> USE <1>20 DEF Tick
  <2>1. TypeOK'
    BY DEF TypeOK, Handler, Run, Operations, Times
  <2>2. LockDiscipline'
    BY DEF TypeOK, Handler, LockDiscipline, Holds
  <2>3. LockedSnapshotIsCurrent'
    BY DEF TypeOK, Handler, LockDiscipline, LockedSnapshotIsCurrent, Holds
  <2>4. PendingWritesAreJustified'
    BY DEF TypeOK, Handler, Run, PendingWritesAreJustified, HandlerIsJustified,
           RunIsJustified
  <2>5. DeletionIsAudited'
    BY DEF TypeOK, Handler, DeletionIsAudited
  <2> QED
    BY <2>1, <2>2, <2>3, <2>4, <2>5
<1>21. CASE UNCHANGED vars
  BY <1>21 DEF vars, TypeOK, LockDiscipline, LockedSnapshotIsCurrent, Holds,
     PendingWritesAreJustified, HandlerIsJustified, RunIsJustified, DeletionIsAudited
<1> QED
  BY <1>1, <1>2, <1>3, <1>4, <1>5, <1>6, <1>7, <1>8, <1>9, <1>10, <1>11, <1>12, 
     <1>13, <1>14, <1>15, <1>16, <1>17, <1>18, <1>19, <1>20, <1>21
  DEF Next, HandlerStep, JobProgress

LEMMA Invariance == Spec => []Inv
BY InitInv, StepInv, PTL DEF Spec

(* Every variable keeps its type: in particular no escalated or edited row  *)
(* leaves the columns' domains, whatever interleaving produced it.          *)
THEOREM TypeCorrectness == Spec => []TypeOK
BY Invariance, PTL DEF Inv

(* Row locks exclude: at most one transaction edits a ticket, and as long as*)
(* it does, the row is the one it validated.                                *)
THEOREM LockExclusion == Spec => [](LockDiscipline /\ LockedSnapshotIsCurrent)
BY Invariance, PTL DEF Inv

(* No interleaving of handlers and runs, and no failure between statements, *)
(* leaves a soft-deleted ticket without its SOFT_DELETE audit row.          *)
THEOREM DeletionAudited == Spec => []DeletionIsAudited
BY Invariance, PTL DEF Inv

----------------------------------------------------------------------------
(* What Commit does to the row, as the lock invariant sees it.              *)
LEMMA CommitEffect ==
    ASSUME Inv, NEW r \in Reqs, Commit(r)
    PROVE  LET t == req[r].t
           IN  /\ t \in Tickets
               /\ lock[t] = r
               /\ lock'[t] = Free
               /\ row[t] \in Row
               /\ row' = [row EXCEPT ![t] = req[r].new]
               /\ \/ AcceptedEdit(row[t], req[r].new)
                  \/ req[r].new = [row[t] EXCEPT !.life = "deleted"]
               /\ row[t].life # "absent"
<1> USE DEF Inv, Commit, ReadyToCommit
<1>1. /\ req[r].t \in Tickets
      /\ row[req[r].t].life # "absent"
      /\ \/ AcceptedEdit(req[r].snap, req[r].new)
         \/ req[r].new = [req[r].snap EXCEPT !.life = "deleted"]
  BY DEF PendingWritesAreJustified, HandlerIsJustified
<1>2. lock[req[r].t] = r /\ row[req[r].t] = req[r].snap
  BY <1>1 DEF LockDiscipline, LockedSnapshotIsCurrent, Holds
<1>3. lock'[req[r].t] = Free
  BY <1>1, <1>2 DEF Finish, Release
<1> QED
  BY <1>1, <1>2, <1>3 DEF TypeOK

(* The other steps that write a row find it unlocked, or leave it.          *)
LEMMA OtherWritersWait ==
    ASSUME Inv, Next, NEW t \in Tickets, row'[t] # row[t],
           \A r \in Reqs : ~Commit(r)
    PROVE  lock[t] = Free
<1> USE DEF Inv
<1>1. ASSUME NEW r \in Reqs, NEW u \in Tickets, Create(r, u) PROVE lock[t] = Free
  <2>1. t = u
    BY <1>1 DEF Create, TypeOK
  <2>2. \A q \in Reqs : ~Holds(q, t)
    BY <1>1, <2>1 DEF Create, Holds, PendingWritesAreJustified, HandlerIsJustified
  <2> QED
    BY <2>2 DEF LockDiscipline, TypeOK
<1>2. ASSUME NEW r \in Reqs, RestoreWrite(r) PROVE lock[t] = Free
  BY <1>2 DEF RestoreWrite, Unlocked, TypeOK
<1>3. ASSUME NEW j \in Jobs, JobUpdate(j) PROVE lock[t] = Free
  <2>1. /\ job[j].t \in Tickets /\ row[job[j].t] \in Row
        /\ row' = [row EXCEPT ![job[j].t] =
                     DiffUpdate(row[job[j].t], job[j].base, job[j].new)]
    BY <1>3 DEF JobUpdate, TypeOK, PendingWritesAreJustified, RunIsJustified
  <2>2. t = job[j].t
    BY <2>1 DEF TypeOK
  <2>3. job[j].new # job[j].base
    BY <2>1, <2>2 DEF DiffUpdate, Row, TypeOK
  <2> QED
    BY <1>3, <2>2, <2>3 DEF JobUpdate, Unlocked
<1> QED
  BY <1>1, <1>2, <1>3
  DEF Next, HandlerStep, JobProgress, Tick, PatchLock, DeleteCheck, RestoreFind,
      PatchSave, PatchRefuse, DeleteWrite, Refuse, Audit, Fail, JobStart,
      JobFind, JobLoad, JobAudit, JobEnd, JobFail

(* Under a lock a row changes only by its holder's commit, forward and never*)
(* out of DONE.                                                             *)
THEOREM LockedRowsMoveForward == Spec => LockedRowMovesForward
<1> DEFINE Step(t) == lock[t] # Free /\ row'[t] # row[t] =>
             /\ lock'[t] = Free
             /\ row[t].life # "absent"
             /\ Forward(row[t], row'[t])
             /\ row[t].status = "DONE" =>
                  row'[t] = [row[t] EXCEPT !.life = "deleted"]
<1>1. ASSUME Inv, [Next]_vars, NEW t \in Tickets PROVE Step(t)
  <2> SUFFICES ASSUME lock[t] # Free, row'[t] # row[t] PROVE Step(t)
    OBVIOUS
  <2>1. Next
    BY <1>1 DEF vars
  <2>2. PICK r \in Reqs : Commit(r)
    BY <1>1, <2>1, OtherWritersWait
  <2>3. /\ t = req[r].t /\ lock'[t] = Free /\ row[t].life # "absent"
        /\ row[t] \in Row /\ row'[t] = req[r].new
        /\ \/ AcceptedEdit(row[t], req[r].new)
           \/ req[r].new = [row[t] EXCEPT !.life = "deleted"]
    <3>1. /\ req[r].t \in Tickets /\ lock'[req[r].t] = Free
          /\ row' = [row EXCEPT ![req[r].t] = req[r].new]
          /\ row[req[r].t] \in Row /\ row[req[r].t].life # "absent"
          /\ \/ AcceptedEdit(row[req[r].t], req[r].new)
             \/ req[r].new = [row[req[r].t] EXCEPT !.life = "deleted"]
      BY <1>1, <2>2, CommitEffect
    <3>2. row \in [Tickets -> Row]
      BY <1>1 DEF Inv, TypeOK
    <3>3. t = req[r].t
      BY <3>1, <3>2
    <3> QED
      BY <3>1, <3>2, <3>3
  <2>4. CASE AcceptedEdit(row[t], row'[t])
    <3>1. PICK edit \in Edits :
            EditAccepted(row[t], edit) /\ row'[t] = Edited(row[t], edit)
      BY <2>4 DEF AcceptedEdit
    <3>2. edit \in Edit
      BY LifecycleAssumption
    <3> QED
      BY <2>3, <3>1, <3>2, AcceptedMovesForward
  <2>5. CASE row'[t] = [row[t] EXCEPT !.life = "deleted"]
    BY <2>3, <2>5 DEF Forward, Row, Statuses, StatusOrder
  <2> QED
    BY <2>3, <2>4, <2>5
<1>2. Inv /\ [Next]_vars => [\A t \in Tickets : Step(t)]_vars
  BY <1>1
<1> QED
  BY <1>2, Invariance, PTL DEF Spec, LockedRowMovesForward

----------------------------------------------------------------------------
(* The interleaved handlers implement the tickets of AtomicTickets whatever *)
(* the escalation does: a handler step changes the rows as one indivisible  *)
(* request would, or not at all, and a step of a run overwrites one ticket, *)
(* or none.                                                                 *)
THEOREM HandlersImplementAtomicTickets == Spec => HandlersAreAtomic
<1>1. Init => Atomic!Init
  BY DEF Init, Atomic!Init
<1>2. ASSUME Inv, [Next]_vars PROVE [Atomic!Next]_(Atomic!vars)
  <2>0. ASSUME row' = row PROVE [Atomic!Next]_(Atomic!vars)
    BY <2>0 DEF Atomic!Escalate, Atomic!Next, Atomic!vars
  <2>1. ASSUME NEW r \in Reqs, NEW t \in Tickets, Create(r, t)
        PROVE  Atomic!Post(t)
    BY <2>1 DEF Create, Atomic!Post
  <2>2. ASSUME NEW r \in Reqs, RestoreWrite(r)
        PROVE  Atomic!Restore(req[r].t) \/ row' = row
    <3>1. req[r].t \in Tickets /\ row[req[r].t] \in Row /\ row[req[r].t].life # "absent"
      BY <1>2, <2>2 DEF RestoreWrite, Inv, TypeOK, PendingWritesAreJustified,
                        HandlerIsJustified
    <3>2. row[req[r].t].life = "active" =>
            [row[req[r].t] EXCEPT !.life = "active"] = row[req[r].t]
      BY <3>1 DEF Row
    <3>3. /\ row' = [row EXCEPT ![req[r].t] = [row[req[r].t] EXCEPT !.life = "active"]]
          /\ UNCHANGED job
      BY <2>2 DEF RestoreWrite
    <3> QED
      BY <1>2, <3>1, <3>2, <3>3 DEF Inv, TypeOK, Row, Atomic!Restore
  <2>3. ASSUME NEW r \in Reqs, Commit(r)
        PROVE  Atomic!Patch(req[r].t) \/ Atomic!Remove(req[r].t) \/ row' = row
    <3>1. /\ req[r].t \in Tickets /\ row[req[r].t] \in Row
          /\ row' = [row EXCEPT ![req[r].t] = req[r].new]
          /\ \/ AcceptedEdit(row[req[r].t], req[r].new)
             \/ req[r].new = [row[req[r].t] EXCEPT !.life = "deleted"]
          /\ row[req[r].t].life # "absent"
          /\ UNCHANGED job
      BY <1>2, <2>3, CommitEffect DEF Commit
    <3>2. CASE AcceptedEdit(row[req[r].t], req[r].new)
      <4>1. PICK edit \in Edits :
              /\ EditAccepted(row[req[r].t], edit)
              /\ req[r].new = Edited(row[req[r].t], edit)
        BY <3>2 DEF AcceptedEdit
      <4>2. row[req[r].t].life = "active"
        BY <3>2 DEF AcceptedEdit
      <4>3. Atomic!EditAccepted(row[req[r].t], edit)
        BY <4>1 DEF EditAccepted, NotDone, ValidTransition, StatusOrder,
                    Atomic!EditAccepted, Atomic!NotDone, Atomic!ValidTransition,
                    Atomic!StatusOrder
      <4>4. Atomic!Edited(row[req[r].t], edit) = req[r].new
        BY <4>1 DEF Edited, Atomic!Edited
      <4> QED
        BY <3>1, <4>2, <4>3, <4>4 DEF Atomic!Patch
    <3>3. CASE req[r].new = [row[req[r].t] EXCEPT !.life = "deleted"]
      <4>1. row[req[r].t].life = "deleted" => req[r].new = row[req[r].t]
        BY <3>1, <3>3 DEF Row
      <4> QED
        BY <1>2, <3>1, <3>3, <4>1 DEF Inv, TypeOK, Row, Atomic!Remove
    <3> QED
      BY <3>1, <3>2, <3>3
  <2>4. ASSUME NEW r \in Reqs, RestoreWrite(r) \/ Commit(r)
        PROVE  req[r].t \in Tickets
    BY <1>2, <2>4 DEF RestoreWrite, Commit, ReadyToCommit, Inv,
                      PendingWritesAreJustified, HandlerIsJustified
  <2>5. ASSUME NEW j \in Jobs, JobUpdate(j) PROVE Atomic!Escalate
    <3> DEFINE t == job[j].t
               x == DiffUpdate(row[t], job[j].base, job[j].new)
    <3>1. /\ t \in Tickets /\ row[t] \in Row /\ row[t].life # "absent"
          /\ job[j].base \in Row /\ job[j].new \in Row /\ job[j].new.life = "active"
          /\ row \in [Tickets -> Row]
      BY <1>2, <2>5 DEF JobUpdate, Inv, TypeOK, PendingWritesAreJustified, RunIsJustified
    <3>2. x.life \in {row[t].life, "active"}
      BY <3>1, DiffUpdateIsRow
    <3>3. row' = [row EXCEPT ![t] = x]
      BY <2>5 DEF JobUpdate
    <3>4. Atomic!Overwrite(t)
      BY <3>1, <3>2, <3>3 DEF Atomic!Overwrite
    <3>5. job'[j].pc = "saved" /\ job[j].pc = "loaded"
      BY <1>2, <2>5 DEF JobUpdate, Inv, TypeOK, Run
    <3> QED
      BY <3>1, <3>4, <3>5 DEF Atomic!Escalate
  <2>6. ASSUME NEW r \in Reqs, HandlerStep(r) PROVE [Atomic!Next]_(Atomic!vars)
    <3>1. CASE \E t \in Tickets : Create(r, t)
      BY <2>1, <3>1 DEF Atomic!Next
    <3>2. CASE RestoreWrite(r)
      BY <2>0, <2>2, <2>4, <3>2 DEF Atomic!Next
    <3>3. CASE Commit(r)
      BY <2>0, <2>3, <2>4, <3>3 DEF Atomic!Next
    <3>4. \/ \E t \in Tickets : Create(r, t)
          \/ RestoreWrite(r) \/ Commit(r) \/ row' = row
      BY <2>6 DEF HandlerStep, PatchLock, DeleteCheck, RestoreFind, PatchSave,
                  PatchRefuse, DeleteWrite, Refuse, Audit, Fail
    <3> QED
      BY <2>0, <3>1, <3>2, <3>3, <3>4
  <2>7. ASSUME NEW j \in Jobs, JobProgress(j) \/ JobFail(j)
        PROVE  [Atomic!Next]_(Atomic!vars)
    <3>1. JobUpdate(j) \/ row' = row
      BY <2>7 DEF JobProgress, JobStart, JobFind, JobLoad, JobAudit, JobEnd, JobFail
    <3> QED
      BY <2>0, <2>5, <3>1 DEF Atomic!Next
  <2> QED
    BY <1>2, <2>0, <2>6, <2>7 DEF Next, Tick, vars
<1> QED
  BY <1>1, <1>2, Invariance, PTL DEF Spec, HandlersAreAtomic, Atomic!Spec

----------------------------------------------------------------------------
(* The ladder.  What a run holds of a ticket that nobody crossed has the    *)
(* rung of the row, so that what it saves is one step of the escalation from*)
(* there; of a crossed one only that an escalated snapshot is well-formed.  *)
BatchIsOnItsRung ==
    \A j \in Jobs : \A t \in Tickets \ crossed[j] :
        job[j].batch[t] # NoRow => SameRung(job[j].batch[t], row[t])

SaveIsOneStep ==
    \A j \in Jobs : job[j].pc = "loaded" =>
        /\ AtTop(job[j].new)
        /\ job[j].batch[job[j].t] = NoRow
        /\ job[j].t \notin crossed[j] =>
              /\ SameRung(job[j].base, row[job[j].t])
              /\ SameRung(job[j].new, Escalated(row[job[j].t]))

WaitingRunsAreEmpty ==
    \A j \in Jobs : job[j].pc \in {"idle", "started"} => job[j].batch = EmptyBatch

Ladder ==
    /\ crossed \in [Jobs -> SUBSET Tickets]
    /\ BatchIsOnItsRung
    /\ SaveIsOneStep
    /\ WaitingRunsAreEmpty

LEMMA EscalatedClimbs ==
    ASSUME NEW x \in Row
    PROVE  AtTop(Escalated(x)) /\ OneRungUp(x, Escalated(x))
<1> USE DEF AtTop, OneRungUp
<1>1. Escalated(x) \in Row
  BY EscalatedIsRow
<1>2. CASE x.priority = "CRITICAL"
  BY <1>1, <1>2 DEF Escalated, Row
<1>3. CASE x.priority # "CRITICAL"
  <2>1. Escalated(x).priority = NextRung[x.priority] /\ ~Escalated(x).isOverdue
    BY <1>3 DEF Escalated, Row
  <2>2. x.priority \in {"LOW", "MEDIUM", "HIGH"}
    BY <1>3 DEF Row, Priorities
  <2> QED
    BY <1>1, <2>1, <2>2 DEF NextRung, PriorityLadder
<1> QED
  BY <1>2, <1>3

LEMMA EscalatedRung ==
    ASSUME NEW x \in Row, NEW y \in Row, SameRung(x, y)
    PROVE  SameRung(Escalated(x), Escalated(y))
BY DEF SameRung, Escalated, Row

LEMMA DiffUpdateRung ==
    ASSUME NEW current \in Row, NEW base \in Row, NEW new \in Row,
           SameRung(base, current)
    PROVE  SameRung(DiffUpdate(current, base, new), new)
BY DEF DiffUpdate, SameRung, Row

LEMMA EditedRung ==
    ASSUME NEW x \in Row, NEW edit \in Edit
    PROVE  SameRung(Edited(x, edit), x) \/ ~Edited(x, edit).isOverdue
BY DEF Edited, SameRung, Row, Edit

(* A handler leaves the rung of a ticket, inserts it unflagged, or clears   *)
(* the flag under the lock.                                                 *)
LEMMA HandlersResetTheRung ==
    ASSUME Inv, Next, \A j \in Jobs : ~JobUpdate(j), NEW t \in Tickets
    PROVE  \/ ~row'[t].isOverdue /\ (row[t].life = "absent" \/ lock[t] # Free)
           \/ SameRung(row'[t], row[t])
<1> USE DEF Inv
<1>1. ASSUME row'[t] = row[t] PROVE SameRung(row'[t], row[t])
  BY <1>1 DEF SameRung
<1>2. ASSUME NEW r \in Reqs, NEW u \in Tickets, Create(r, u)
      PROVE  row'[t] = row[t] \/ (row[t].life = "absent" /\ ~row'[t].isOverdue)
  BY <1>2, LifecycleAssumption DEF Create, TypeOK
<1>3. ASSUME NEW r \in Reqs, RestoreWrite(r) PROVE SameRung(row'[t], row[t])
  <2>1. row' = [row EXCEPT ![req[r].t] = [row[req[r].t] EXCEPT !.life = "active"]]
    BY <1>3 DEF RestoreWrite
  <2> QED
    BY <2>1 DEF TypeOK, Row, SameRung
<1>4. ASSUME NEW r \in Reqs, Commit(r)
      PROVE  SameRung(row'[t], row[t]) \/ (~row'[t].isOverdue /\ lock[t] # Free)
  <2> DEFINE u == req[r].t
  <2>1. /\ u \in Tickets /\ row[u] \in Row /\ lock[u] = r
        /\ row' = [row EXCEPT ![u] = req[r].new]
        /\ \/ AcceptedEdit(row[u], req[r].new)
           \/ req[r].new = [row[u] EXCEPT !.life = "deleted"]
    BY <1>4, CommitEffect
  <2>2. SameRung(req[r].new, row[u]) \/ ~req[r].new.isOverdue
    <3>1. CASE AcceptedEdit(row[u], req[r].new)
      BY <2>1, <3>1, EditedRung, LifecycleAssumption DEF AcceptedEdit
    <3>2. CASE req[r].new = [row[u] EXCEPT !.life = "deleted"]
      BY <2>1, <3>2 DEF SameRung, Row
    <3> QED
      BY <2>1, <3>1, <3>2
  <2>3. lock[u] # Free
    BY <2>1, LifecycleAssumption
  <2> QED
    BY <2>1, <2>2, <2>3, <1>1 DEF TypeOK
<1> QED
  BY <1>1, <1>2, <1>3, <1>4
  DEF Next, HandlerStep, JobProgress, Tick, PatchLock, DeleteCheck, RestoreFind,
      PatchSave, PatchRefuse, DeleteWrite, Refuse, Audit, Fail, JobStart,
      JobFind, JobLoad, JobAudit, JobEnd, JobFail

(* A save whose read is not torn writes the rung it holds, on one ticket.   *)
LEMMA RunWrites ==
    ASSUME Inv, NEW j \in Jobs, JobUpdate(j)
    PROVE  /\ job[j].t \in Tickets /\ job[j].new \in Row
           /\ Saves(j, job[j].t)
           /\ SameRung(job[j].base, row[job[j].t]) => SameRung(row'[job[j].t], job[j].new)
           /\ \A t \in Tickets \ {job[j].t} : row'[t] = row[t]
           /\ job'[j].batch = job[j].batch /\ job'[j].pc = "saved"
           /\ \A k \in Jobs \ {j} : job'[k] = job[k]
<1> DEFINE t == job[j].t
           x == DiffUpdate(row[t], job[j].base, job[j].new)
<1>1. /\ t \in Tickets /\ row[t] \in Row /\ job[j].base \in Row /\ job[j].new \in Row
      /\ row \in [Tickets -> Row] /\ job[j] \in Run
  BY DEF JobUpdate, Inv, TypeOK, PendingWritesAreJustified, RunIsJustified
<1>2. SameRung(job[j].base, row[t]) => SameRung(x, job[j].new)
  BY <1>1, DiffUpdateRung
<1>3. row' = [row EXCEPT ![t] = x] /\ job' = [job EXCEPT ![j] = [job[j] EXCEPT !.pc = "saved"]]
  BY DEF JobUpdate
<1>4. job'[j].batch = job[j].batch /\ job'[j].pc = "saved" /\ job[j].pc = "loaded"
  BY <1>1, <1>3 DEF JobUpdate, Run, Inv, TypeOK
<1>5. row'[t] = x /\ \A u \in Tickets \ {t} : row'[u] = row[u]
  BY <1>1, <1>3
<1>6. \A k \in Jobs \ {j} : job'[k] = job[k]
  BY <1>3 DEF Inv, TypeOK
<1> QED
  BY <1>1, <1>2, <1>4, <1>5, <1>6 DEF SameRung, Saves

LEMMA LadderInits == LadderInit => Init /\ Ladder
BY DEF LadderInit, Init, Ladder, BatchIsOnItsRung, SaveIsOneStep, WaitingRunsAreEmpty,
       IdleRun, EmptyBatch

(* A step of run j other than its UPDATE copies rows or forgets them.       *)
LEMMA RunReads ==
    ASSUME Inv, Ladder, NEW j \in Jobs, JobProgress(j) \/ JobFail(j), ~JobUpdate(j)
    PROVE  /\ row' = row /\ job'[j] # job[j]
           /\ \A k \in Jobs \ {j} : job'[k] = job[k]
           /\ \A t \in Tickets : job'[j].batch[t] \in {NoRow, job[j].batch[t], row[t]}
           /\ job'[j].pc \in {"idle", "started"} => job'[j].batch = EmptyBatch
           /\ job'[j].pc = "loaded" =>
                /\ job'[j].t \in Tickets
                /\ AtTop(job'[j].new)
                /\ job'[j].batch[job'[j].t] = NoRow
                /\ SameRung(job'[j].base, row[job'[j].t])
                /\ job'[j].t \notin crossed[j] =>
                     SameRung(job'[j].new, Escalated(row[job'[j].t]))
<1> USE DEF Inv
<1>0. job[j] \in Run /\ \A k \in Jobs \ {j} : job'[k] = job[k]
  BY DEF TypeOK, JobProgress, JobStart, JobFind, JobLoad, JobAudit, JobEnd, JobFail
<1>1. CASE JobStart(j)
  BY <1>0, <1>1 DEF JobStart, TypeOK, Run, Ladder, WaitingRunsAreEmpty
<1>2. CASE JobFind(j)
  BY <1>0, <1>2 DEF JobFind, TypeOK, Run
<1>3. ASSUME NEW t \in Tickets, JobLoad(j, t)
      PROVE  /\ row' = row /\ job'[j].pc = "loaded" /\ job[j].pc = "loop"
             /\ \A u \in Tickets : job'[j].batch[u] \in {NoRow, job[j].batch[u]}
             /\ job'[j].t = t
             /\ AtTop(job'[j].new)
             /\ job'[j].batch[t] = NoRow
             /\ SameRung(job'[j].base, row[t])
             /\ t \notin crossed[j] => SameRung(job'[j].new, Escalated(row[t]))
  <2>1. /\ job'[j].t = t /\ job'[j].base = row[t]
        /\ job'[j].new = Escalated(job[j].batch[t])
        /\ job'[j].batch = [job[j].batch EXCEPT ![t] = NoRow]
        /\ job[j].batch \in [Tickets -> Row \cup {NoRow}] /\ row' = row
        /\ job'[j].pc = "loaded" /\ job[j].pc = "loop"
    BY <1>0, <1>3 DEF JobLoad, TypeOK, Run
  <2>2. job[j].batch[t] \in Row /\ row[t] \in Row
    BY <1>3, <2>1 DEF JobLoad, TypeOK
  <2>3. t \notin crossed[j] => SameRung(Escalated(job[j].batch[t]), Escalated(row[t]))
    BY <1>3, <2>2, EscalatedRung DEF JobLoad, Ladder, BatchIsOnItsRung
  <2>4. AtTop(Escalated(job[j].batch[t]))
    BY <2>2, EscalatedClimbs
  <2> QED
    BY <2>1, <2>3, <2>4 DEF SameRung
<1>4. CASE JobAudit(j)
  BY <1>0, <1>4 DEF JobAudit, TypeOK, Run
<1>5. CASE JobEnd(j) \/ JobFail(j)
  BY <1>0, <1>5 DEF JobEnd, JobFail, IdleRun, EmptyBatch, TypeOK, Run
<1> QED
  BY <1>0, <1>1, <1>2, <1>3, <1>4, <1>5 DEF JobProgress

(* A run that takes no step itself keeps the ladder: a ticket another writer*)
(* moves is crossed from then on.                                           *)
LEMMA WaitingRun ==
    ASSUME Inv, Ladder, Inv', NEW j \in Jobs, job'[j] = job[j],
           crossed'[j] = CrossedBy(j)
    PROVE  /\ \A t \in Tickets \ crossed'[j] :
                job'[j].batch[t] # NoRow => SameRung(job'[j].batch[t], row'[t])
           /\ job'[j].pc = "loaded" =>
                /\ AtTop(job'[j].new)
                /\ job'[j].batch[job'[j].t] = NoRow
                /\ job'[j].t \notin crossed'[j] =>
                     /\ SameRung(job'[j].base, row'[job'[j].t])
                     /\ SameRung(job'[j].new, Escalated(row'[job'[j].t]))
<1> USE DEF Ladder
<1>1. CASE job[j].pc \in {"idle", "started"}
  BY <1>1 DEF WaitingRunsAreEmpty, EmptyBatch
<1>2. CASE job[j].pc \notin {"idle", "started"}
  <2>1. \A t \in Tickets \ crossed'[j] :
          t \notin crossed[j] /\ SameRung(row[t], row'[t])
    BY <1>2 DEF CrossedBy
  <2>2. \A t \in Tickets \ crossed'[j] :
          job'[j].batch[t] # NoRow => SameRung(job'[j].batch[t], row'[t])
    BY <2>1 DEF BatchIsOnItsRung, SameRung
  <2>3. ASSUME job[j].pc = "loaded", job[j].t \notin crossed'[j]
        PROVE  /\ SameRung(job[j].base, row'[job[j].t])
               /\ SameRung(job[j].new, Escalated(row'[job[j].t]))
    <3>1. /\ job[j].t \in Tickets /\ row[job[j].t] \in Row /\ row'[job[j].t] \in Row
      BY <2>3 DEF Inv, TypeOK, PendingWritesAreJustified, RunIsJustified
    <3>2. job[j].t \notin crossed[j] /\ SameRung(row[job[j].t], row'[job[j].t])
      BY <2>1, <2>3, <3>1
    <3>3. SameRung(Escalated(row[job[j].t]), Escalated(row'[job[j].t]))
      BY <3>1, <3>2, EscalatedRung
    <3> QED
      BY <2>3, <3>2, <3>3 DEF SaveIsOneStep, SameRung
  <2> QED
    BY <2>2, <2>3 DEF SaveIsOneStep
<1> QED
  BY <1>1, <1>2

LEMMA OnlyItsOwnSteps ==
    ASSUME Inv, Next, NEW j \in Jobs, job'[j] # job[j]
    PROVE  JobProgress(j) \/ JobFail(j)
<1>1. PICK k \in Jobs : JobProgress(k) \/ JobFail(k)
  BY DEF Next, HandlerStep, Tick, Create, PatchLock, DeleteCheck, RestoreFind, PatchSave,
         PatchRefuse, DeleteWrite, RestoreWrite, Refuse, Audit, Commit, Fail
<1>2. \A i \in Jobs \ {k} : job'[i] = job[i]
  BY <1>1 DEF JobProgress, JobStart, JobFind, JobLoad, JobUpdate, JobAudit, JobEnd,
              JobFail, Inv, TypeOK
<1> QED
  BY <1>1, <1>2

LEMMA LadderStep ==
    ASSUME Inv, Ladder, Next, crossed' = [j \in Jobs |-> CrossedBy(j)]
    PROVE  Ladder'
<1>1. Inv' /\ row' \in [Tickets -> Row]
  BY StepInv DEF Inv, TypeOK
<1>2. crossed' \in [Jobs -> SUBSET Tickets]
  BY DEF Ladder, CrossedBy
<1>3. \A j \in Jobs : crossed'[j] = CrossedBy(j)
  OBVIOUS
<1>4. ASSUME NEW j \in Jobs
      PROVE  /\ \A t \in Tickets \ crossed'[j] :
                  job'[j].batch[t] # NoRow => SameRung(job'[j].batch[t], row'[t])
             /\ job'[j].pc = "loaded" =>
                  /\ AtTop(job'[j].new)
                  /\ job'[j].batch[job'[j].t] = NoRow
                  /\ job'[j].t \notin crossed'[j] =>
                       /\ SameRung(job'[j].base, row'[job'[j].t])
                       /\ SameRung(job'[j].new, Escalated(row'[job'[j].t]))
             /\ job'[j].pc \in {"idle", "started"} => job'[j].batch = EmptyBatch
  <2>1. CASE job'[j] = job[j]
    BY <1>1, <1>3, <2>1, WaitingRun DEF Ladder, WaitingRunsAreEmpty
  <2>2. CASE JobUpdate(j)
    <3>1. job'[j].pc = "saved" /\ job'[j].batch = job[j].batch /\ job[j].pc = "loaded"
          /\ \A t \in Tickets \ {job[j].t} : row'[t] = row[t]
      BY <2>2, RunWrites DEF Saves
    <3>2. job[j].batch[job[j].t] = NoRow
      BY <3>1 DEF Ladder, SaveIsOneStep
    <3>3. \A t \in Tickets \ crossed'[j] : t \notin crossed[j]
      BY <1>3, <3>1 DEF CrossedBy
    <3> QED
      BY <3>1, <3>2, <3>3 DEF Ladder, BatchIsOnItsRung, SameRung
  <2>3. CASE job'[j] # job[j] /\ ~JobUpdate(j)
    <3>0. JobProgress(j) \/ JobFail(j)
      BY <2>3, OnlyItsOwnSteps
    <3>1. crossed'[j] = crossed[j] \/ job'[j].pc \in {"idle", "started"}
      BY <1>3, <2>3, <3>0, RunReads DEF CrossedBy
    <3> QED
      BY <2>3, <3>0, <3>1, RunReads DEF Ladder, BatchIsOnItsRung, SameRung, EmptyBatch
  <2> QED
    BY <2>1, <2>2, <2>3
<1> QED
  BY <1>2, <1>4 DEF Ladder, BatchIsOnItsRung, SaveIsOneStep, WaitingRunsAreEmpty

LEMMA LadderInvariance == LadderSpec => [](Inv /\ Ladder)
<1>1. LadderInit => Inv /\ Ladder
  BY LadderInits, InitInv
<1>2. Inv /\ Ladder /\ [LadderNext]_ladderVars => (Inv /\ Ladder)'
  <2>1. Inv /\ Ladder /\ LadderNext => (Inv /\ Ladder)'
    BY StepInv, LadderStep DEF LadderNext
  <2>2. Inv /\ UNCHANGED ladderVars => Inv'
    BY StepInv DEF ladderVars
  <2>3. Ladder /\ UNCHANGED ladderVars => Ladder'
    BY DEF ladderVars, vars, Ladder, BatchIsOnItsRung, SaveIsOneStep, WaitingRunsAreEmpty
  <2> QED
    BY <2>1, <2>2, <2>3
<1> QED
  BY <1>1, <1>2, PTL DEF LadderSpec

(* BR-04 for the code as it is, priority edits and overlapping runs         *)
(* included: the flag leaves the top of the ladder by nothing but the UPDATE*)
(* of a save whose ticket was moved after the save's own read.              *)
THEOREM FlagAtTop == LadderSpec => FlagStaysAtTop
<1>1. ASSUME Inv, Ladder, LadderNext PROVE OnlyTornSavesPart
  <2> SUFFICES ASSUME NEW t \in Tickets, FlagParted(t)
               PROVE  \E j \in Jobs : Saves(j, t) /\ ~SameRung(job[j].base, row[t])
    BY DEF OnlyTornSavesPart
  <2>1. Next
    BY <1>1 DEF LadderNext
  <2>2. ~SameRung(row'[t], row[t]) /\ row'[t].isOverdue
    BY DEF FlagParted, AtTop, SameRung
  <2>3. PICK j \in Jobs : JobUpdate(j)
    BY <1>1, <2>1, <2>2, HandlersResetTheRung
  <2>4. t = job[j].t
    BY <1>1, <2>2, <2>3, RunWrites DEF SameRung
  <2>5. AtTop(job[j].new)
    BY <1>1, <2>3 DEF JobUpdate, Ladder, SaveIsOneStep
  <2>6. ~SameRung(job[j].base, row[t])
    BY <1>1, <2>3, <2>4, <2>5, RunWrites DEF FlagParted, AtTop, SameRung
  <2> QED
    BY <1>1, <2>3, <2>4, <2>6, RunWrites
<1>2. Inv /\ Ladder /\ [LadderNext]_ladderVars => [OnlyTornSavesPart]_ladderVars
  BY <1>1
<1> QED
  BY <1>2, LadderInvariance, PTL DEF LadderSpec, FlagStaysAtTop

(* A run takes each ticket that nobody crossed exactly one rung up, and     *)
(* apart from runs only a PATCH under the row lock changes a rung.          *)
THEOREM OneRung == LadderSpec => ClimbsOneRung
<1>1. ASSUME Inv, Ladder, LadderNext PROVE UncrossedSavesClimb /\ OthersReset
  <2>1. Next
    BY <1>1 DEF LadderNext
  <2>2. ASSUME NEW t \in Tickets, NEW j \in Jobs, Saves(j, t), t \notin crossed[j]
        PROVE  OneRungUp(row[t], row'[t])
    <3>1. JobUpdate(j)
      <4>1. job'[j] # job[j] /\ job'[j].pc = "saved" /\ job[j].pc = "loaded"
        BY <2>2 DEF Saves
      <4>2. job[j] \in Run
        BY <1>1 DEF Inv, TypeOK
      <4>3. JobProgress(j) \/ JobFail(j)
        BY <1>1, <2>1, <4>1, OnlyItsOwnSteps
      <4> QED
        BY <4>1, <4>2, <4>3, <1>1
        DEF JobProgress, JobStart, JobFind, JobLoad, JobAudit, JobEnd, JobFail, Inv,
            TypeOK, Run, IdleRun
    <3>2. SameRung(job[j].base, row[t]) /\ SameRung(job[j].new, Escalated(row[t]))
      BY <1>1, <2>2 DEF Saves, Ladder, SaveIsOneStep
    <3>3. SameRung(row'[t], Escalated(row[t])) /\ row[t] \in Row
      BY <1>1, <2>2, <3>1, <3>2, RunWrites DEF Saves, SameRung, Inv, TypeOK
    <3>4. OneRungUp(row[t], Escalated(row[t]))
      BY <3>3, EscalatedClimbs
    <3> QED
      BY <3>3, <3>4 DEF SameRung, OneRungUp
  <2>3. ASSUME NEW t \in Tickets, row[t].life # "absent", PriorityIsSet(t)
        PROVE  lock[t] # Free /\ ~row'[t].isOverdue
    <3>1. \A j \in Jobs : ~JobUpdate(j)
      <4>1. ASSUME NEW j \in Jobs, JobUpdate(j) PROVE FALSE
        BY <1>1, <2>3, <4>1, RunWrites DEF PriorityIsSet, SameRung
      <4> QED
        BY <4>1
    <3> QED
      BY <1>1, <2>1, <2>3, <3>1, HandlersResetTheRung DEF PriorityIsSet, SameRung
  <2> QED
    BY <2>2, <2>3 DEF UncrossedSavesClimb, OthersReset
<1>2. Inv /\ Ladder /\ [LadderNext]_ladderVars
        => [UncrossedSavesClimb /\ OthersReset]_ladderVars
  BY <1>1
<1> QED
  BY <1>2, LadderInvariance, PTL DEF LadderSpec, ClimbsOneRung
============================================================================
