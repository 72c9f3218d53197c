------------------------- MODULE AttachmentsProofs -------------------------
(* Attachments for any number of tickets, attachments, paths and handlers:  *)
(* the disk, the table and the audit log agree up to what is under way or   *)
(* was left half done, and an attachment goes only by its own DELETE.       *)
EXTENDS Attachments, TLAPS

USE AttachmentsAssumption

(* No two rows name one path, and the path of an upload that has written    *)
(* its file is in nobody else's hands.                                      *)
PathsAreOwn ==
    /\ \A a, b \in Attachments :
         Stored(a) /\ Stored(b) /\ row[a].path = row[b].path => a = b
    /\ \A r \in Reqs : req[r].pc = "written" =>
         /\ req[r].path \in disk
         /\ \A a \in Attachments : row[a].path # req[r].path
         /\ \A q \in Reqs \ {r} : req[q].path # req[r].path

(* A DELETE holds the path of its row as long as there is the row; what it  *)
(* has unlinked stays unlinked, or is known as left behind.                 *)
HandlerIsRight(h) ==
    /\ h.pc \in {"found", "unlinked"} =>
         /\ row[h.a] # Absent
         /\ Stored(h.a) => row[h.a].path = h.path
         /\ \A b \in Attachments : Stored(b) /\ row[b].path = h.path => b = h.a
    /\ h.pc = "unlinked" => h.path \notin disk \ left
    /\ h.pc = "inserted" => row[h.a] # Absent
    /\ h.pc = "erased" => row[h.a] = Gone

HandlersAreRight == \A r \in Reqs : HandlerIsRight(req[r])

Inv == TypeOK /\ PathsAreOwn /\ HandlersAreRight /\ StoresAgree

LEMMA InitInv == Init => Inv
<1> SUFFICES ASSUME Init PROVE Inv
  OBVIOUS
<1>1. Idle \in Handler /\ Idle.pc = "idle"
  BY DEF Idle, Handler
<1>2. TypeOK
  BY <1>1 DEF Init, TypeOK, HandlerKnows
<1>3. \A a \in Attachments : ~Stored(a)
  BY DEF Init, Stored, Absent
<1> QED
  BY <1>1, <1>2, <1>3 DEF Init, Inv, PathsAreOwn, HandlersAreRight, HandlerIsRight,
     StoresAgree, FilesAreReferenced, RowsHaveFiles, AuditIsTrue

(* The types of what handlers become, and of rows.                          *)
LEMMA HandlerTypes ==
    /\ Idle \in Handler /\ Idle.pc = "idle" /\ Idle.path = None
    /\ \A t \in Tickets, type \in AllowedTypes :
         [Idle EXCEPT !.pc = "checked", !.t = t, !.type = type] \in Handler
    /\ \A a \in Attachments, p \in Paths :
         [Idle EXCEPT !.pc = "found", !.a = a, !.path = p] \in Handler
    /\ \A a \in Attachments : /\ [Idle EXCEPT !.pc = "inserted", !.a = a] \in Handler
                              /\ [Idle EXCEPT !.pc = "erased", !.a = a] \in Handler
    /\ \A h \in Handler, p \in Paths :
         /\ [h EXCEPT !.pc = "written", !.path = p] \in Handler
         /\ [h EXCEPT !.pc = "unlinked"] \in Handler
BY DEF Idle, Handler

LEMMA RowTypes ==
    /\ \A x \in Row : x.life = "stored" /\ x.path \in Paths /\ x.path # None
                      /\ x # Absent /\ x # Gone
    /\ Absent # Gone /\ Absent.life # "stored" /\ Gone.life # "stored"
    /\ Absent.path = None /\ Gone.path = None
BY DEF Row, Absent, Gone

(* A step of one handler, pointwise.                                        *)
LEMMA OneHandlerMoves ==
    ASSUME TypeOK, NEW r \in Reqs, NEW h \in Handler, HandlerKnows(h),
           req' = [req EXCEPT ![r] = h]
    PROVE  /\ req' \in [Reqs -> Handler]
           /\ \A q \in Reqs : req'[q] = IF q = r THEN h ELSE req[q]
           /\ \A q \in Reqs : HandlerKnows(req'[q])
BY DEF TypeOK

(* Steps that touch only one handler, and those of the audit log and the    *)
(* leftovers that go with them.                                             *)
LEMMA QuietStep ==
    ASSUME Inv, NEW r \in Reqs, NEW h \in Handler, HandlerKnows(h), HandlerIsRight(h),
           req' = [req EXCEPT ![r] = h],
           h.pc # "written",
           h.path = None \/ \E a \in Attachments : Stored(a) /\ h.path = row[a].path,
           UNCHANGED <<row, disk>>,
           deleted' \subseteq Tickets,
           left \subseteq left', left' \subseteq Paths,
           req[r].pc \in {"written", "unlinked"} => req[r].path \in left',
           audit' \subseteq {"UPLOAD", "DELETE"} \X Attachments,
           AuditIsTrue'
    PROVE  Inv'
<1>1. /\ req' \in [Reqs -> Handler]
      /\ \A q \in Reqs : req'[q] = IF q = r THEN h ELSE req[q]
      /\ \A q \in Reqs : HandlerKnows(req'[q])
  BY OneHandlerMoves DEF Inv
<1>2. TypeOK'
  BY <1>1 DEF Inv, TypeOK
<1>3. PathsAreOwn'
  BY <1>1 DEF Inv, TypeOK, HandlerKnows, PathsAreOwn, Stored
<1>4. HandlersAreRight'
  BY <1>1 DEF Inv, HandlersAreRight, HandlerIsRight, Stored
<1>5. FilesAreReferenced'
  BY <1>1 DEF Inv, StoresAgree, FilesAreReferenced
<1>6. RowsHaveFiles'
  BY <1>1 DEF Inv, StoresAgree, RowsHaveFiles, Stored, HandlersAreRight, HandlerIsRight
<1> QED
  BY <1>2, <1>3, <1>4, <1>5, <1>6 DEF Inv, StoresAgree

LEMMA StepInv == Inv /\ [Next]_vars => Inv'
<1> SUFFICES ASSUME Inv, [Next]_vars PROVE Inv'
  OBVIOUS
<1> USE DEF Step
<1>1. ASSUME NEW r \in Reqs, NEW t \in Tickets, UploadCheck(r, t) PROVE Inv'
  <2>1. PICK type \in AllowedTypes :
          req' = [req EXCEPT ![r] = [Idle EXCEPT !.pc = "checked", !.t = t, !.type = type]]
    BY <1>1 DEF UploadCheck, Valid
  <2> DEFINE h == [Idle EXCEPT !.pc = "checked", !.t = t, !.type = type]
  <2>2. h \in Handler /\ h.pc = "checked" /\ h.path = None
        /\ HandlerKnows(h) /\ HandlerIsRight(h)
    BY HandlerTypes DEF Idle, HandlerKnows, HandlerIsRight
  <2>3. AuditIsTrue'
    BY <1>1 DEF UploadCheck, Inv, StoresAgree, AuditIsTrue
  <2> HIDE DEF h
  <2> QED
    BY <1>1, <2>1, <2>2, <2>3, QuietStep DEF UploadCheck, Inv, TypeOK, h
<1>2. ASSUME NEW r \in Reqs, NEW p \in Paths, WriteFile(r, p) PROVE Inv'
  <2> DEFINE h == [req[r] EXCEPT !.pc = "written", !.path = p]
  <2>0. h \in Handler
    BY HandlerTypes DEF Inv, TypeOK
  <2>1. h \in Handler /\ h.pc = "written" /\ h.path = p /\ HandlerKnows(h)
    BY <1>2, <2>0 DEF WriteFile, Inv, TypeOK, Handler, HandlerKnows
  <2> HIDE DEF h
  <2>2. /\ req' \in [Reqs -> Handler]
        /\ \A q \in Reqs : req'[q] = IF q = r THEN h ELSE req[q]
        /\ \A q \in Reqs : HandlerKnows(req'[q])
    BY <1>2, <2>1, OneHandlerMoves DEF WriteFile, Inv, h
  <2>3. /\ UNCHANGED <<deleted, row, audit>> /\ disk' = disk \cup {p}
        /\ left' = left \ {p} /\ Fresh(p) /\ req[r].pc = "checked"
    BY <1>2 DEF WriteFile
  <2>4. TypeOK'
    BY <2>2, <2>3 DEF Inv, TypeOK
  <2>5. PathsAreOwn'
    BY <2>1, <2>2, <2>3 DEF Inv, PathsAreOwn, Fresh, Stored
  <2>6. HandlersAreRight'
    BY <2>1, <2>2, <2>3 DEF Inv, HandlersAreRight, HandlerIsRight, Fresh, Stored
  <2>7. FilesAreReferenced'
    BY <2>1, <2>2, <2>3 DEF Inv, StoresAgree, FilesAreReferenced
  <2>8. RowsHaveFiles'
    BY <2>1, <2>2, <2>3 DEF Inv, StoresAgree, RowsHaveFiles, Stored, Fresh
  <2>9. AuditIsTrue'
    BY <2>3 DEF Inv, StoresAgree, AuditIsTrue
  <2> QED
    BY <2>4, <2>5, <2>6, <2>7, <2>8, <2>9 DEF Inv, StoresAgree
<1>3. ASSUME NEW r \in Reqs, NEW a \in Attachments, InsertRow(r, a) PROVE Inv'
  <2> DEFINE h == [Idle EXCEPT !.pc = "inserted", !.a = a]
             new == [life |-> "stored", t |-> req[r].t,
                     type |-> req[r].type, path |-> req[r].path]
  <2>1. h \in Handler /\ h.pc = "inserted" /\ h.path = None /\ h.a = a /\ HandlerKnows(h)
    BY HandlerTypes DEF Idle, HandlerKnows
  <2>2. /\ new \in Row /\ new.path = req[r].path /\ req[r].path \in Paths
        /\ new.life = "stored" /\ new # Absent /\ new # Gone
    BY <1>3, RowTypes DEF InsertRow, Inv, TypeOK, HandlerKnows, Row
  <2> HIDE DEF h, new
  <2>3. /\ req' \in [Reqs -> Handler]
        /\ \A q \in Reqs : req'[q] = IF q = r THEN h ELSE req[q]
        /\ \A q \in Reqs : HandlerKnows(req'[q])
    BY <1>3, <2>1, OneHandlerMoves DEF InsertRow, Inv, h
  <2>4. /\ UNCHANGED <<deleted, disk, audit, left>> /\ req[r].pc = "written"
        /\ row[a] = Absent /\ row' = [row EXCEPT ![a] = new]
    BY <1>3 DEF InsertRow, new
  <2>5. TypeOK'
    BY <2>2, <2>3, <2>4 DEF Inv, TypeOK
  <2>6. \A b \in Attachments : row'[b] = IF b = a THEN new ELSE row[b]
    BY <2>4 DEF Inv, TypeOK
  <2>7. PathsAreOwn'
    <3>1. \A q \in Reqs \ {r} : req[q].path # new.path /\ req'[q] = req[q]
      BY <2>2, <2>3, <2>4 DEF Inv, PathsAreOwn
    <3>2. \A q \in Reqs : req[q].pc = "written" => req[q].path # None
      BY DEF Inv, TypeOK, HandlerKnows
    <3> QED
      BY <2>1, <2>2, <2>3, <2>4, <2>6, <3>1, <3>2 DEF Inv, PathsAreOwn, Stored
  <2>8. HandlersAreRight'
    <3>1. HandlerIsRight(h)'
      BY <2>1, <2>2, <2>6 DEF HandlerIsRight
    <3>2. ASSUME NEW q \in Reqs \ {r} PROVE HandlerIsRight(req[q])'
      <4>1. req[q].path # new.path /\ HandlerIsRight(req[q]) /\ HandlerKnows(req[q])
        BY <2>2, <2>4 DEF Inv, TypeOK, PathsAreOwn, HandlersAreRight
      <4> QED
        BY <2>2, <2>3, <2>4, <2>6, <4>1, RowTypes DEF HandlerIsRight, HandlerKnows, Stored
    <3> QED
      BY <2>3, <3>1, <3>2 DEF HandlersAreRight
  <2>9. FilesAreReferenced'
    <3>1. \A b \in Attachments : row[b].path \in Paths => row'[b].path = row[b].path
      BY <2>4, <2>6, RowTypes
    <3>2. row'[a].path = req[r].path
      BY <2>2, <2>6
    <3> QED
      BY <2>1, <2>3, <2>4, <3>1, <3>2 DEF Inv, TypeOK, StoresAgree, FilesAreReferenced
  <2>10. RowsHaveFiles'
    BY <2>1, <2>2, <2>3, <2>4, <2>6
    DEF Inv, StoresAgree, RowsHaveFiles, Stored, PathsAreOwn
  <2>11. AuditIsTrue'
    BY <2>2, <2>4, <2>6, RowTypes DEF Inv, StoresAgree, AuditIsTrue
  <2> QED
    BY <2>5, <2>7, <2>8, <2>9, <2>10, <2>11 DEF Inv, StoresAgree
<1>4. ASSUME NEW r \in Reqs, NEW a \in Attachments, NEW t \in Tickets, DeleteFind(r, a, t)
      PROVE  Inv'
  <2> DEFINE h == [Idle EXCEPT !.pc = "found", !.a = a, !.path = row[a].path]
  <2>1. Stored(a) /\ row[a] \in Row /\ row[a].path \in Paths
    BY <1>4, RowTypes DEF DeleteFind, Inv, TypeOK, Stored
  <2>2. h \in Handler /\ h.pc = "found" /\ h.a = a /\ h.path = row[a].path
    BY <2>1, HandlerTypes DEF Idle
  <2>3. HandlerKnows(h) /\ HandlerIsRight(h)
    BY <2>1, <2>2, RowTypes DEF HandlerKnows, HandlerIsRight, Inv, PathsAreOwn
  <2>4. AuditIsTrue'
    BY <1>4 DEF DeleteFind, Inv, StoresAgree, AuditIsTrue
  <2> HIDE DEF h
  <2> QED
    BY <1>4, <2>1, <2>2, <2>3, <2>4, QuietStep DEF DeleteFind, Inv, TypeOK, h
<1>5. ASSUME NEW r \in Reqs, Unlink(r) PROVE Inv'
  <2> DEFINE h == [req[r] EXCEPT !.pc = "unlinked"]
             p == req[r].path
  <2>0. h \in Handler
    BY <1>5, HandlerTypes DEF Unlink, Inv, TypeOK, HandlerKnows
  <2>1. /\ h \in Handler /\ h.pc = "unlinked" /\ h.path = p /\ h.a = req[r].a
        /\ HandlerKnows(h) /\ p \in Paths /\ h.a \in Attachments
    BY <1>5, <2>0 DEF Unlink, Inv, TypeOK, Handler, HandlerKnows
  <2> HIDE DEF h
  <2>2. /\ req' \in [Reqs -> Handler]
        /\ \A q \in Reqs : req'[q] = IF q = r THEN h ELSE req[q]
        /\ \A q \in Reqs : HandlerKnows(req'[q])
    BY <1>5, <2>1, OneHandlerMoves DEF Unlink, Inv, h
  <2>3. /\ UNCHANGED <<deleted, row, audit>> /\ req[r].pc = "found"
        /\ \/ disk' = disk \ {p} /\ left' = left
           \/ disk' = disk /\ left' = left \cup {p}
    BY <1>5 DEF Unlink
  <2>4. TypeOK'
    BY <2>1, <2>2, <2>3 DEF Inv, TypeOK
  <2>5. PathsAreOwn'
    BY <2>1, <2>2, <2>3 DEF Inv, PathsAreOwn, Stored
  <2>6. HandlersAreRight'
    BY <2>1, <2>2, <2>3 DEF Inv, HandlersAreRight, HandlerIsRight, Stored
  <2>7. FilesAreReferenced'
    BY <2>1, <2>2, <2>3 DEF Inv, StoresAgree, FilesAreReferenced
  <2>8. RowsHaveFiles'
    <3>1. \A a \in Attachments : Stored(a) /\ row[a].path = p => a = h.a
      BY <2>1, <2>3 DEF Inv, HandlersAreRight, HandlerIsRight, PathsAreOwn, Stored
    <3> QED
      BY <2>1, <2>2, <2>3, <3>1 DEF Inv, StoresAgree, RowsHaveFiles, Stored
  <2>9. AuditIsTrue'
    BY <2>3 DEF Inv, StoresAgree, AuditIsTrue
  <2> QED
    BY <2>4, <2>5, <2>6, <2>7, <2>8, <2>9 DEF Inv, StoresAgree
<1>6. ASSUME NEW r \in Reqs, DeleteRow(r) PROVE Inv'
  <2> DEFINE a == req[r].a
             h == [Idle EXCEPT !.pc = "erased", !.a = a]
  <2>1. /\ a \in Attachments
        /\ h \in Handler /\ h.pc = "erased" /\ h.path = None /\ h.a = a /\ HandlerKnows(h)
    BY <1>6, HandlerTypes DEF DeleteRow, Inv, TypeOK, Idle, HandlerKnows
  <2> HIDE DEF h
  <2>2. /\ req' \in [Reqs -> Handler]
        /\ \A q \in Reqs : req'[q] = IF q = r THEN h ELSE req[q]
        /\ \A q \in Reqs : HandlerKnows(req'[q])
    BY <1>6, <2>1, OneHandlerMoves DEF DeleteRow, Inv, h
  <2>3. /\ UNCHANGED <<deleted, disk, audit, left>> /\ req[r].pc = "unlinked"
        /\ row' = [row EXCEPT ![a] = Gone]
    BY <1>6 DEF DeleteRow
  <2>4. TypeOK'
    BY <2>1, <2>2, <2>3 DEF Inv, TypeOK
  <2>5. \A b \in Attachments : row'[b] = IF b = a THEN Gone ELSE row[b]
    BY <2>3 DEF Inv, TypeOK
  <2>6. /\ req[r].path \notin disk \ left /\ req[r].path # None
        /\ row[a] # Absent /\ (Stored(a) => row[a].path = req[r].path)
    BY <2>1, <2>3 DEF Inv, TypeOK, HandlersAreRight, HandlerIsRight, HandlerKnows
  <2>7. PathsAreOwn'
    BY <2>1, <2>2, <2>3, <2>5, RowTypes DEF Inv, PathsAreOwn, Stored, TypeOK, HandlerKnows
  <2>8. HandlersAreRight'
    <3>1. HandlerIsRight(req[r])'
      BY <2>1, <2>2, <2>5 DEF HandlerIsRight
    <3>2. ASSUME NEW q \in Reqs \ {r} PROVE HandlerIsRight(req[q])'
      <4>1. HandlerIsRight(req[q]) /\ HandlerKnows(req[q])
        BY DEF Inv, TypeOK, HandlersAreRight
      <4> QED
        BY <2>2, <2>3, <2>5, <4>1, RowTypes DEF HandlerIsRight, HandlerKnows, Stored
    <3> QED
      BY <2>2, <3>1, <3>2 DEF HandlersAreRight
  <2>9. FilesAreReferenced'
    <3>1. row[a].path \notin disk \ left
      BY <2>1, <2>6, RowTypes DEF Inv, TypeOK, Stored
    <3> QED
      BY <2>1, <2>2, <2>3, <2>5, <3>1 DEF Inv, StoresAgree, FilesAreReferenced
  <2>10. RowsHaveFiles'
    BY <2>1, <2>2, <2>3, <2>5, RowTypes DEF Inv, StoresAgree, RowsHaveFiles, Stored
  <2>11. AuditIsTrue'
    <3>1. Gone # Absent
      BY RowTypes
    <3> QED
      BY <2>3, <2>5, <2>6, <3>1 DEF Inv, StoresAgree, AuditIsTrue
  <2> QED
    BY <2>4, <2>7, <2>8, <2>9, <2>10, <2>11 DEF Inv, StoresAgree
<1>7. ASSUME NEW r \in Reqs, Audit(r) PROVE Inv'
  <2>1. req[r].a \in Attachments
    BY <1>7 DEF Audit, Inv, TypeOK, HandlerKnows
  <2>2. AuditIsTrue'
    BY <1>7, <2>1 DEF Audit, Inv, StoresAgree, AuditIsTrue, HandlersAreRight,
                      HandlerIsRight
  <2>3. HandlerKnows(Idle) /\ HandlerIsRight(Idle)
    BY HandlerTypes DEF HandlerKnows, HandlerIsRight
  <2> QED
    <3>1. audit' \subseteq {"UPLOAD", "DELETE"} \X Attachments
      BY <1>7, <2>1 DEF Audit, Inv, TypeOK
    <3> QED
      BY <1>7, <2>2, <2>3, <3>1, QuietStep, HandlerTypes DEF Audit, Inv, TypeOK
<1>8. ASSUME NEW r \in Reqs, GiveUp(r) PROVE Inv'
  <2>1. AuditIsTrue'
    BY <1>8 DEF GiveUp, Inv, StoresAgree, AuditIsTrue
  <2>2. HandlerKnows(Idle) /\ HandlerIsRight(Idle)
    BY HandlerTypes DEF HandlerKnows, HandlerIsRight
  <2>3. req[r].pc \in {"written", "unlinked"} => req[r].path \in Paths
    BY DEF Inv, TypeOK, HandlerKnows
  <2> QED
    BY <1>8, <2>1, <2>2, <2>3, QuietStep, HandlerTypes DEF GiveUp, Inv, TypeOK
<1>9. ASSUME NEW t \in Tickets, ToggleTicket(t) PROVE Inv'
  BY <1>9 DEF ToggleTicket, Inv, TypeOK, PathsAreOwn, HandlersAreRight, HandlerIsRight,
     StoresAgree, FilesAreReferenced, RowsHaveFiles, AuditIsTrue, Stored
<1>10. ASSUME UNCHANGED vars PROVE Inv'
  BY <1>10 DEF vars, Inv, TypeOK, PathsAreOwn, HandlersAreRight, HandlerIsRight,
     StoresAgree, FilesAreReferenced, RowsHaveFiles, AuditIsTrue, Stored
<1> QED
  BY <1>1, <1>2, <1>3, <1>4, <1>5, <1>6, <1>7, <1>8, <1>9, <1>10 DEF Next, HandlerStep

LEMMA Invariance == Spec => []Inv
BY InitInv, StepInv, PTL DEF Spec

(* Every variable keeps its type, and a stored content type is an allowed   *)
(* one.                                                                     *)
THEOREM TypeCorrectness == Spec => []TypeOK
<1>1. Inv => TypeOK
  BY DEF Inv
<1> QED
  BY <1>1, Invariance, PTL

(* Disk, table and audit log agree but for what is under way or was left    *)
(* half done by a failure, however many uploads and deletes overlap.        *)
THEOREM Agreement == Spec => []StoresAgree
<1>1. Inv => StoresAgree
  BY DEF Inv
<1> QED
  BY <1>1, Invariance, PTL

(* An attachment is gone only by a DELETE of it, and never comes back.      *)
THEOREM GoneByItsDelete == Spec => OnlyItsDeleteTakesIt
<1>1. Inv /\ [Next]_vars => [OnlyByItsDelete]_vars
  <2> SUFFICES ASSUME Inv, [Next]_vars PROVE [OnlyByItsDelete]_vars
    OBVIOUS
  <2> USE DEF Step
  <2>1. CASE Available' = Available
    BY <2>1 DEF OnlyByItsDelete
  <2>2. ASSUME NEW r \in Reqs, NEW p \in Paths, WriteFile(r, p)
        PROVE  Available' = Available
    BY <2>2 DEF WriteFile, Fresh, Available, Stored
  <2>3. ASSUME NEW r \in Reqs, NEW a \in Attachments, InsertRow(r, a) PROVE OnlyByItsDelete
    <3>1. \A b \in Attachments \ {a} : row'[b] = row[b]
      BY <2>3 DEF InsertRow, Inv, TypeOK
    <3> QED
      BY <2>3, <3>1, RowTypes DEF InsertRow, Available, Stored, OnlyByItsDelete
  <2>4. ASSUME NEW r \in Reqs, Unlink(r) PROVE OnlyByItsDelete
    <3>1. req[r].pc = "found" /\ req[r].a \in Attachments /\ req'[r] # req[r]
      BY <2>4 DEF Unlink, Inv, TypeOK, HandlerKnows, Handler
    <3>2. \A a \in Attachments : Stored(a) /\ row[a].path = req[r].path => a = req[r].a
      BY <3>1 DEF Inv, HandlersAreRight, HandlerIsRight
    <3>3. UNCHANGED row /\ disk' \in {disk, disk \ {req[r].path}}
      BY <2>4 DEF Unlink
    <3> QED
      BY <3>1, <3>2, <3>3, RowTypes DEF Available, Stored, OnlyByItsDelete
  <2>5. ASSUME NEW r \in Reqs, DeleteRow(r) PROVE OnlyByItsDelete
    <3>1. req[r].pc = "unlinked" /\ req[r].a \in Attachments /\ req'[r] # req[r]
      BY <2>5 DEF DeleteRow, Inv, TypeOK, HandlerKnows, Handler, Idle
    <3>2. \A b \in Attachments \ {req[r].a} : row'[b] = row[b]
      BY <2>5 DEF DeleteRow, Inv, TypeOK
    <3>3. row'[req[r].a] = Gone /\ UNCHANGED disk
      BY <2>5, <3>1 DEF DeleteRow, Inv, TypeOK
    <3> QED
      BY <3>1, <3>2, <3>3, RowTypes DEF Available, Stored, OnlyByItsDelete
  <2>6. ASSUME NEW r \in Reqs, HandlerStep(r)
        PROVE  \/ \E p \in Paths : WriteFile(r, p)
               \/ \E a \in Attachments : InsertRow(r, a)
               \/ Unlink(r) \/ DeleteRow(r) \/ UNCHANGED <<row, disk>>
    BY <2>6 DEF HandlerStep, UploadCheck, DeleteFind, Audit, GiveUp
  <2>7. UNCHANGED <<row, disk>> => Available' = Available
    BY DEF Available, Stored
  <2> QED
    BY <2>1, <2>2, <2>3, <2>4, <2>5, <2>6, <2>7 DEF Next, ToggleTicket, vars
<1> QED
  BY <1>1, Invariance, PTL DEF Spec, OnlyItsDeleteTakesIt
============================================================================
