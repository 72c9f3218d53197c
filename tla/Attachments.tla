---------------------------- MODULE Attachments ----------------------------
(* Attachments: a file on disk and a row that names it.  Upload writes the  *)
(* file first and the row next, delete removes the file first and the row   *)
(* next, each in a statement of its own, with no transaction over the two   *)
(* and nothing that repairs what a failure leaves half done.                *)
(*                                                                          *)
(* History: left are the paths a failure left behind, of a file without a   *)
(* row or of a row without its file.                                        *)
(*                                                                          *)
(* Left out: the bytes of the file, the directories, and the wait of the    *)
(* INSERT for a PATCH that holds the ticket row.                            *)
EXTENDS FiniteSets

CONSTANTS
    Tickets,
    Attachments,    \* ids of the table attachments
    Paths,          \* paths under storage/attachments
    Reqs,
    None            \* a field that holds nothing yet

ASSUME AttachmentsAssumption ==
    None \notin Tickets \cup Attachments \cup Paths

VARIABLES
    deleted,        \* the soft-deleted tickets
    row,            \* the table attachments
    disk,           \* the paths of the files there are
    audit,          \* pairs <<action, attachment id>>
    req,            \* req[r]: where handler r is, and its local variables
    left

vars == <<deleted, row, disk, audit, req, left>>

AllowedTypes == {"image/png", "image/jpeg", "application/pdf", "text/plain"}

Handler == [pc : {"idle", "checked", "written", "inserted",
                  "found", "unlinked", "erased"},
            t : Tickets \cup {None}, type : AllowedTypes \cup {None},
            a : Attachments \cup {None}, path : Paths \cup {None}]

Idle == [pc |-> "idle", t |-> None, type |-> None, a |-> None, path |-> None]

Row == [life : {"stored"}, t : Tickets, type : AllowedTypes, path : Paths]

Absent == [life |-> "absent", t |-> None, type |-> None, path |-> None]

Gone == [Absent EXCEPT !.life = "gone"]

(* A handler knows by then what it writes or removes.                       *)
HandlerKnows(h) ==
    /\ h.pc \in {"checked", "written"} => h.t \in Tickets /\ h.type \in AllowedTypes
    /\ h.pc \in {"written", "found", "unlinked"} => h.path \in Paths
    /\ h.pc \in {"inserted", "found", "unlinked", "erased"} => h.a \in Attachments

TypeOK ==
    /\ deleted \subseteq Tickets
    /\ row \in [Attachments -> Row \cup {Absent, Gone}]
    /\ disk \subseteq Paths
    /\ audit \subseteq {"UPLOAD", "DELETE"} \X Attachments
    /\ req \in [Reqs -> Handler]
    /\ \A r \in Reqs : HandlerKnows(req[r])
    /\ left \subseteq Paths

Init ==
    /\ deleted = {}
    /\ row = [a \in Attachments |-> Absent]
    /\ disk = {}
    /\ audit = {}
    /\ req = [r \in Reqs |-> Idle]
    /\ left = {}

Stored(a) == row[a].life = "stored"

Step(r, handler) == req' = [req EXCEPT ![r] = handler]

----------------------------------------------------------------------------
(* validate: the declared type and the type of the bytes must be allowed,   *)
(* each for itself; plain text has no signature, so no bytes are found to   *)
(* be text.  A file over 10 MB is refused whatever it is.                   *)
Unvalidated(declared, detected, tooBig) == ~tooBig

Valid(declared, detected, tooBig) ==
    /\ ~tooBig
    /\ declared \in AllowedTypes
    /\ detected \in AllowedTypes

Declarable == AllowedTypes \cup {"text/html"}

Detectable == (AllowedTypes \cup {"video/mp4", None}) \ {"text/plain"}

(* POST: the ticket must be active when it is looked up, which is before    *)
(* the file is validated and long before the row is inserted.               *)
UploadCheck(r, t) ==
    /\ req[r].pc = "idle"
    /\ t \notin deleted
    /\ \E declared \in Declarable, detected \in Detectable, tooBig \in BOOLEAN :
         /\ Valid(declared, detected, tooBig)
         /\ Step(r, [Idle EXCEPT !.pc = "checked", !.t = t, !.type = declared])
    /\ UNCHANGED <<deleted, row, disk, audit, left>>

(* A path nothing refers to stands for a new random UUID.                   *)
SameName(p) == TRUE

Fresh(p) ==
    /\ p \notin disk
    /\ \A a \in Attachments : row[a].path # p
    /\ \A r \in Reqs : req[r].path # p

WriteFile(r, p) ==
    /\ req[r].pc = "checked"
    /\ Fresh(p)
    /\ disk' = disk \cup {p}
    /\ left' = left \ {p}
    /\ Step(r, [req[r] EXCEPT !.pc = "written", !.path = p])
    /\ UNCHANGED <<deleted, row, audit>>

InsertRow(r, a) ==
    /\ req[r].pc = "written"
    /\ row[a] = Absent
    /\ row' = [row EXCEPT ![a] = [life |-> "stored", t |-> req[r].t,
                                  type |-> req[r].type, path |-> req[r].path]]
    /\ Step(r, [Idle EXCEPT !.pc = "inserted", !.a = a])
    /\ UNCHANGED <<deleted, disk, audit, left>>

----------------------------------------------------------------------------
(* DELETE: the row must be one of the ticket in the URL, deleted or not.    *)
DeleteFind(r, a, t) ==
    /\ req[r].pc = "idle"
    /\ Stored(a)
    /\ row[a].t = t
    /\ Step(r, [Idle EXCEPT !.pc = "found", !.a = a, !.path = row[a].path])
    /\ UNCHANGED <<deleted, row, disk, audit, left>>

(* unlink; whatever error it has is ignored.                                *)
NotUnlinked(r) ==
    /\ req[r].pc = "found"
    /\ Step(r, [req[r] EXCEPT !.pc = "unlinked"])
    /\ UNCHANGED <<deleted, row, disk, audit, left>>

Unlink(r) ==
    /\ req[r].pc = "found"
    /\ \/ disk' = disk \ {req[r].path} /\ left' = left
       \/ disk' = disk /\ left' = left \cup {req[r].path}
    /\ Step(r, [req[r] EXCEPT !.pc = "unlinked"])
    /\ UNCHANGED <<deleted, row, audit>>

DeleteRow(r) ==
    /\ req[r].pc = "unlinked"
    /\ row' = [row EXCEPT ![req[r].a] = Gone]
    /\ Step(r, [Idle EXCEPT !.pc = "erased", !.a = req[r].a])
    /\ UNCHANGED <<deleted, disk, audit, left>>

Audit(r) ==
    /\ req[r].pc \in {"inserted", "erased"}
    /\ audit' = audit \cup
         {<<IF req[r].pc = "inserted" THEN "UPLOAD" ELSE "DELETE", req[r].a>>}
    /\ Step(r, Idle)
    /\ UNCHANGED <<deleted, row, disk, left>>

(* An exception or the death of the process.                                *)
GiveUp(r) ==
    /\ req[r].pc # "idle"
    /\ left' = left \cup (IF req[r].pc \in {"written", "unlinked"}
                          THEN {req[r].path} ELSE {})
    /\ Step(r, Idle)
    /\ UNCHANGED <<deleted, row, disk, audit>>

----------------------------------------------------------------------------
(* DELETE and RESTORE of a ticket leave its attachments alone.              *)
ToggleTicket(t) ==
    /\ deleted' = IF t \in deleted THEN deleted \ {t} ELSE deleted \cup {t}
    /\ UNCHANGED <<row, disk, audit, req, left>>

HandlerStep(r) ==
    \/ \E t \in Tickets : UploadCheck(r, t)
    \/ \E p \in Paths : WriteFile(r, p)
    \/ \E a \in Attachments : InsertRow(r, a)
    \/ \E a \in Attachments, t \in Tickets : DeleteFind(r, a, t)
    \/ Unlink(r) \/ DeleteRow(r) \/ Audit(r) \/ GiveUp(r)

Next ==
    \/ \E r \in Reqs : HandlerStep(r)
    \/ \E t \in Tickets : ToggleTicket(t)

Spec == Init /\ [][Next]_vars

----------------------------------------------------------------------------
(* The file store, the table and the audit log agree up to the handlers     *)
(* that are between two steps and to what a failure left behind: no file    *)
(* without a row, no row without its file, and nothing is audited that did  *)
(* not happen.  Uploads never share a file.                                 *)
FilesAreReferenced ==
    \A p \in disk \ left :
        \/ \E a \in Attachments : row[a].path = p
        \/ \E r \in Reqs : req[r].pc = "written" /\ req[r].path = p

RowsHaveFiles ==
    \A a \in Attachments :
        Stored(a) /\ row[a].path \notin disk \cup left =>
            \E r \in Reqs : req[r].pc = "unlinked" /\ req[r].a = a

AuditIsTrue ==
    \A a \in Attachments :
        /\ <<"UPLOAD", a>> \in audit => row[a] # Absent
        /\ <<"DELETE", a>> \in audit => row[a] = Gone

StoresAgree == FilesAreReferenced /\ RowsHaveFiles /\ AuditIsTrue

(* To a client an attachment is there when its row and its file are.  It    *)
(* comes once, as a whole, and only a DELETE of that very attachment takes  *)
(* it away, however uploads, deletes, failures and retries overlap.         *)
Available == {a \in Attachments : Stored(a) /\ row[a].path \in disk}

OnlyByItsDelete ==
    /\ \A a \in Available \ Available' :
         \E r \in Reqs : /\ req[r].pc \in {"found", "unlinked"} /\ req[r].a = a
                        /\ req'[r] # req[r]
    /\ \A a \in Available' \ Available : row[a] = Absent

OnlyItsDeleteTakesIt == [][OnlyByItsDelete]_vars
============================================================================
