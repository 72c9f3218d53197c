------------------------------ MODULE CsvRules ------------------------------
(* CSV of the tickets of a project: the columns of the file, what import    *)
(* makes of a line, and the line export writes for a ticket.                *)
(*                                                                          *)
(* A text is a word, or none, with or without blanks around it, and in lower*)
(* or in upper case.  Commas and quotes inside of a text are the business of*)
(* the CSV libraries.                                                       *)
EXTENDS Naturals

CONSTANTS
    Users,      \* by id, so in the order of their registration
    NoUser,
    Words,      \* words that are neither an id nor a value of a column
    NoWord      \* nothing but blanks

Statuses   == {"TODO", "IN_PROGRESS", "IN_REVIEW", "DONE"}
Priorities == {"LOW", "MEDIUM", "HIGH", "CRITICAL"}
Types      == {"BUG", "FEATURE", "TECHNICAL"}

ASSUME CsvAssumption ==
    /\ Users \subseteq Nat
    /\ NoUser \notin Users
    /\ NoWord \notin Words /\ NoWord \notin Users
    /\ NoWord \notin Statuses \cup Priorities \cup Types

MaybeUser == Users \cup {NoUser}

Text(words) == [word : words \cup {NoWord}, padded : BOOLEAN, lower : BOOLEAN]

Plain(word) == [word |-> word, padded |-> FALSE, lower |-> FALSE]

Trim(text) == [text EXCEPT !.padded = FALSE]

UpperCase(text) == [text EXCEPT !.lower = FALSE]

Blank(text) == Trim(text).word = NoWord

----------------------------------------------------------------------------
ExpectedColumns ==
    {"title", "description", "status", "priority", "type", "assigneeId"}

(* assertExpectedColumns: all of them, and no other but id.                 *)
NoOther(header) == header = ExpectedColumns

HeaderAccepted(header) ==
    /\ ExpectedColumns \subseteq header
    /\ header \subseteq ExpectedColumns \cup {"id"}

Default == [status |-> "TODO", priority |-> "MEDIUM", type |-> "FEATURE"]

(* csv-parse with trim: blanks around a cell go, inside of quotes they stay.*)
Parsed(line) ==
    [column \in DOMAIN line |->
        IF line[column].quoted THEN line[column].text ELSE Trim(line[column].text)]

(* parseEnum; NoWord stands for the exception.                              *)
ParseEnum(text, allowed, default) ==
    LET normalized == UpperCase(Trim(text))
    IN  IF Blank(text) THEN default
        ELSE IF normalized \in {Plain(value) : value \in allowed}
             THEN normalized.word ELSE NoWord

(* The assignee of a line: none, or the id of a user there is.              *)
AssigneeAccepted(text, known) == Blank(text) \/ text.word \in known

AssigneeOf(text) == IF Blank(text) THEN NoUser ELSE text.word

(* What a line is refused for, and the columns of the ticket it becomes; one*)
(* without an assignee goes to whom Assignment chooses.                     *)
AnyTitle(row, known) == AssigneeAccepted(row.assigneeId, known)

Accepted(row, known) ==
    /\ ~Blank(row.title)
    /\ ParseEnum(row.status, Statuses, Default.status) # NoWord
    /\ ParseEnum(row.priority, Priorities, Default.priority) # NoWord
    /\ ParseEnum(row.type, Types, Default.type) # NoWord
    /\ AssigneeAccepted(row.assigneeId, known)

Imported(row) ==
    [title |-> Trim(row.title), description |-> row.description,
     status |-> ParseEnum(row.status, Statuses, Default.status),
     priority |-> ParseEnum(row.priority, Priorities, Default.priority),
     type |-> ParseEnum(row.type, Types, Default.type),
     assigneeId |-> AssigneeOf(row.assigneeId)]

----------------------------------------------------------------------------
(* A title that POST and PATCH take is not the empty text; blanks will do.  *)
Postable(title) == title.word # NoWord \/ title.padded

StoredTicket ==
    [title : {title \in Text(Words) : Postable(title)}, description : Text(Words),
     status : Statuses, priority : Priorities, type : Types, assigneeId : MaybeUser]

ExportedColumns == {"id"} \cup ExpectedColumns

Quoted(text) == [text |-> text, quoted |-> TRUE]

Exported(ticket) ==
    [title |-> Quoted(ticket.title), description |-> Quoted(ticket.description),
     status |-> Quoted(Plain(ticket.status)),
     priority |-> Quoted(Plain(ticket.priority)),
     type |-> Quoted(Plain(ticket.type)),
     assigneeId |-> Quoted(Plain(IF ticket.assigneeId = NoUser
                                 THEN NoWord ELSE ticket.assigneeId))]

----------------------------------------------------------------------------
(* Import reads what export writes: it takes the header, and of the lines   *)
(* all but those whose title is blank or whose assignee is no user any more;*)
(* the ticket it makes of a line has the columns of the exported one, but   *)
(* for the blanks around the title.                                         *)
ComesBack(ticket, known) ==
    LET row == Parsed(Exported(ticket))
    IN  /\ HeaderAccepted(ExportedColumns)
        /\ Accepted(row, known) <=>
             ~Blank(ticket.title) /\ ticket.assigneeId \in known \cup {NoUser}
        /\ Imported(row) = [ticket EXCEPT !.title = Trim(@)]
=============================================================================
