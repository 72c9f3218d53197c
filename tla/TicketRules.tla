---------------------------- MODULE TicketRules ----------------------------
(* The pure rules of a ticket: the order of statuses, the priority ladder   *)
(* the escalation climbs, the overdue flag a response shows, and what a     *)
(* PATCH body does to the columns.  Every other ticket module is built from *)
(* these operators.                                                         *)
EXTENDS Naturals

CONSTANTS
    NoDue,      \* dueDate IS NULL
    Keep,       \* a field the PATCH body does not carry (undefined)
    MaxTime     \* bound on the clock, and so on due dates

ASSUME RulesAssumption ==
    /\ MaxTime \in Nat
    /\ NoDue \notin Nat
    /\ Keep \notin Nat \cup {NoDue}
    /\ Keep \notin {"TODO", "IN_PROGRESS", "IN_REVIEW", "DONE"}
    /\ Keep \notin {"LOW", "MEDIUM", "HIGH", "CRITICAL"}

Statuses   == {"TODO", "IN_PROGRESS", "IN_REVIEW", "DONE"}
Priorities == {"LOW", "MEDIUM", "HIGH", "CRITICAL"}
Times      == 0 .. MaxTime
Dues       == Times \cup {NoDue}

StatusOrder    == [TODO |-> 0, IN_PROGRESS |-> 1, IN_REVIEW |-> 2, DONE |-> 3]
PriorityLadder == [LOW |-> 0, MEDIUM |-> 1, HIGH |-> 2, CRITICAL |-> 3]
NextRung       == [LOW |-> "MEDIUM", MEDIUM |-> "HIGH", HIGH |-> "CRITICAL"]

(* The columns of tickets that these modules tell apart.  "absent" is an id *)
(* that has not been inserted, "deleted" a row with deletedAt set.          *)
Row == [life : {"absent", "active", "deleted"}, status : Statuses,
        priority : Priorities, isOverdue : BOOLEAN, due : Dues]

Edit == [status : Statuses \cup {Keep}, priority : Priorities \cup {Keep},
         due : Dues \cup {Keep}]

----------------------------------------------------------------------------
(* validateTransition: staying put is allowed, otherwise only forward.      *)
AnyTransition(current, next) == TRUE

ValidTransition(current, next) ==
    \/ next = current
    \/ StatusOrder[next] > StatusOrder[current]

(* assertNotDone.                                                           *)
NotDone(row) == row.status # "DONE"

EditAccepted(row, edit) ==
    /\ NotDone(row)
    /\ edit.status # Keep => ValidTransition(row.status, edit.status)

(* The field assignments of patch: a priority in the body, even the same    *)
(* one, clears the persisted overdue flag.                                  *)
AssignUndefined(row, edit) == [row EXCEPT !.priority = edit.priority]

KeepFlag(row, edit) ==
    [row EXCEPT !.priority = IF edit.priority = Keep THEN @ ELSE edit.priority]

Edited(row, edit) ==
    [row EXCEPT !.status    = IF edit.status = Keep THEN @ ELSE edit.status,
                !.due       = IF edit.due = Keep THEN @ ELSE edit.due,
                !.priority  = IF edit.priority = Keep THEN @ ELSE edit.priority,
                !.isOverdue = IF edit.priority = Keep THEN @ ELSE FALSE]

----------------------------------------------------------------------------
(* The filter of the escalation query and of its loop, for the time now the *)
(* run captured when it began.                                              *)
Overdue(row, now) ==
    /\ row.life = "active"
    /\ row.status # "DONE"
    /\ row.due # NoDue
    /\ row.due < now

(* One escalation step: one rung up, and only a CRITICAL ticket is flagged. *)
FlagAtOnce(row) ==
    IF row.priority = "CRITICAL"
    THEN [row EXCEPT !.isOverdue = TRUE]
    ELSE [row EXCEPT !.priority = NextRung[row.priority], !.isOverdue = TRUE]

NeverFlag(row) ==
    IF row.priority = "CRITICAL"
    THEN row
    ELSE [row EXCEPT !.priority = NextRung[row.priority]]

Escalated(row) ==
    IF row.priority = "CRITICAL"
    THEN [row EXCEPT !.isOverdue = TRUE]
    ELSE [row EXCEPT !.priority = NextRung[row.priority], !.isOverdue = FALSE]

(* computeIsOverdue: what a response says.                                  *)
ShownOverdue(row) == row.status # "DONE" /\ row.due # NoDue /\ row.isOverdue
============================================================================
