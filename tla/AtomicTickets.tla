--------------------------- MODULE AtomicTickets ---------------------------
(* What the ticket endpoints promise their clients: each successful request *)
(* changes one ticket in one indivisible step, judged against the row it    *)
(* changes.  The escalation is outside of the promise: a step of its runs,  *)
(* whose whole state is the variable job, may overwrite a ticket.  A step   *)
(* that leaves job alone is a handler's, so nothing a handler does can pass *)
(* for an overwrite.  TicketLifecycle, where each handler is several        *)
(* statements on several connections, implements this specification.        *)
EXTENDS TicketRules

CONSTANTS Tickets, NewRows, Edits, Absent

VARIABLES
    row,
    job     \* where the escalation runs are; their own business

vars == <<row, job>>

Init == row = [t \in Tickets |-> Absent]

Post(t) ==
    /\ row[t].life = "absent"
    /\ \E new \in NewRows : row' = [row EXCEPT ![t] = new]
    /\ UNCHANGED job

(* BR-01, BR-02: an edit of an active ticket that is not DONE moves its     *)
(* status forward or leaves it.                                             *)
Patch(t) ==
    /\ row[t].life = "active"
    /\ \E edit \in Edits :
         /\ EditAccepted(row[t], edit)
         /\ row' = [row EXCEPT ![t] = Edited(row[t], edit)]
    /\ UNCHANGED job

Remove(t) ==
    /\ row[t].life = "active"
    /\ row' = [row EXCEPT ![t].life = "deleted"]
    /\ UNCHANGED job

Restore(t) ==
    /\ row[t].life = "deleted"
    /\ row' = [row EXCEPT ![t].life = "active"]
    /\ UNCHANGED job

(* A run overwrites a ticket with what it remembers of it: it neither       *)
(* inserts nor deletes one, but it may bring a deleted one back.            *)
Overwrite(t) ==
    /\ row[t].life # "absent"
    /\ row'[t].life \in {row[t].life, "active"}
    /\ row' = [row EXCEPT ![t] = row'[t]]

Escalate ==
    /\ job' # job
    /\ UNCHANGED row \/ \E t \in Tickets : Overwrite(t)

Next ==
    \/ \E t \in Tickets : Post(t) \/ Patch(t) \/ Remove(t) \/ Restore(t)
    \/ Escalate

Spec == Init /\ [][Next]_vars
============================================================================
