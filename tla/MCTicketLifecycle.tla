------------------------- MODULE MCTicketLifecycle -------------------------
(* Instances of TicketLifecycle for TLC.                                    *)
EXTENDS TicketLifecycle, TLC

TwoRequests == Permutations(Reqs)

Body(status, priority, due) == [status |-> status, priority |-> priority, due |-> due]

Fresh(status, priority, due) ==
    [life |-> "active", status |-> status, priority |-> priority,
     isOverdue |-> FALSE, due |-> due]

(* A ticket due at time 0, so overdue from time 1 on, two rungs below the   *)
(* flag, and one that is started already.                                   *)
MCNewRows == {Fresh("TODO", "HIGH", 0), Fresh("IN_REVIEW", "CRITICAL", NoDue)}

(* Forward and backward steps, a manual priority, a due date removed.       *)
AllEdits == {Body("IN_PROGRESS", Keep, Keep), Body("DONE", Keep, Keep),
             Body("TODO", Keep, Keep), Body(Keep, "LOW", Keep),
             Body(Keep, Keep, NoDue)}

StatusEdits == {Body("IN_PROGRESS", Keep, Keep), Body("DONE", Keep, Keep),
                Body("TODO", Keep, Keep)}
============================================================================
