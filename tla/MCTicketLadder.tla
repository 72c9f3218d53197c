--------------------------- MODULE MCTicketLadder ---------------------------
(* An instance of TicketLadder for TLC: a ticket due at time 0, overdue from*)
(* time 1 on and two steps of a run below the flag, which PATCHes may put   *)
(* back there at any time, and a run that starts beside another.            *)
EXTENDS TicketLadder, TLC

Climber == {[life |-> "active", status |-> "TODO", priority |-> "HIGH",
             isOverdue |-> FALSE, due |-> 0]}

PriorityEdit == {[status |-> Keep, priority |-> "HIGH", due |-> Keep]}
============================================================================
