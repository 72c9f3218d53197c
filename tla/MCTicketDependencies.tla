------------------------ MODULE MCTicketDependencies ------------------------
(* Instances of TicketDependencies for TLC.                                 *)
EXTENDS TicketDependencies, TLC

HandlersAndTickets == Permutations(Reqs) \cup Permutations(Tickets)
============================================================================
