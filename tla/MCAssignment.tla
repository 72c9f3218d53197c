---------------------------- MODULE MCAssignment ----------------------------
(* Instances of Assignment for TLC.                                         *)
EXTENDS Assignment, TLC

HandlersAndTickets == Permutations(Reqs) \cup Permutations(Tickets)

InReview == {"IN_REVIEW"}
Done == {"DONE"}
=============================================================================
