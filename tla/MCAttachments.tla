--------------------------- MODULE MCAttachments ---------------------------
(* Instances of Attachments for TLC.                                        *)
EXTENDS Attachments, TLC

Interchangeable ==
    Permutations(Tickets) \cup Permutations(Attachments)
    \cup Permutations(Paths) \cup Permutations(Reqs)
============================================================================
