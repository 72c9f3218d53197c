----------------------------- MODULE MCSessions -----------------------------
(* Instances of Sessions for TLC.                                           *)
EXTENDS Sessions, TLC

TokensAndRequests == Permutations(Tokens) \cup Permutations(Reqs)
============================================================================
