----------------------------- MODULE MCComments -----------------------------
(* Instances of Comments for TLC: of three users one has a name like        *)
(* john-doe, which is cut to that of the first.                             *)
EXTENDS Comments, TLC

CONSTANTS john, johnDoe, mary

CutAtTheHyphen == [n \in {john, johnDoe, mary} |-> {IF n = johnDoe THEN john ELSE n}]

Interchangeable == Permutations(Reqs)
=============================================================================
