----------------------------- MODULE MCAccounts -----------------------------
(* Instances of Accounts for TLC.                                           *)
EXTENDS Accounts, TLC

HandlersAndPasswords == Permutations(Reqs) \cup Permutations(Passwords)
============================================================================
