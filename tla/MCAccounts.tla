----------------------------- MODULE MCAccounts -----------------------------
(* Accounts for TLC: requests and email addresses are interchangeable.     *)
EXTENDS Accounts, TLC

Symmetry == Permutations(Requests) \cup Permutations(Emails)
====
