----------------------------- MODULE MCAccounts -----------------------------
(* EmployeeAccounts for TLC: workers are interchangeable. *)
EXTENDS EmployeeAccounts, TLC

Symmetry == Permutations(Workers)
=============================================================================
