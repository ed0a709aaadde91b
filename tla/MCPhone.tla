------------------------------ MODULE MCPhone ------------------------------
(* PhoneSession for TLC: calls and the server's workers are interchangeable. *)
EXTENDS PhoneSession, TLC

Symmetry == Permutations(Calls) \union Permutations(Workers)
=============================================================================
