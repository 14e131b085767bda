------------------------------ MODULE MCLedger ------------------------------
(* Model of the ledger for TLC: two daemon processes and two contents.     *)
EXTENDS Ledger, TLC

Symmetry == Permutations(Writers) \cup Permutations(Payloads)
=============================================================================
